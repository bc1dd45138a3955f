------------------------- MODULE RecorderRefinement -------------------------
(***************************************************************************)
(* The recorder implements TakeLog: what its threads, queue and lock do    *)
(* amounts to delivering each message once, in arrival order.              *)
(***************************************************************************)
EXTENDS Recorder

MessagesOf(id, from) == {[id |-> id, part |-> p] : p \in from..SizeOf(id)}

\* The message in the processor's hands and the rest of its bundle, the queue,
\* and the datagram the receiver is about to put.
Pending ==
    (IF pheld = None THEN {} ELSE MessagesOf(pheld, ppart))
    \cup (UNION {MessagesOf(queue[i], 1) : i \in 1..Len(queue)})
    \cup (IF rheld = None THEN {} ELSE MessagesOf(rheld, 1))

\* The messages of a file, without their q.
Lines(file) == [i \in 1..Len(file) |-> [id |-> file[i].id, part |-> file[i].part]]

Abstract == INSTANCE TakeLog WITH
    arrived <- Len(received),
    pending <- Pending,
    open    <- take,
    last    <- IF cpc \in {"baseline", "arm"} THEN nextTake - 2 ELSE nextTake - 1,
    ended   <- {k \in TakeNumbers : Ended(k)},
    log     <- [k \in TakeNumbers |-> Lines(takes[k].file)],
    outside <- idle

\* Every behaviour of the threads is one of TakeLog: no message is lost between
\* recvfrom and its destination, delivered twice or out of order, and no take that
\* has ended is touched, however start_take, stop_take and stop interleave with
\* _receive_loop and _process_loop.
ImplementsTakeLog == Abstract!Spec
=============================================================================

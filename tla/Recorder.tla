------------------------------ MODULE Recorder ------------------------------
(***************************************************************************)
(* The capture path of puara-creator: the three threads that meet in       *)
(* recorder.py's Recorder object, and the kernel socket buffer in front of *)
(* them.                                                                   *)
(*                                                                         *)
(*   kernel  --kbuf-->  receiver  --queue-->  processor  -->  take / idle  *)
(*                                                ^                        *)
(*                                    caller: start_take, stop_take, stop  *)
(*                                                                         *)
(* The receiver stamps a datagram when recvfrom returns and queues it; the *)
(* processor parses it and, one message at a time and under Recorder._lock,*)
(* counts it and routes it to the open take or to the idle counters; the   *)
(* caller (the keyboard loop, or the event loop of the web front end) opens*)
(* and closes takes.                                                       *)
(*                                                                         *)
(* Time is counted in take boundaries: `clock` advances exactly when a     *)
(* t_start or a t_end is stamped, so that comparing a datagram's stamp with*)
(* t_start and t_end says on which side of each boundary it arrived, and   *)
(* nothing else about the real clock is kept.                              *)
(*                                                                         *)
(* A take here has no cue engine (an ambient take, or interval_s = 0): the *)
(* cue thread neither reads nor writes any of these variables but `take`,  *)
(* and is the subject of a module of its own.                              *)
(***************************************************************************)
EXTENDS Integers, Sequences, FiniteSets

CONSTANTS
    Sizes,          \* messages in a datagram: 1 bare, n a bundle, 0 malformed
    KernelCap,      \* datagrams the socket receive buffer holds
    MaxDatagrams,   \* bound: datagrams sent to the open socket
    MaxTakes,       \* bound: takes started in the session
    MaxMarks,       \* bound: calls of mark_last_take
    DropsReadable   \* whether /proc/net/udp can be read on this platform

ASSUME SizesAssumption    == Sizes \subseteq Nat
ASSUME BoundsAssumption   == /\ KernelCap \in Nat /\ MaxDatagrams \in Nat
                             /\ MaxTakes \in Nat /\ MaxMarks \in Nat
ASSUME PlatformAssumption == DropsReadable \in BOOLEAN

None == 0            \* self._take is None; also "no datagram held"
TakeNumbers == 1..MaxTakes

VARIABLES
    sock,       \* "unbound", "open" or "closed"
    kbuf,       \* the socket receive buffer: sizes of waiting datagrams
    kdrops,     \* the kernel's drop counter of this socket
    received,   \* history: [size, stamp] of every datagram recvfrom returned;
                \*   a datagram's index here is its identity
    rpc, rheld, \* receiver: control point, datagram in hand
    queue,      \* self._queue
    stop,       \* self._stop
    ppc, pheld, \* processor: control point, datagram in hand,
    ppart,      \*   index of the message being handled,
    ptake,      \*   the local `take` of _handle
    lock,       \* self._lock
    take,       \* self._take: None or a take number
    takeSeq,    \* self._take_seq
    dropsBase,  \* self._drops_at_take_start
    takes,      \* session.takes: one record for each take number
    nextTake,   \* session._next_take
    clock,      \* number of take boundaries stamped so far
    cpc, ctake, \* caller: control point, the local `take` of stop_take
    closing,    \* caller: stop_take was called from stop()
    total,      \* self._total_messages
    idle,       \* what self._idle_health observed, in order
    malformed,  \* self._malformed
    lostArmed,  \* history: drops of the kernel while self._take was k
    marks       \* history: calls of mark_last_take

netVars    == <<sock, kbuf, kdrops>>
recvVars   == <<received, rpc, rheld>>
procVars   == <<ppc, pheld, ppart, ptake, lock, total, idle, malformed>>
callerVars == <<cpc, ctake, closing, take, dropsBase, nextTake, clock, stop, marks>>
sharedVars == <<queue, takeSeq, takes>>
vars == <<netVars, recvVars, procVars, callerVars, sharedVars, lostArmed>>

-----------------------------------------------------------------------------
(* Data *)

Message    == [id : Nat, part : Nat]
TakeRecord == [id : Nat, part : Nat, q : Int]

Drops == [known : BOOLEAN, n : Int]

\* A take's status, and what Session.write_take_meta persists of the take.
Status == {"unused", "recording", "complete", "aborted"}
Meta == [count : Nat, status : Status]

Take == [status : Status,
         tStart : Nat, tEnd : Nat, writerOpen : BOOLEAN,
         file : Seq(TakeRecord), count : Nat, malformed : Nat,
         drops : Drops, bad : BOOLEAN, meta : Meta]

UnusedTake == [status |-> "unused", tStart |-> 0, tEnd |-> 0,
               writerOpen |-> FALSE, file |-> <<>>, count |-> 0,
               malformed |-> 0, drops |-> [known |-> FALSE, n |-> 0],
               bad |-> FALSE, meta |-> [count |-> 0, status |-> "recording"]]

NewTake(t) == [UnusedTake EXCEPT !.status = "recording", !.tStart = t,
                                 !.writerOpen = TRUE]

\* end_take: stamp the end, set the status, close the writer.
EndedTake(t, end, st) == [t EXCEPT !.tEnd = end, !.status = st, !.writerOpen = FALSE]

\* write_take_meta: message_count and status as they are at that moment.
WithMeta(t) == [t EXCEPT !.meta = [count |-> t.count, status |-> t.status]]

\* socket_drops(): the counter, or nothing where the platform cannot say.
SocketDrops == [known |-> DropsReadable, n |-> IF DropsReadable THEN kdrops ELSE 0]

Sent == Len(received) + Len(kbuf) + kdrops

LockFree == lock = "free"

Init ==
    /\ sock = "unbound" /\ kbuf = <<>> /\ kdrops = 0
    /\ received = <<>> /\ rpc = "off" /\ rheld = None
    /\ queue = <<>> /\ stop = FALSE
    /\ ppc = "off" /\ pheld = None /\ ppart = 0 /\ ptake = None
    /\ lock = "free" /\ take = None /\ takeSeq = 0 /\ dropsBase = 0
    /\ takes = [k \in TakeNumbers |-> UnusedTake] /\ nextTake = 1 /\ clock = 0
    /\ cpc = "new" /\ ctake = None /\ closing = FALSE
    /\ total = 0 /\ idle = <<>> /\ malformed = 0
    /\ lostArmed = [k \in TakeNumbers |-> 0] /\ marks = 0

-----------------------------------------------------------------------------
(* The kernel: a datagram reaches the socket, or finds its buffer full. *)

KernelDeliver ==
    /\ sock = "open" /\ Sent < MaxDatagrams
    /\ IF Len(kbuf) < KernelCap
       THEN /\ \E size \in Sizes : kbuf' = Append(kbuf, size)
            /\ UNCHANGED <<kdrops, lostArmed>>
       ELSE /\ kdrops' = kdrops + 1
            /\ lostArmed' = IF take = None THEN lostArmed
                            ELSE [lostArmed EXCEPT ![take] = @ + 1]
            /\ UNCHANGED kbuf
    /\ UNCHANGED <<sock, recvVars, procVars, callerVars, sharedVars>>

-----------------------------------------------------------------------------
(* _receive_loop. Reading the clock is part of the step in which recvfrom  *)
(* returns: until the put nothing else can tell the two apart.             *)

TestStop ==
    /\ rpc = "test"
    /\ rpc' = IF stop THEN "done" ELSE "recv"
    /\ UNCHANGED <<kbuf, received, rheld, queue>>

RecvFrom ==
    /\ rpc = "recv" /\ sock = "open" /\ kbuf # <<>>
    /\ kbuf' = Tail(kbuf)
    /\ received' = Append(received, [size |-> Head(kbuf), stamp |-> clock])
    /\ rheld' = Len(received) + 1
    /\ rpc' = "put"
    /\ UNCHANGED queue

\* TimeoutError, after _RECV_TIMEOUT_S without a datagram; or OSError, when
\* stop() gave up joining and closed the socket under the receiver.
RecvNothing ==
    /\ rpc = "recv"
    /\ \/ sock = "open" /\ kbuf = <<>> /\ rpc' = "test"
       \/ sock = "closed" /\ rpc' = "done"
    /\ UNCHANGED <<kbuf, received, rheld, queue>>

QueuePut ==
    /\ rpc = "put"
    /\ queue' = Append(queue, rheld)
    /\ rheld' = None
    /\ rpc' = "test"
    /\ UNCHANGED <<kbuf, received>>

ReceiveLoop ==
    /\ TestStop \/ RecvFrom \/ RecvNothing \/ QueuePut
    /\ UNCHANGED <<sock, kdrops, procVars, callerVars, takeSeq, takes, lostArmed>>

-----------------------------------------------------------------------------
(* _process_loop and _handle *)

SizeOf(id) == received[id].size
\* Mutant: the newest datagram is taken first.
MutGetNewest ==
    /\ ppc = "get" /\ queue # <<>>
    /\ pheld' = queue[Len(queue)] /\ queue' = SubSeq(queue, 1, Len(queue) - 1) /\ ppart' = 1
    /\ ppc' = IF SizeOf(queue[Len(queue)]) = 0 THEN "malformed" ELSE "lock"
    /\ UNCHANGED <<ptake, lock, takeSeq, takes, total, idle, malformed>>

GetDatagram ==
    /\ ppc = "get" /\ queue # <<>>
    /\ pheld' = Head(queue) /\ queue' = Tail(queue) /\ ppart' = 1
    /\ ppc' = IF SizeOf(Head(queue)) = 0 THEN "malformed" ELSE "lock"
    /\ UNCHANGED <<ptake, lock, takeSeq, takes, total, idle, malformed>>
\* Mutant: the processor gives up at the first empty queue.
MutExitOnEmpty ==
    /\ ppc \in {"get", "empty"} /\ queue = <<>>
    /\ ppc' = IF ppc = "get" THEN "empty" ELSE "done"
    /\ UNCHANGED <<queue, pheld, ppart, ptake, lock, takeSeq, takes, total, idle, malformed>>

\* Mutant: the processor does not look at the stop event.
MutNeverStops ==
    /\ \/ ppc = "get" /\ queue = <<>> /\ ppc' = "empty"
       \/ ppc = "empty" /\ ppc' = "get"
    /\ UNCHANGED <<queue, pheld, ppart, ptake, lock, takeSeq, takes, total, idle, malformed>>

\* queue.Empty; the stop event is looked at afterwards, in a step of its own.
GetEmpty ==
    /\ \/ ppc = "get" /\ queue = <<>> /\ ppc' = "empty"
       \/ ppc = "empty" /\ ppc' = IF stop THEN "done" ELSE "get"
    /\ UNCHANGED <<queue, pheld, ppart, ptake, lock, takeSeq, takes,
                   total, idle, malformed>>

CountMalformed ==
    /\ ppc = "malformed"
    /\ malformed' = malformed + 1
    /\ ppc' = "malformedLock"
    /\ UNCHANGED <<queue, pheld, ppart, ptake, lock, takeSeq, takes, total, idle>>

TakeMalformed ==
    /\ ppc = "malformedLock" /\ LockFree
    /\ takes' = IF take = None THEN takes
                ELSE [takes EXCEPT ![take].malformed = @ + 1]
    /\ ppc' = "get" /\ pheld' = None /\ ppart' = 0
    /\ UNCHANGED <<queue, ptake, lock, takeSeq, total, idle, malformed>>

AcquireLock ==
    /\ ppc = "lock" /\ LockFree
    /\ lock' = "processor"
    /\ ppc' = "count"
    /\ UNCHANGED <<queue, pheld, ppart, ptake, takeSeq, takes, total, idle, malformed>>

CountMessage ==
    /\ ppc = "count"
    /\ total' = total + 1
    /\ ptake' = take
    /\ ppc' = IF take = None THEN "idle" ELSE "observe"
    /\ UNCHANGED <<queue, pheld, ppart, lock, takeSeq, takes, idle, malformed>>
\* Mutant: the lock is kept between the messages of a bundle, and is not reentrant.
MutLockKept ==
    /\ lock' = IF ppart < SizeOf(pheld) THEN lock ELSE "free"
    /\ ptake' = None
    /\ IF ppart < SizeOf(pheld)
       THEN ppc' = "lock" /\ ppart' = ppart + 1 /\ pheld' = pheld
       ELSE ppc' = "get" /\ ppart' = 0 /\ pheld' = None

\* Leaving the `with` block, and on to the bundle's next message if there is one.
ReleaseLock ==
    /\ lock' = "free" /\ ptake' = None
    /\ IF ppart < SizeOf(pheld)
       THEN ppc' = "lock" /\ ppart' = ppart + 1 /\ pheld' = pheld
       ELSE ppc' = "get" /\ ppart' = 0 /\ pheld' = None

ObserveIdle ==
    /\ ppc = "idle"
    /\ idle' = Append(idle, [id |-> pheld, part |-> ppart])
    /\ ReleaseLock
    /\ UNCHANGED <<queue, takeSeq, takes, total, malformed>>
\* Mutant: the write is moved out of the `with` block.
MutWriteUnlocked ==
    /\ ppc = "observe"
    /\ takeSeq' = takeSeq + 1
    /\ takes' = [takes EXCEPT ![ptake].count = @ + 1]
    /\ ppc' = "write" /\ lock' = "free"
    /\ UNCHANGED <<queue, pheld, ppart, ptake, total, idle, malformed>>

\* record["q"], then take.health.observe.
ObserveTake ==
    /\ ppc = "observe"
    /\ takeSeq' = takeSeq + 1
    /\ takes' = [takes EXCEPT ![ptake].count = @ + 1]
    /\ ppc' = "write"
    /\ UNCHANGED <<queue, pheld, ppart, ptake, lock, total, idle, malformed>>

WriteRecord ==
    /\ ppc = "write"
    /\ takes' = [takes EXCEPT ![ptake].file =
                   Append(@, [id |-> pheld, part |-> ppart, q |-> takeSeq - 1])]
    /\ ReleaseLock
    /\ UNCHANGED <<queue, takeSeq, total, idle, malformed>>

ProcessLoop ==
    /\ \/ GetDatagram \/ GetEmpty \/ CountMalformed \/ TakeMalformed
       \/ AcquireLock \/ CountMessage \/ ObserveIdle \/ ObserveTake \/ WriteRecord
    /\ UNCHANGED <<netVars, recvVars, callerVars, lostArmed>>

-----------------------------------------------------------------------------
(* The caller. Its critical sections are single steps that need the lock   *)
(* free: nothing reads `take` or `takeSeq` in the middle of one.           *)

\* Recorder.start: bind the socket, start both threads.
Start ==
    /\ cpc = "new"
    /\ sock' = "open" /\ rpc' = "test" /\ ppc' = "get" /\ cpc' = "idle"
    /\ UNCHANGED <<takes, take, takeSeq, ctake, closing, dropsBase, nextTake, clock, stop, marks>>

\* Mutant: the take is published before the drop counter's baseline is read.
MutArmFirst ==
    /\ cpc = "idle" /\ take = None /\ nextTake <= MaxTakes
    /\ clock' = clock + 1
    /\ takes' = [takes EXCEPT ![nextTake] = NewTake(clock + 1)]
    /\ take' = nextTake
    /\ nextTake' = nextTake + 1
    /\ cpc' = "baseline"
    /\ UNCHANGED <<sock, rpc, ppc, takeSeq, ctake, closing, dropsBase, stop, marks>>

\* start_take (refused while a take is recording), and in it session.start_take.
StartTake ==
    /\ cpc = "idle" /\ take = None /\ nextTake <= MaxTakes
    /\ clock' = clock + 1
    /\ takes' = [takes EXCEPT ![nextTake] = NewTake(clock + 1)]
    /\ nextTake' = nextTake + 1
    /\ cpc' = "baseline"
    /\ UNCHANGED <<sock, rpc, ppc, take, takeSeq, ctake, closing, dropsBase, stop, marks>>

\* self.socket_drops() or 0
ReadBaseline ==
    /\ cpc = "baseline"
    /\ dropsBase' = SocketDrops.n
    /\ cpc' = "arm"
    /\ UNCHANGED <<sock, rpc, ppc, takes, take, takeSeq, ctake, closing, nextTake, clock, stop, marks>>

\* Mutant: the record counter is not reset.
MutSeqKept ==
    /\ cpc = "arm" /\ LockFree
    /\ take' = nextTake - 1
    /\ cpc' = "idle"
    /\ UNCHANGED <<sock, rpc, ppc, takes, takeSeq, ctake, closing, dropsBase, nextTake,
                   clock, stop, marks>>

\* Mutant: the take is numbered by a counter that has already moved on.
MutNextNumber ==
    /\ cpc = "arm" /\ LockFree
    /\ take' = nextTake /\ takeSeq' = 0
    /\ cpc' = "idle"
    /\ UNCHANGED <<sock, rpc, ppc, takes, ctake, closing, dropsBase, nextTake, clock, stop, marks>>

ArmTake ==
    /\ cpc = "arm" /\ LockFree
    /\ take' = nextTake - 1 /\ takeSeq' = 0
    /\ cpc' = "idle"
    /\ UNCHANGED <<sock, rpc, ppc, takes, ctake, closing, dropsBase, nextTake, clock, stop, marks>>

\* stop_take; with no take open it returns None once it has looked.
StopTake ==
    /\ cpc = "idle"
    /\ cpc' = "disarm"
    /\ UNCHANGED <<sock, rpc, ppc, takes, take, takeSeq, ctake, closing, dropsBase,
                   nextTake, clock, stop, marks>>

\* Mutant: the take is closed without the lock.
MutDisarmUnlocked ==
    /\ cpc = "disarm"
    /\ ctake' = take /\ take' = None
    /\ cpc' = IF take = None THEN "idle" ELSE "drops"
    /\ UNCHANGED <<sock, rpc, ppc, takes, takeSeq, closing, dropsBase, nextTake, clock, stop, marks>>

\* The critical section of stop_take.
DisarmTake ==
    /\ cpc = "disarm" /\ LockFree
    /\ ctake' = take /\ take' = None
    /\ cpc' = IF take = None THEN "idle" ELSE "drops"
    /\ UNCHANGED <<sock, rpc, ppc, takes, takeSeq, closing, dropsBase, nextTake, clock, stop, marks>>

ReadDrops ==
    /\ cpc = "drops"
    /\ takes' = [takes EXCEPT ![ctake].drops =
                   [known |-> SocketDrops.known, n |-> SocketDrops.n - dropsBase]]
    /\ cpc' = "end"
    /\ UNCHANGED <<sock, rpc, ppc, take, takeSeq, ctake, closing, dropsBase, nextTake,
                   clock, stop, marks>>
\* stop_take's status: "complete", or what stop() passes.
EndStatus == IF closing THEN "aborted" ELSE "complete"

\* Mutant: the metadata is not rewritten when the take ends.
MutMetaNotRewritten ==
    /\ cpc = "end"
    /\ clock' = clock + 1
    /\ takes' = [takes EXCEPT ![ctake] = EndedTake(@, clock + 1, EndStatus)]
    /\ ctake' = None
    /\ cpc' = IF closing THEN "setStop" ELSE "idle"
    /\ UNCHANGED <<sock, rpc, ppc, take, takeSeq, closing, dropsBase, nextTake, stop, marks>>

\* session.end_take: t_end, status, close the writer, rewrite the metadata.
EndTake ==
    /\ cpc = "end"
    /\ clock' = clock + 1
    /\ takes' = [takes EXCEPT ![ctake] = WithMeta(EndedTake(@, clock + 1, EndStatus))]
    /\ ctake' = None
    /\ cpc' = IF closing THEN "setStop" ELSE "idle"
    /\ UNCHANGED <<sock, rpc, ppc, take, takeSeq, closing, dropsBase, nextTake, stop, marks>>

\* self._take or (self.session.takes[-1] ...)
LastTake == IF take # None THEN take ELSE nextTake - 1

\* mark_last_take. The metadata is rewritten without the lock, so it may count a
\* message the processor has yet to write.
MarkLastTake ==
    /\ cpc = "idle" /\ nextTake > 1 /\ marks < MaxMarks
    /\ marks' = marks + 1
    /\ takes' = [takes EXCEPT ![LastTake] = WithMeta([@ EXCEPT !.bad = TRUE])]
    /\ UNCHANGED <<sock, rpc, ppc, take, takeSeq, cpc, ctake, closing, dropsBase,
                   nextTake, clock, stop>>

\* Recorder.stop: an open take is aborted first.
Stop ==
    /\ cpc = "idle"
    /\ closing' = (take # None)
    /\ cpc' = IF take # None THEN "disarm" ELSE "setStop"
    /\ UNCHANGED <<sock, rpc, ppc, takes, take, takeSeq, ctake, dropsBase, nextTake,
                   clock, stop, marks>>

\* Each join is given up after two seconds, whatever the thread is doing.
FinishStop ==
    /\ \/ cpc = "setStop" /\ stop' = TRUE /\ cpc' = "join" /\ UNCHANGED sock
       \/ cpc = "join" /\ sock' = "closed" /\ cpc' = "closed" /\ UNCHANGED stop
    /\ UNCHANGED <<rpc, ppc, takes, take, takeSeq, ctake, closing, dropsBase, nextTake, clock, marks>>

CallerFrame == UNCHANGED <<kbuf, kdrops, received, rheld, queue, pheld, ppart, ptake,
                           lock, total, idle, malformed, lostArmed>>

CallerBegins ==
    /\ Start \/ StartTake \/ StopTake \/ MarkLastTake \/ Stop
    /\ CallerFrame

\* Steps of an operation the caller is in the middle of.
CallerContinues ==
    /\ ReadBaseline \/ ArmTake \/ DisarmTake \/ ReadDrops \/ EndTake \/ FinishStop
    /\ CallerFrame

Terminated ==
    /\ cpc = "closed" /\ rpc = "done" /\ ppc = "done"
    /\ UNCHANGED vars

Next == KernelDeliver \/ ReceiveLoop \/ ProcessLoop \/ CallerBegins \/ CallerContinues
        \/ Terminated

Spec == Init /\ [][Next]_vars

\* Each thread keeps running, and an operation of the caller, once begun, goes
\* on; nobody has to start another take, and no sender has to send.
Fairness == WF_vars(ReceiveLoop) /\ WF_vars(ProcessLoop) /\ WF_vars(CallerContinues)

FairSpec == Spec /\ Fairness

-----------------------------------------------------------------------------
(* Properties *)

NetType ==
    /\ sock \in {"unbound", "open", "closed"}
    /\ kbuf \in Seq(Sizes) /\ kdrops \in Nat
    /\ lostArmed \in [TakeNumbers -> Nat]

ReceiverType ==
    /\ received \in Seq([size : Sizes, stamp : Nat])
    /\ rpc \in {"off", "test", "recv", "put", "done"}
    /\ rheld \in Nat /\ queue \in Seq(Nat)

ProcessorType ==
    /\ ppc \in {"off", "get", "empty", "malformed", "malformedLock", "lock",
                "count", "idle", "observe", "write", "done"}
    /\ pheld \in Nat /\ ppart \in Nat /\ ptake \in TakeNumbers \cup {None}
    /\ lock \in {"free", "processor"}
    /\ total \in Nat /\ idle \in Seq(Message) /\ malformed \in Nat

CallerType ==
    /\ cpc \in {"new", "idle", "baseline", "arm", "disarm", "drops", "end",
                "setStop", "join", "closed"}
    /\ ctake \in TakeNumbers \cup {None} /\ closing \in BOOLEAN
    /\ take \in TakeNumbers \cup {None} /\ takeSeq \in Nat /\ dropsBase \in Nat
    /\ nextTake \in 1..(MaxTakes + 1) /\ clock \in Nat
    /\ stop \in BOOLEAN /\ marks \in Nat

\* Every variable stays in the set of values the code can give it.
TypeOK ==
    /\ NetType /\ ReceiverType /\ ProcessorType /\ CallerType
    /\ takes \in [TakeNumbers -> Take]

Ended(k) == takes[k].status \in {"complete", "aborted"}
Stamp(m) == received[m.id].stamp
IsMessage(id, part) == id \in 1..Len(received) /\ part \in 1..SizeOf(id)

\* n is the message that arrived next after m: only malformed datagrams between.
Successor(m, n) ==
    \/ n.id = m.id /\ n.part = m.part + 1
    \/ /\ n.id > m.id /\ n.part = 1 /\ m.part = SizeOf(m.id)
       /\ \A d \in (m.id + 1)..(n.id - 1) : SizeOf(d) = 0

\* While the processor is routing a message the take it read is still the open
\* one and its file still accepts lines: stop_take on another thread can never
\* close a take between the routing decision and the write (recorder.py:331-357).
WritesIntoOpenTake ==
    ppc \in {"observe", "write"} => ptake = take /\ takes[ptake].writerOpen

\* A take's file is an unbroken run of the arrival order, numbered q = 0, 1, ...:
\* whatever start_take and stop_take raced with, nothing is missing in the middle,
\* repeated or reordered, bundles included.
TakesAreUnbroken ==
    \A k \in TakeNumbers :
        LET file == takes[k].file
        IN  \A i \in 1..Len(file) :
                /\ file[i].q = i - 1
                /\ i > 1 => Successor(file[i - 1], file[i])

\* Whenever snapshot() can run, the number of messages it shows for each take is
\* the number of lines given to the take's writer, and the total it shows is
\* accounted for message by message: the comment at recorder.py:326-330, "Counted
\* outside it, a message could be included in the total and then find the take
\* already closed".  Nothing is said of the disk: the lines include those in the
\* writer's buffer (JsonlWriter), and a message outside every take has none.
SnapshotIsAccounted ==
    LockFree =>
        LET written[k \in 0..MaxTakes] ==
                IF k = 0 THEN 0 ELSE written[k - 1] + Len(takes[k].file)
        IN  /\ \A k \in TakeNumbers : takes[k].count = Len(takes[k].file)
            /\ total = Len(idle) + written[MaxTakes]

\* The metadata left behind for an ended take agrees with its file, even though
\* mark_last_take rewrites it without the lock while messages are being counted.
EndedMetaMatchesFile ==
    \A k \in TakeNumbers : Ended(k) =>
        takes[k].meta = [count |-> Len(takes[k].file), status |-> takes[k].status]

\* Every datagram the kernel discarded while the take could have recorded it is in
\* the take's socket_drops: the baseline is read before the take is armed and the
\* counter again after it is disarmed.  And no drop is reported by two takes: together they
\* report no more than the socket lost.
DropsInTakeAreReported ==
    /\ \A k \in TakeNumbers :
          Ended(k) /\ takes[k].drops.known => lostArmed[k] <= takes[k].drops.n
    /\ LET reported[k \in 0..MaxTakes] ==
               IF k = 0 THEN 0 ELSE reported[k - 1] + takes[k].drops.n
       IN  reported[MaxTakes] <= kdrops

\* Once end_take has run, nothing about the recording itself changes any more:
\* neither a late message nor mark_last_take touches file, counts, span or drops.
EndedTakesAreFinal ==
    [][\A k \in TakeNumbers : Ended(k) =>
          takes'[k] = [takes[k] EXCEPT !.bad = takes'[k].bad]]_vars

\* A datagram recvfrom returned is handled, in a take or outside, or the recorder
\* is being stopped.
Handled(i) == /\ i <= Len(received)
              /\ rheld # i /\ pheld # i
              /\ \A j \in 1..Len(queue) : queue[j] # i

ReceivedIsHandled ==
    \A i \in 1..MaxDatagrams : i <= Len(received) ~> Handled(i) \/ stop

\* stop() ends both threads, whatever is still queued.
StopEndsThreads == stop ~> cpc = "closed" /\ rpc = "done" /\ ppc = "done"

\* stop_take comes back: it gets the lock however busy the processor is.
StopTakeReturns == cpc = "disarm" ~> cpc \in {"idle", "closed"}

\* Claim of SPEC_V1.md 2.1, "A take file begins at take_start": refuted, since a
\* datagram is routed when it is processed and not by when it arrived.
TakesBeginAtTakeStart ==
    \A k \in TakeNumbers : \A i \in 1..Len(takes[k].file) :
        Stamp(takes[k].file[i]) >= takes[k].tStart

\* Claim of test_record.py: a message of the take's span that is no longer in
\* flight and not in the take's file shows in socket_drops ("messages went missing
\* with no drop recorded"): refuted, since stop_take does not wait for the queue.
MissingIsReported ==
    \A k \in TakeNumbers : Ended(k) =>
        \A i \in 1..Len(received) :
            /\ received[i].stamp \in takes[k].tStart..(takes[k].tEnd - 1)
            /\ SizeOf(i) > 0 /\ Handled(i)
            => \/ \E j \in 1..Len(takes[k].file) : takes[k].file[j].id = i
               \/ ~takes[k].drops.known
               \/ takes[k].drops.n > 0

=============================================================================

------------------------------- MODULE TakeLog -------------------------------
(***************************************************************************)
(* What a recording promises, without threads, locks or control points:    *)
(* datagrams are numbered as they arrive, their messages wait, and each is *)
(* delivered exactly once, the earliest first, to the take that is open at *)
(* that moment or, with none open, outside every take. A take is open once;*)
(* when it has ended its log no longer changes.                            *)
(***************************************************************************)
EXTENDS Naturals, Sequences

CONSTANTS
    MaxTakes,   \* bound: takes opened
    Sizes       \* messages a datagram may bring

VARIABLES
    arrived,    \* number of datagrams that have arrived
    pending,    \* messages that have arrived and are not delivered
    open,       \* the open take, 0 for none
    last,       \* number of takes opened so far
    ended,      \* takes that have ended
    log,        \* take number -> messages delivered to it
    outside     \* messages delivered while no take was open

vars == <<arrived, pending, open, last, ended, log, outside>>

Earlier(m, n) == m.id < n.id \/ (m.id = n.id /\ m.part < n.part)

Init ==
    /\ arrived = 0 /\ pending = {}
    /\ open = 0 /\ last = 0 /\ ended = {}
    /\ log = [k \in 1..MaxTakes |-> <<>>] /\ outside = <<>>

\* One datagram brings any number of messages.
Arrive ==
    /\ arrived' = arrived + 1
    /\ \E size \in Sizes :
          pending' = pending \cup {[id |-> arrived + 1, part |-> p] : p \in 1..size}
    /\ UNCHANGED <<open, last, ended, log, outside>>

Deliver ==
    /\ \E m \in pending :
          /\ \A n \in pending \ {m} : Earlier(m, n)
          /\ pending' = pending \ {m}
          /\ \/ /\ open = 0
                /\ outside' = Append(outside, m)
                /\ UNCHANGED log
             \/ /\ open # 0
                /\ log' = [log EXCEPT ![open] = Append(@, m)]
                /\ UNCHANGED outside
    /\ UNCHANGED <<arrived, open, last, ended>>

Open ==
    /\ open = 0 /\ last < MaxTakes
    /\ last' = last + 1 /\ open' = last + 1
    /\ UNCHANGED <<arrived, pending, ended, log, outside>>

Close ==
    /\ open # 0
    /\ open' = 0
    /\ UNCHANGED <<arrived, pending, last, ended, log, outside>>

\* A take ends some time after it was closed, and before the next one opens.
End ==
    /\ open = 0 /\ last # 0
    /\ ended' = ended \cup {last}
    /\ UNCHANGED <<arrived, pending, open, last, log, outside>>

Next == Arrive \/ Deliver \/ Open \/ Close \/ End

Spec == Init /\ [][Next]_vars
=============================================================================

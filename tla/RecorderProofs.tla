--------------------------- MODULE RecorderProofs ---------------------------
(***************************************************************************)
(* Proofs about Recorder, for every number of datagrams, takes and marks,  *)
(* every buffer size and every mix of datagrams.                           *)
(***************************************************************************)
EXTENDS RecorderRefinement, Inductions, SequenceTheorems, TLAPS

\* start_take has appended its take before it arms it: what ArmTake needs for
\* self._take to be the number of a take.
StartedBeforeArmed == cpc \in {"baseline", "arm"} => nextTake > 1

TypeInv == TypeOK /\ StartedBeforeArmed

\* The lock is held exactly while the processor is between acquiring it and the
\* end of the `with` block, and the take it read stays the open take meanwhile.
LockInv ==
    /\ lock = "processor" <=> ppc \in {"count", "idle", "observe", "write"}
    /\ ppc \in {"observe", "write"} => take # None /\ ptake = take
    /\ cpc = "new" => ppc = "off"

\* The open take is one whose writer is open; it is none while a take is being
\* opened or ended, and takes not yet started are untouched.
TakeInv ==
    /\ take # None => cpc \in {"idle", "disarm"} /\ takes[take].writerOpen /\ ~Ended(take)
    /\ cpc \in {"baseline", "arm"} =>
          /\ takes[nextTake - 1].writerOpen /\ ~Ended(nextTake - 1)
          /\ takes[nextTake - 1].count = 0
    /\ cpc \in {"drops", "end"} => ctake # None /\ ~Ended(ctake)
    /\ take < nextTake /\ ctake < nextTake
    /\ \A k \in TakeNumbers : k >= nextTake => takes[k].status = "unused"
    /\ \A k \in TakeNumbers : Ended(k) =>
          takes[k].meta = [count |-> takes[k].count, status |-> takes[k].status]

\* A take's count is the number of its lines, but for the one being written; the
\* counter of the open take is its count; lines are numbered from 0.
CountInv ==
    /\ \A k \in TakeNumbers :
          takes[k].count = Len(takes[k].file) + IF ppc = "write" /\ ptake = k THEN 1 ELSE 0
    /\ take # None => takeSeq = takes[take].count
    /\ \A k \in TakeNumbers : \A i \in 1..Len(takes[k].file) : takes[k].file[i].q = i - 1

Inv == TypeInv /\ LockInv /\ TakeInv /\ CountInv

-----------------------------------------------------------------------------

\* The helpers that build take records stay inside Take.
LEMMA TakeRecords ==
    /\ UnusedTake \in Take
    /\ \A t \in Nat : NewTake(t) \in Take
    /\ \A t \in Take : WithMeta(t) \in Take
<1>1. UnusedTake \in Take
  BY DEF UnusedTake, Take, Status, Meta, Drops
<1>2. \A t \in Nat : NewTake(t) \in Take
  BY <1>1 DEF NewTake, Take, Status
<1>3. \A t \in Take : WithMeta(t) \in Take
  BY DEF WithMeta, Take, Meta
<1> QED BY <1>1, <1>2, <1>3

\* The fields the processor advances.
LEMMA TakeFields ==
    ASSUME NEW t \in Take
    PROVE  t.count \in Nat /\ t.malformed \in Nat /\ t.file \in Seq(TakeRecord)
BY DEF Take

\* One field of one take at a time is what the actions change.
LEMMA TakeUpdates ==
    ASSUME NEW t \in Take
    PROVE  /\ \A n \in Nat : /\ [t EXCEPT !.count = n] \in Take
                            /\ [t EXCEPT !.malformed = n] \in Take
           /\ \A f \in Seq(TakeRecord) : [t EXCEPT !.file = f] \in Take
           /\ \A d \in Drops : [t EXCEPT !.drops = d] \in Take
           /\ [t EXCEPT !.bad = TRUE] \in Take
           /\ \A n \in Nat, st \in Status : EndedTake(t, n, st) \in Take
BY DEF Take, EndedTake

\* Before anything has happened every variable has its type.
LEMMA TypeInit == Init => TypeInv
<1> SUFFICES ASSUME Init PROVE TypeInv
  OBVIOUS
<1>1. NetType
  BY DEF Init, NetType, TakeNumbers
<1>2. ReceiverType
  BY DEF Init, ReceiverType, None
<1>3. ProcessorType
  BY DEF Init, ProcessorType, None
<1>4. CallerType
  <2>1. nextTake \in 1..(MaxTakes + 1)
    BY BoundsAssumption DEF Init
  <2>2. closing \in BOOLEAN /\ stop \in BOOLEAN
    BY DEF Init
  <2> QED BY <2>1, <2>2 DEF Init, CallerType, None
<1>5. StartedBeforeArmed
  BY DEF Init, StartedBeforeArmed
<1>6. takes \in [TakeNumbers -> Take]
  BY TakeRecords DEF Init
<1> QED BY <1>1, <1>2, <1>3, <1>4, <1>5, <1>6 DEF TypeInv, TypeOK

\* What the kernel and the receiver do keeps every variable in its type.
LEMMA TypeReceive == TypeInv /\ (KernelDeliver \/ ReceiveLoop) => TypeInv'
<1> SUFFICES ASSUME TypeInv, KernelDeliver \/ ReceiveLoop PROVE TypeInv'
  OBVIOUS
<1> USE DEF TypeInv, TypeOK
<1>1. CASE KernelDeliver
  <2>1. NetType'
    <3>1. CASE Len(kbuf) < KernelCap
      <4>1. PICK size \in Sizes : kbuf' = Append(kbuf, size)
        BY <1>1, <3>1 DEF KernelDeliver
      <4>2. kbuf' \in Seq(Sizes)
        BY <4>1, AppendProperties DEF NetType
      <4> QED BY <1>1, <3>1, <4>2 DEF KernelDeliver, NetType
    <3>2. CASE ~(Len(kbuf) < KernelCap)
      BY <1>1, <3>2 DEF KernelDeliver, NetType, CallerType, callerVars, None
    <3> QED BY <3>1, <3>2
  <2>2. ReceiverType' /\ ProcessorType' /\ CallerType' /\ StartedBeforeArmed'
        /\ (takes \in [TakeNumbers -> Take])'
    BY <1>1 DEF KernelDeliver, recvVars, procVars, callerVars, sharedVars,
         ReceiverType, ProcessorType, CallerType, StartedBeforeArmed
  <2> QED BY <2>1, <2>2
<1>2. CASE ReceiveLoop
  <2>1. ProcessorType' /\ CallerType' /\ StartedBeforeArmed'
        /\ (takes \in [TakeNumbers -> Take])'
    BY <1>2 DEF ReceiveLoop, procVars, callerVars, ProcessorType, CallerType,
         StartedBeforeArmed
  <2>2. NetType' /\ ReceiverType'
    <3> USE DEF NetType, ReceiverType
    <3>1. CASE TestStop
      BY <1>2, <3>1 DEF ReceiveLoop, TestStop
    <3>2. CASE RecvFrom
      BY <1>2, <3>2 DEF ReceiveLoop, RecvFrom, CallerType
    <3>3. CASE RecvNothing
      BY <1>2, <3>3 DEF ReceiveLoop, RecvNothing
    <3>4. CASE QueuePut
      BY <1>2, <3>4 DEF ReceiveLoop, QueuePut, None
    <3> QED BY <1>2, <3>1, <3>2, <3>3, <3>4 DEF ReceiveLoop
  <2> QED BY <2>1, <2>2
<1> QED BY <1>1, <1>2
\* Handling a datagram keeps every variable in its type.
LEMMA TypeProcess == TypeInv /\ ProcessLoop => TypeInv'
<1> SUFFICES ASSUME TypeInv, ProcessLoop PROVE TypeInv'
  OBVIOUS
<1> USE DEF TypeInv, TypeOK
<1>1. NetType' /\ CallerType' /\ StartedBeforeArmed'
  <2>1. UNCHANGED <<netVars, callerVars, lostArmed>> /\ takeSeq' \in Nat
    BY DEF ProcessLoop, CallerType, GetDatagram, GetEmpty, CountMalformed, TakeMalformed,
         AcquireLock, CountMessage, ObserveIdle, ObserveTake, WriteRecord
  <2> QED BY <2>1 DEF netVars, callerVars, NetType, CallerType, StartedBeforeArmed
<1>2. ReceiverType'
  <2>1. UNCHANGED recvVars
    BY DEF ProcessLoop
  <2>2. queue' \in Seq(Nat)
    <3>1. CASE GetDatagram
      BY <3>1, HeadTailProperties DEF GetDatagram, ReceiverType
    <3>2. CASE ~GetDatagram
      BY <3>2 DEF ProcessLoop, ReceiverType, GetEmpty, CountMalformed, TakeMalformed,
           AcquireLock, CountMessage, ObserveIdle, ObserveTake, WriteRecord
    <3> QED BY <3>1, <3>2
  <2> QED BY <2>1, <2>2 DEF recvVars, ReceiverType
<1>3. ProcessorType' /\ (takes \in [TakeNumbers -> Take])'
  <2> USE DEF ProcessorType
  <2>1. CASE GetDatagram
    BY <2>1 DEF GetDatagram, ReceiverType
  <2>2. CASE GetEmpty
    BY <2>2 DEF GetEmpty
  <2>3. CASE CountMalformed
    BY <2>3 DEF CountMalformed
  <2>4. CASE TakeMalformed
    <3>1. (takes \in [TakeNumbers -> Take])'
      <4>1. CASE take = None
        BY <2>4, <4>1 DEF TakeMalformed
      <4>2. CASE take # None
        <5>1. takes[take] \in Take
          BY <4>2 DEF CallerType
        <5>2. takes' = [takes EXCEPT ![take] =
                          [takes[take] EXCEPT !.malformed = takes[take].malformed + 1]]
          BY <2>4, <4>2 DEF TakeMalformed
        <5>3. takes[take].malformed + 1 \in Nat
          BY <5>1, TakeFields
        <5>4. [takes[take] EXCEPT !.malformed = takes[take].malformed + 1] \in Take
          BY <5>1, <5>3, TakeUpdates
        <5> QED BY <5>2, <5>4
      <4> QED BY <4>1, <4>2
    <3>2. ProcessorType'
      BY <2>4 DEF TakeMalformed, None
    <3> QED BY <3>1, <3>2
  <2>5. CASE AcquireLock
    BY <2>5 DEF AcquireLock
  <2>6. CASE CountMessage
    BY <2>6 DEF CountMessage, CallerType
  <2>7. CASE ObserveIdle
    BY <2>7 DEF ObserveIdle, ReleaseLock, Message, None
  <2>8. CASE ObserveTake
    <3>1. \A k \in TakeNumbers :
              [takes[k] EXCEPT !.count = takes[k].count + 1] \in Take
      <4> TAKE k \in TakeNumbers
      <4>1. takes[k] \in Take
        OBVIOUS
      <4>2. takes[k].count + 1 \in Nat
        BY <4>1, TakeFields
      <4> QED BY <4>1, <4>2, TakeUpdates
    <3>2. takes' = [takes EXCEPT ![ptake] =
                      [takes[ptake] EXCEPT !.count = takes[ptake].count + 1]]
      BY <2>8 DEF ObserveTake
    <3>3. (takes \in [TakeNumbers -> Take])'
      BY <3>1, <3>2
    <3> QED BY <2>8, <3>3 DEF ObserveTake
  <2>9. CASE WriteRecord
    <3> DEFINE r == [id |-> pheld, part |-> ppart, q |-> takeSeq - 1]
    <3>1. r \in TakeRecord
      BY DEF TakeRecord, CallerType
    <3>2. \A k \in TakeNumbers : [takes[k] EXCEPT !.file = Append(takes[k].file, r)] \in Take
      BY <3>1, TakeFields, TakeUpdates, AppendProperties
    <3>3. takes' = [takes EXCEPT ![ptake] =
                      [takes[ptake] EXCEPT !.file = Append(takes[ptake].file, r)]]
      BY <2>9 DEF WriteRecord
    <3>4. (takes \in [TakeNumbers -> Take])'
      BY <3>2, <3>3
    <3>5. ProcessorType'
      BY <2>9 DEF WriteRecord, ReleaseLock, None
    <3> QED BY <3>4, <3>5
  <2> QED BY <2>1, <2>2, <2>3, <2>4, <2>5, <2>6, <2>7, <2>8, <2>9 DEF ProcessLoop
<1> QED BY <1>1, <1>2, <1>3

\* What the caller does keeps every variable in its type.
LEMMA TypeCall == TypeInv /\ (CallerBegins \/ CallerContinues) => TypeInv'
<1> SUFFICES ASSUME TypeInv, CallerBegins \/ CallerContinues PROVE TypeInv'
  OBVIOUS
<1> USE DEF TypeInv, TypeOK, NetType, ReceiverType, ProcessorType, CallerType,
            StartedBeforeArmed
<1>1. UNCHANGED <<kbuf, kdrops, received, rheld, queue, pheld, ppart, ptake, lock, total,
                  idle, malformed, lostArmed>>
  BY DEF CallerBegins, CallerContinues, CallerFrame
<1>2. CASE Start
  BY <1>1, <1>2 DEF Start
<1>3. CASE StartTake
  <2>1. (takes \in [TakeNumbers -> Take])'
    <3>1. NewTake(clock + 1) \in Take
      BY TakeRecords
    <3> QED BY <1>3, <3>1 DEF StartTake
  <2> QED BY <1>1, <1>3, <2>1, BoundsAssumption DEF StartTake
<1>4. CASE ReadBaseline
  BY <1>1, <1>4 DEF ReadBaseline, SocketDrops
<1>5. CASE ArmTake
  BY <1>1, <1>5, BoundsAssumption DEF ArmTake, TakeNumbers
<1>6. CASE StopTake
  BY <1>1, <1>6 DEF StopTake
<1>7. CASE DisarmTake
  BY <1>1, <1>7 DEF DisarmTake
<1>8. CASE ReadDrops
  <2>1. [known |-> SocketDrops.known, n |-> SocketDrops.n - dropsBase] \in Drops
    BY PlatformAssumption DEF SocketDrops, Drops
  <2>2. (takes \in [TakeNumbers -> Take])'
    BY <1>8, <2>1, TakeUpdates DEF ReadDrops
  <2> QED BY <1>1, <1>8, <2>2 DEF ReadDrops
<1>9. CASE EndTake
  <2>1. EndStatus \in Status /\ clock + 1 \in Nat
    BY DEF EndStatus, Status
  <2>2. \A k \in TakeNumbers : WithMeta(EndedTake(takes[k], clock + 1, EndStatus)) \in Take
    BY <2>1, TakeUpdates, TakeRecords
  <2>3. takes' = [takes EXCEPT ![ctake] =
                    WithMeta(EndedTake(takes[ctake], clock + 1, EndStatus))]
    BY <1>9 DEF EndTake
  <2>4. (takes \in [TakeNumbers -> Take])'
    BY <2>2, <2>3
  <2> QED BY <1>1, <1>9, <2>4 DEF EndTake
<1>10. CASE MarkLastTake
  <2> DEFINE marked(t) == [t EXCEPT !.bad = TRUE]
  <2>1. \A k \in TakeNumbers : WithMeta(marked(takes[k])) \in Take
    BY TakeUpdates, TakeRecords
  <2>6. takes' = [takes EXCEPT ![LastTake] = WithMeta(marked(takes[LastTake]))]
    BY <1>10 DEF MarkLastTake
  <2>2. /\ nextTake > 1 /\ marks' = marks + 1
        /\ UNCHANGED <<sock, rpc, ppc, take, takeSeq, cpc, ctake, closing, dropsBase,
                       nextTake, clock, stop>>
    BY <1>10 DEF MarkLastTake
  <2>3. LastTake \in TakeNumbers
    BY <2>2, BoundsAssumption DEF LastTake, TakeNumbers, None
  <2>4. WithMeta(marked(takes[LastTake])) \in Take
    BY <2>1, <2>3
  <2> HIDE DEF marked
  <2>5. (takes \in [TakeNumbers -> Take])'
    BY <2>4, <2>6
  <2> QED BY <1>1, <2>2, <2>5
<1>11. CASE Stop
  BY <1>1, <1>11 DEF Stop
<1>12. CASE FinishStop
  <2>1. CASE cpc = "setStop"
    BY <1>1, <1>12, <2>1 DEF FinishStop
  <2>2. CASE cpc = "join"
    BY <1>1, <1>12, <2>2 DEF FinishStop
  <2> QED BY <1>12, <2>1, <2>2 DEF FinishStop
<1> QED BY <1>2, <1>3, <1>4, <1>5, <1>6, <1>7, <1>8, <1>9, <1>10, <1>11, <1>12
        DEF CallerBegins, CallerContinues

\* TypeInv is kept by every step.
LEMMA TypeStep == TypeInv /\ [Next]_vars => TypeInv'
<1> SUFFICES ASSUME TypeInv, [Next]_vars PROVE TypeInv'
  OBVIOUS
<1>1. CASE UNCHANGED vars
  BY <1>1 DEF vars, netVars, recvVars, procVars, callerVars, sharedVars, TypeInv, TypeOK,
       NetType, ReceiverType, ProcessorType, CallerType, StartedBeforeArmed
<1> QED BY <1>1, TypeReceive, TypeProcess, TypeCall DEF Next, Terminated

\* TypeOK, for every behaviour of the recorder.
THEOREM TypeCorrect == Spec => []TypeOK
<1>1. TypeInv => TypeOK
  BY DEF TypeInv
<1> QED BY TypeInit, TypeStep, <1>1, PTL DEF Spec

-----------------------------------------------------------------------------
(* The lock *)

\* LockInv is kept: only a processor outside its critical section lets the caller
\* change self._take.
LEMMA LockStep == TypeInv /\ LockInv /\ TakeInv /\ [Next]_vars => LockInv'
<1> SUFFICES ASSUME TypeInv, LockInv, TakeInv, [Next]_vars PROVE LockInv'
  OBVIOUS
<1> USE DEF LockInv
<1>1. CASE KernelDeliver \/ UNCHANGED vars \/ Terminated
  BY <1>1 DEF KernelDeliver, Terminated, vars, procVars, callerVars
<1>2. CASE ReceiveLoop
  BY <1>2 DEF ReceiveLoop, procVars, callerVars
<1>3. CASE ProcessLoop
  <2>1. UNCHANGED <<take, cpc>> /\ ppc # "off"
    BY <1>3 DEF ProcessLoop, callerVars, GetDatagram, GetEmpty, CountMalformed,
         TakeMalformed, AcquireLock, CountMessage, ObserveIdle, ObserveTake, WriteRecord
  <2>2. CASE GetDatagram \/ GetEmpty \/ CountMalformed \/ TakeMalformed
    BY <2>1, <2>2 DEF GetDatagram, GetEmpty, CountMalformed, TakeMalformed
  <2>3. CASE AcquireLock \/ CountMessage
    BY <2>1, <2>3 DEF AcquireLock, CountMessage
  <2>4. CASE ObserveIdle \/ ObserveTake \/ WriteRecord
    BY <2>1, <2>4 DEF ObserveIdle, ObserveTake, WriteRecord, ReleaseLock
  <2> QED BY <1>3, <2>2, <2>3, <2>4 DEF ProcessLoop
<1>4. CASE CallerBegins \/ CallerContinues
  <2>1. UNCHANGED <<ptake, lock>>
    BY <1>4 DEF CallerBegins, CallerContinues, CallerFrame
  <2>2. CASE Start
    BY <2>1, <2>2 DEF Start
  <2>3. CASE StartTake \/ StopTake \/ MarkLastTake \/ Stop \/ ReadBaseline \/ ReadDrops
             \/ EndTake \/ FinishStop
    BY <2>1, <2>3 DEF StartTake, StopTake, MarkLastTake, Stop, ReadBaseline, ReadDrops,
         EndTake, FinishStop
  <2>4. CASE ArmTake \/ DisarmTake
    BY <2>1, <2>4 DEF ArmTake, DisarmTake, LockFree
  <2> QED BY <1>4, <2>2, <2>3, <2>4 DEF CallerBegins, CallerContinues
<1> QED BY <1>1, <1>2, <1>3, <1>4 DEF Next

-----------------------------------------------------------------------------
(* The takes *)

\* What each kind of change to a take leaves alone.
LEMMA TakeKept ==
    ASSUME NEW t \in Take
    PROVE  /\ \A n : LET u == [t EXCEPT !.malformed = n]
                     IN  /\ u.status = t.status /\ u.writerOpen = t.writerOpen
                         /\ u.count = t.count /\ u.file = t.file /\ u.meta = t.meta
           /\ \A n : LET u == [t EXCEPT !.count = n]
                     IN  /\ u.status = t.status /\ u.writerOpen = t.writerOpen
                         /\ u.count = n /\ u.file = t.file /\ u.meta = t.meta
           /\ \A n : LET u == [t EXCEPT !.file = n]
                     IN  /\ u.status = t.status /\ u.writerOpen = t.writerOpen
                         /\ u.count = t.count /\ u.file = n /\ u.meta = t.meta
           /\ \A n : LET u == [t EXCEPT !.drops = n]
                     IN  /\ u.status = t.status /\ u.writerOpen = t.writerOpen
                         /\ u.count = t.count /\ u.file = t.file /\ u.meta = t.meta
BY DEF Take

\* The same for the two changes that rewrite the metadata.
LEMMA MetaRewritten ==
    ASSUME NEW t \in Take, NEW u
    PROVE  /\ u = WithMeta([t EXCEPT !.bad = TRUE]) =>
                /\ u.status = t.status /\ u.writerOpen = t.writerOpen
                /\ u.count = t.count /\ u.file = t.file
                /\ u.meta = [count |-> u.count, status |-> u.status]
           /\ \A n, st :
                u = WithMeta(EndedTake(t, n, st)) =>
                /\ u.status = st /\ u.count = t.count /\ u.file = t.file
                /\ u.meta = [count |-> u.count, status |-> u.status]
BY DEF Take, WithMeta, EndedTake

\* A take that starts.
LEMMA TakeStarts ==
    ASSUME NEW n
    PROVE  LET u == NewTake(n)
           IN  /\ u.status = "recording" /\ u.writerOpen /\ u.count = 0 /\ u.file = <<>>
BY DEF NewTake, UnusedTake

\* The processor may change the open take, as long as it leaves its status and
\* its writer alone.
LEMMA OpenTakeChanges ==
    ASSUME TypeInv, TakeInv, take # None, NEW u,
           takes' = [takes EXCEPT ![take] = u],
           u.status = takes[take].status, u.writerOpen = takes[take].writerOpen,
           UNCHANGED <<take, cpc, ctake, nextTake>>
    PROVE  TakeInv'
<1>1. take \in TakeNumbers
  BY DEF TypeInv, TypeOK, CallerType
<1>2. /\ takes'[take] = u
      /\ \A k : k \in TakeNumbers /\ k # take => takes'[k] = takes[k]
  BY <1>1 DEF TypeInv, TypeOK
<1>3. cpc \notin {"baseline", "arm"} /\ ~Ended(take)
  BY DEF TakeInv
<1>4. \A k \in TakeNumbers : Ended(k)' <=> Ended(k)
  BY <1>2 DEF Ended
<1>5. ctake \in TakeNumbers \cup {None}
  BY DEF TypeInv, TypeOK, CallerType
<1> QED BY <1>1, <1>2, <1>3, <1>4, <1>5 DEF TakeInv

\* TakeInv is kept by the processor, because it only changes the open take.
LEMMA TakeProcess == TypeInv /\ LockInv /\ TakeInv /\ ProcessLoop => TakeInv'
<1> SUFFICES ASSUME TypeInv, LockInv, TakeInv, ProcessLoop PROVE TakeInv'
  OBVIOUS
<1>1. UNCHANGED <<take, cpc, ctake, nextTake>>
  BY DEF ProcessLoop, callerVars
<1>2. CASE UNCHANGED takes
  BY <1>1, <1>2 DEF TakeInv, Ended
<1>3. \A k \in TakeNumbers : takes[k] \in Take
  BY DEF TypeInv, TypeOK
<1>4. take \in TakeNumbers \cup {None}
  BY DEF TypeInv, TypeOK, CallerType
<1>5. CASE TakeMalformed /\ take # None
  <2>1. takes' = [takes EXCEPT ![take] =
                    [takes[take] EXCEPT !.malformed = takes[take].malformed + 1]]
    BY <1>5 DEF TakeMalformed
  <2> QED BY <1>1, <1>3, <1>4, <1>5, <2>1, TakeKept, OpenTakeChanges
<1>6. CASE ObserveTake
  <2>1. take # None /\ ptake = take
    BY <1>6 DEF ObserveTake, LockInv
  <2>2. takes' = [takes EXCEPT ![take] =
                    [takes[take] EXCEPT !.count = takes[take].count + 1]]
    BY <1>6, <2>1 DEF ObserveTake
  <2> QED BY <1>1, <1>3, <1>4, <2>1, <2>2, TakeKept, OpenTakeChanges
<1>7. CASE WriteRecord
  <2>1. take # None /\ ptake = take
    BY <1>7 DEF WriteRecord, LockInv
  <2> DEFINE r == [id |-> pheld, part |-> ppart, q |-> takeSeq - 1]
  <2>2. takes' = [takes EXCEPT ![take] =
                    [takes[take] EXCEPT !.file = Append(takes[take].file, r)]]
    BY <1>7, <2>1 DEF WriteRecord
  <2> QED BY <1>1, <1>3, <1>4, <2>1, <2>2, TakeKept, OpenTakeChanges
<1>8. CASE ~(TakeMalformed /\ take # None) /\ ~ObserveTake /\ ~WriteRecord
  <2>1. UNCHANGED takes
    BY <1>8 DEF ProcessLoop, GetDatagram, GetEmpty, CountMalformed, TakeMalformed,
         AcquireLock, CountMessage, ObserveIdle
  <2> QED BY <1>2, <2>1
<1> QED BY <1>5, <1>6, <1>7, <1>8

\* TakeInv is kept by the caller: it opens a take that is new and ends the one it
\* has closed.
LEMMA TakeCall == TypeInv /\ LockInv /\ TakeInv /\ (CallerBegins \/ CallerContinues) => TakeInv'
<1> SUFFICES ASSUME TypeInv, LockInv, TakeInv, CallerBegins \/ CallerContinues
             PROVE TakeInv'
  OBVIOUS
<1>1. \A k \in TakeNumbers : takes[k] \in Take
  BY DEF TypeInv, TypeOK
<1>2. /\ take \in TakeNumbers \cup {None} /\ ctake \in TakeNumbers \cup {None}
      /\ nextTake \in 1..(MaxTakes + 1)
      /\ cpc \in {"baseline", "arm"} => nextTake - 1 \in TakeNumbers
  BY BoundsAssumption DEF TypeInv, TypeOK, CallerType, StartedBeforeArmed, TakeNumbers
<1>3. CASE StartTake
  <2>1. nextTake \in TakeNumbers /\ takes' = [takes EXCEPT ![nextTake] = NewTake(clock + 1)]
    BY <1>2, <1>3, BoundsAssumption DEF StartTake, TakeNumbers
  <2>2. /\ takes'[nextTake] = NewTake(clock + 1)
        /\ \A k \in TakeNumbers : k # nextTake => takes'[k] = takes[k]
    BY <2>1 DEF TypeInv, TypeOK
  <2>3. \A k \in TakeNumbers : IF k = nextTake THEN ~Ended(k)' ELSE Ended(k)' <=> Ended(k)
    BY <2>2, TakeStarts DEF Ended
  <2>4. take' = None /\ cpc' = "baseline" /\ nextTake' = nextTake + 1 /\ ctake' = ctake
    BY <1>3 DEF StartTake
  <2>5. takes'[nextTake].writerOpen /\ takes'[nextTake].count = 0
    BY <2>2, TakeStarts
  <2> QED BY <1>2, <2>1, <2>2, <2>3, <2>4, <2>5 DEF TakeInv, TakeNumbers, None
<1>4. CASE ReadDrops
  <2>1. ctake \in TakeNumbers /\ take = None
    BY <1>2, <1>4 DEF ReadDrops, TakeInv
  <2> DEFINE d == [known |-> SocketDrops.known, n |-> SocketDrops.n - dropsBase]
  <2>2. takes' = [takes EXCEPT ![ctake] = [takes[ctake] EXCEPT !.drops = d]]
    BY <1>4 DEF ReadDrops
  <2> HIDE DEF d
  <2>3. \A k \in TakeNumbers : /\ takes'[k].status = takes[k].status
                               /\ takes'[k].count = takes[k].count
                               /\ takes'[k].meta = takes[k].meta
    BY <1>1, <2>1, <2>2, TakeKept
  <2>4. \A k \in TakeNumbers : Ended(k)' <=> Ended(k)
    BY <2>3 DEF Ended
  <2> QED BY <1>4, <2>1, <2>3, <2>4 DEF ReadDrops, TakeInv
<1>5. CASE EndTake
  <2>1. ctake \in TakeNumbers /\ take = None
    BY <1>2, <1>5 DEF EndTake, TakeInv
  <2> DEFINE u == WithMeta(EndedTake(takes[ctake], clock + 1, EndStatus))
  <2>2. takes' = [takes EXCEPT ![ctake] = u]
    BY <1>5 DEF EndTake
  <2>3. u.meta = [count |-> u.count, status |-> u.status]
    BY <1>1, <2>1, MetaRewritten
  <2> HIDE DEF u
  <2>4. /\ takes'[ctake] = u
        /\ \A k \in TakeNumbers : k # ctake => takes'[k] = takes[k]
    BY <2>1, <2>2 DEF TypeInv, TypeOK
  <2>5. \A k \in TakeNumbers : k # ctake => (Ended(k)' <=> Ended(k))
    BY <2>4 DEF Ended
  <2>6. /\ take' = None /\ ctake' = None /\ nextTake' = nextTake
        /\ cpc' \in {"setStop", "idle"} /\ ctake < nextTake
    BY <1>5, <2>1 DEF EndTake, TakeInv
  <2>7. \A k \in TakeNumbers : Ended(k)' =>
            takes'[k].meta = [count |-> takes'[k].count, status |-> takes'[k].status]
    BY <2>3, <2>4, <2>5 DEF TakeInv
  <2> QED BY <1>2, <2>1, <2>4, <2>6, <2>7 DEF TakeInv, TakeNumbers, None
<1>6. CASE MarkLastTake
  <2>1. LastTake \in TakeNumbers /\ nextTake > 1
    BY <1>2, <1>6, BoundsAssumption DEF MarkLastTake, LastTake, TakeNumbers, None
  <2> DEFINE u == WithMeta([takes[LastTake] EXCEPT !.bad = TRUE])
  <2>2. takes' = [takes EXCEPT ![LastTake] = u]
    BY <1>6 DEF MarkLastTake
  <2>3. /\ u.status = takes[LastTake].status /\ u.writerOpen = takes[LastTake].writerOpen
        /\ u.meta = [count |-> u.count, status |-> u.status]
    BY <1>1, <2>1, MetaRewritten
  <2> HIDE DEF u
  <2>4. /\ takes'[LastTake] = u
        /\ \A k \in TakeNumbers : k # LastTake => takes'[k] = takes[k]
    BY <2>1, <2>2 DEF TypeInv, TypeOK
  <2>5. \A k \in TakeNumbers : Ended(k)' <=> Ended(k)
    BY <2>3, <2>4 DEF Ended
  <2>6. cpc = "idle" /\ UNCHANGED <<take, cpc, ctake, nextTake>>
    BY <1>6 DEF MarkLastTake
  <2> QED BY <1>2, <2>3, <2>4, <2>5, <2>6 DEF TakeInv
<1>7. CASE ArmTake
  <2>1. \A k \in TakeNumbers : Ended(k)' <=> Ended(k)
    BY <1>7 DEF ArmTake, Ended
  <2> QED BY <1>2, <1>7, <2>1 DEF ArmTake, TakeInv, Ended, None, TakeNumbers
<1>8. CASE DisarmTake
  <2>1. \A k \in TakeNumbers : Ended(k)' <=> Ended(k)
    BY <1>8 DEF DisarmTake, Ended
  <2> QED BY <1>2, <1>8, <2>1 DEF DisarmTake, TakeInv, Ended, None, TakeNumbers
<1>9. CASE Start \/ StopTake \/ Stop \/ ReadBaseline \/ FinishStop
  BY <1>9 DEF Start, StopTake, Stop, ReadBaseline, FinishStop, TakeInv, Ended
<1> QED BY <1>3, <1>4, <1>5, <1>6, <1>7, <1>8, <1>9 DEF CallerBegins, CallerContinues

\* TakeInv is kept by every step.
LEMMA TakeStep == TypeInv /\ LockInv /\ TakeInv /\ [Next]_vars => TakeInv'
<1> SUFFICES ASSUME TypeInv, LockInv, TakeInv, [Next]_vars PROVE TakeInv'
  OBVIOUS
<1>1. CASE KernelDeliver \/ ReceiveLoop \/ Terminated \/ UNCHANGED vars
  <2>1. UNCHANGED <<takes, take, cpc, ctake, nextTake>>
    BY <1>1 DEF KernelDeliver, ReceiveLoop, Terminated, vars, callerVars, sharedVars
  <2> QED BY <2>1 DEF TakeInv, Ended
<1> QED BY <1>1, TakeProcess, TakeCall DEF Next

\* Before anything has happened no take is open and none has been used.
LEMMA TakeInit == Init => LockInv /\ TakeInv
<1> SUFFICES ASSUME Init PROVE LockInv /\ TakeInv
  OBVIOUS
<1>1. LockInv
  BY DEF Init, LockInv
<1>2. \A k \in TakeNumbers : takes[k].status = "unused"
  BY DEF Init, UnusedTake
<1>3. TakeInv
  BY <1>2 DEF Init, TakeInv, Ended, None
<1> QED BY <1>1, <1>3

\* The take a message is routed to is the open one, and its writer is open: no
\* order of stop_take and _handle writes into a closed take.
THEOREM WriteSafe == Spec => []WritesIntoOpenTake
<1>1. LockInv /\ TakeInv => WritesIntoOpenTake
  BY DEF LockInv, TakeInv, WritesIntoOpenTake
<1> QED BY TypeInit, TakeInit, TypeStep, LockStep, TakeStep, <1>1, PTL DEF Spec

-----------------------------------------------------------------------------
(* Ended takes *)

\* A step changes one take at most: the open one, the one being ended, the one
\* being started, or the mark of the last.
LEMMA OneTakeChanges ==
    ASSUME TypeInv, LockInv, TakeInv, [Next]_vars,
           NEW k \in TakeNumbers, Ended(k)
    PROVE  takes'[k] = takes[k] \/ (MarkLastTake /\ k = LastTake)
<1>1. takes \in [TakeNumbers -> Take]
  BY DEF TypeInv, TypeOK
<1>2. take # k /\ (cpc \in {"drops", "end"} => ctake # k) /\ k # nextTake
  <2>1. k = nextTake => takes[k].status = "unused"
    BY DEF TakeInv, TypeInv, TypeOK, CallerType, TakeNumbers
  <2>2. takes[k].status # "unused"
    BY DEF Ended
  <2>3. take = k => take # None
    BY DEF TakeNumbers, None
  <2> QED BY <2>1, <2>2, <2>3 DEF TakeInv
<1>3. CASE KernelDeliver \/ ReceiveLoop \/ Terminated \/ UNCHANGED vars
  BY <1>3 DEF KernelDeliver, ReceiveLoop, Terminated, vars, sharedVars
<1>4. CASE ProcessLoop
  <2>1. CASE TakeMalformed
    BY <1>1, <1>2, <2>1 DEF TakeMalformed
  <2>2. CASE ObserveTake
    BY <1>1, <1>2, <2>2 DEF ObserveTake, LockInv
  <2>3. CASE WriteRecord
    BY <1>1, <1>2, <2>3 DEF WriteRecord, LockInv
  <2>4. CASE ~TakeMalformed /\ ~ObserveTake /\ ~WriteRecord
    BY <1>4, <2>4 DEF ProcessLoop, GetDatagram, GetEmpty, CountMalformed, AcquireLock,
         CountMessage, ObserveIdle
  <2> QED BY <2>1, <2>2, <2>3, <2>4
<1>5. CASE CallerBegins \/ CallerContinues
  <2>1. CASE StartTake
    BY <1>1, <1>2, <2>1 DEF StartTake
  <2>2. CASE ReadDrops
    BY <1>1, <1>2, <2>2 DEF ReadDrops
  <2>3. CASE EndTake
    BY <1>1, <1>2, <2>3 DEF EndTake
  <2>4. CASE MarkLastTake
    BY <1>1, <2>4 DEF MarkLastTake
  <2>5. CASE ~StartTake /\ ~ReadDrops /\ ~EndTake /\ ~MarkLastTake
    BY <1>5, <2>5 DEF CallerBegins, CallerContinues, Start, StopTake, Stop, ReadBaseline,
         ArmTake, DisarmTake, FinishStop
  <2> QED BY <2>1, <2>2, <2>3, <2>4, <2>5
<1> QED BY <1>3, <1>4, <1>5 DEF Next

\* Marking an ended take rewrites its metadata as they are.
LEMMA MarkKeepsEnded ==
    ASSUME NEW t \in Take, t.meta = [count |-> t.count, status |-> t.status]
    PROVE  WithMeta([t EXCEPT !.bad = TRUE]) = [t EXCEPT !.bad = TRUE]
BY DEF Take, WithMeta

\* After end_take a take never changes again, but for its mark.
THEOREM EndedFinal == Spec => EndedTakesAreFinal
<1> DEFINE I == TypeInv /\ LockInv /\ TakeInv
           Final == \A k \in TakeNumbers : Ended(k) =>
                        takes'[k] = [takes[k] EXCEPT !.bad = takes'[k].bad]
<1>1. I /\ [Next]_vars => Final
  <2> SUFFICES ASSUME I, [Next]_vars, NEW k \in TakeNumbers, Ended(k)
               PROVE  takes'[k] = [takes[k] EXCEPT !.bad = takes'[k].bad]
    OBVIOUS
  <2>1. takes \in [TakeNumbers -> Take] /\ takes[k] \in Take
    BY DEF TypeInv, TypeOK
  <2>2. CASE takes'[k] = takes[k]
    BY <2>1, <2>2 DEF Take
  <2>3. CASE MarkLastTake /\ k = LastTake
    <3>1. takes'[k] = WithMeta([takes[k] EXCEPT !.bad = TRUE])
      BY <2>1, <2>3 DEF MarkLastTake
    <3>2. takes'[k] = [takes[k] EXCEPT !.bad = TRUE]
      BY <2>1, <3>1, MarkKeepsEnded DEF TakeInv
    <3> QED BY <2>1, <3>2 DEF Take
  <2> QED BY <2>2, <2>3, OneTakeChanges
<1> QED BY TypeInit, TakeInit, TypeStep, LockStep, TakeStep, <1>1, PTL
        DEF Spec, EndedTakesAreFinal

-----------------------------------------------------------------------------
(* Counts and lines *)

Numbered(file) == \A i \in 1..Len(file) : file[i].q = i - 1

\* One more line, numbered by the length so far, keeps a file numbered.
LEMMA AppendNumbered ==
    ASSUME NEW file \in Seq(TakeRecord), NEW r \in TakeRecord,
           Numbered(file), r.q = Len(file)
    PROVE  Numbered(Append(file, r)) /\ Len(Append(file, r)) = Len(file) + 1
<1>1. /\ Len(Append(file, r)) = Len(file) + 1
      /\ \A i \in 1..Len(file) : Append(file, r)[i] = file[i]
      /\ Append(file, r)[Len(file) + 1] = r
  BY AppendProperties
<1>2. Len(file) \in Nat
  OBVIOUS
<1> QED BY <1>1, <1>2 DEF Numbered

\* CountInv is kept by the processor: a message is counted and then written, and
\* nothing comes between.
LEMMA CountProcess == TypeInv /\ LockInv /\ TakeInv /\ CountInv /\ ProcessLoop => CountInv'
<1> SUFFICES ASSUME TypeInv, LockInv, TakeInv, CountInv, ProcessLoop PROVE CountInv'
  OBVIOUS
<1>1. UNCHANGED take
  BY DEF ProcessLoop, callerVars
<1>2. /\ takes \in [TakeNumbers -> Take] /\ take \in TakeNumbers \cup {None}
      /\ takeSeq \in Nat /\ pheld \in Nat /\ ppart \in Nat
  BY DEF TypeInv, TypeOK, CallerType, ProcessorType
<1>3. CASE TakeMalformed
  <2>1. takeSeq' = takeSeq /\ ppc # "write" /\ ppc' # "write"
    BY <1>3 DEF TakeMalformed
  <2>2. \A k \in TakeNumbers : takes'[k].count = takes[k].count /\ takes'[k].file = takes[k].file
    <3>1. CASE take = None
      BY <1>3, <3>1 DEF TakeMalformed
    <3>2. CASE take # None
      <4>1. takes' = [takes EXCEPT ![take] =
                        [takes[take] EXCEPT !.malformed = takes[take].malformed + 1]]
        BY <1>3, <3>2 DEF TakeMalformed
      <4> QED BY <1>2, <3>2, <4>1, TakeKept
    <3> QED BY <3>1, <3>2
  <2> QED BY <1>1, <1>2, <2>1, <2>2 DEF CountInv
<1>4. CASE ObserveTake
  <2>1. take \in TakeNumbers /\ ptake = take /\ ptake' = ptake
    BY <1>2, <1>4 DEF ObserveTake, LockInv
  <2>2. takes' = [takes EXCEPT ![take] =
                    [takes[take] EXCEPT !.count = takes[take].count + 1]]
    BY <1>4, <2>1 DEF ObserveTake
  <2>3. \A k \in TakeNumbers :
            /\ takes'[k].file = takes[k].file
            /\ takes'[k].count = takes[k].count + IF k = take THEN 1 ELSE 0
    BY <1>2, <2>1, <2>2, TakeKept, TakeFields
  <2>4. takeSeq' = takeSeq + 1 /\ ppc = "observe" /\ ppc' = "write"
    BY <1>4 DEF ObserveTake
  <2>5. \A k \in TakeNumbers : takes[k].count = Len(takes[k].file) /\ takes[k].count \in Nat
    BY <1>2, <2>4, TakeFields DEF CountInv
  <2> QED BY <1>1, <2>1, <2>3, <2>4, <2>5 DEF CountInv
<1>5. CASE WriteRecord
  <2>1. take \in TakeNumbers /\ ptake = take
    BY <1>2, <1>5 DEF WriteRecord, LockInv
  <2> DEFINE r == [id |-> pheld, part |-> ppart, q |-> takeSeq - 1]
  <2>2. takes' = [takes EXCEPT ![take] =
                    [takes[take] EXCEPT !.file = Append(takes[take].file, r)]]
    BY <1>5, <2>1 DEF WriteRecord
  <2>3. r \in TakeRecord /\ r.q = takeSeq - 1
    BY <1>2 DEF TakeRecord
  <2>4. ppc = "write" /\ ppc' # "write" /\ takeSeq' = takeSeq
    BY <1>5 DEF WriteRecord, ReleaseLock
  <2>5. /\ takes[take].file \in Seq(TakeRecord) /\ Len(takes[take].file) \in Nat
        /\ Numbered(takes[take].file)
        /\ takeSeq = takes[take].count /\ takes[take].count = Len(takes[take].file) + 1
    <3>1. takes[take].file \in Seq(TakeRecord) /\ Len(takes[take].file) \in Nat
      BY <1>2, <2>1, TakeFields
    <3>2. Numbered(takes[take].file)
      BY <2>1 DEF CountInv, Numbered
    <3>3. take # None
      BY <2>1 DEF TakeNumbers, None
    <3> QED BY <2>1, <2>4, <3>1, <3>2, <3>3 DEF CountInv
  <2> HIDE DEF r
  <2>6. /\ Numbered(Append(takes[take].file, r))
        /\ Len(Append(takes[take].file, r)) = Len(takes[take].file) + 1
    BY <2>3, <2>5, AppendNumbered
  <2>7. /\ takes'[take].file = Append(takes[take].file, r)
        /\ takes'[take].count = takes[take].count
        /\ \A k \in TakeNumbers : k # take => takes'[k] = takes[k]
    BY <1>2, <2>1, <2>2, TakeKept
  <2>8. \A k \in TakeNumbers : takes'[k].count = Len(takes'[k].file)
    <3> TAKE k \in TakeNumbers
    <3>1. CASE k = take
      BY <2>5, <2>6, <2>7, <3>1
    <3>2. CASE k # take
      <4>1. takes[k].count = Len(takes[k].file) + 0
        BY <2>1, <3>2 DEF CountInv
      <4>2. Len(takes[k].file) \in Nat
        BY <1>2, TakeFields
      <4> QED BY <2>7, <3>2, <4>1, <4>2
    <3> QED BY <3>1, <3>2
  <2>9. \A k \in TakeNumbers : Numbered(takes'[k].file)
    BY <2>6, <2>7 DEF CountInv, Numbered
  <2> QED BY <1>1, <2>1, <2>4, <2>5, <2>7, <2>8, <2>9 DEF CountInv, Numbered
<1>6. CASE ~TakeMalformed /\ ~ObserveTake /\ ~WriteRecord
  <2>1. UNCHANGED <<takes, takeSeq>> /\ ppc # "write" /\ ppc' # "write"
    BY <1>6 DEF ProcessLoop, GetDatagram, GetEmpty, CountMalformed, AcquireLock,
         CountMessage, ObserveIdle, ReleaseLock
  <2> QED BY <1>1, <2>1 DEF CountInv
<1> QED BY <1>3, <1>4, <1>5, <1>6

\* Only counts and files of takes matter to CountInv.
LEMMA CountKept ==
    ASSUME TypeInv, CountInv, UNCHANGED <<take, takeSeq, ppc, ptake>>,
           \A k \in TakeNumbers : takes'[k].count = takes[k].count /\ takes'[k].file = takes[k].file
    PROVE  CountInv'
<1>1. take \in TakeNumbers \cup {None}
  BY DEF TypeInv, TypeOK, CallerType
<1>2. take' # None => takeSeq' = takes'[take'].count
  BY <1>1 DEF CountInv
<1>3. \A k \in TakeNumbers : takes'[k].count =
          Len(takes'[k].file) + IF ppc' = "write" /\ ptake' = k THEN 1 ELSE 0
  BY DEF CountInv
<1>4. \A k \in TakeNumbers : \A i \in 1..Len(takes'[k].file) : takes'[k].file[i].q = i - 1
  BY DEF CountInv
<1> QED BY <1>2, <1>3, <1>4 DEF CountInv

\* CountInv is kept by the caller: what it changes of a take is neither its count
\* nor its file, and a new take starts with both empty.
LEMMA CountCall ==
    TypeInv /\ LockInv /\ TakeInv /\ CountInv /\ (CallerBegins \/ CallerContinues) => CountInv'
<1> SUFFICES ASSUME TypeInv, LockInv, TakeInv, CountInv, CallerBegins \/ CallerContinues
             PROVE CountInv'
  OBVIOUS
<1>1. /\ takes \in [TakeNumbers -> Take] /\ take \in TakeNumbers \cup {None}
      /\ ctake \in TakeNumbers \cup {None} /\ nextTake \in 1..(MaxTakes + 1)
      /\ ptake' = ptake
  BY DEF TypeInv, TypeOK, CallerType, CallerBegins, CallerContinues, CallerFrame
<1>2. CASE StartTake
  <2>1. /\ nextTake \in TakeNumbers /\ take = None /\ ppc # "write"
        /\ UNCHANGED <<take, takeSeq, ppc>>
    BY <1>1, <1>2, BoundsAssumption DEF StartTake, LockInv, TakeNumbers
  <2>2. /\ takes'[nextTake].count = 0 /\ takes'[nextTake].file = <<>>
        /\ \A k \in TakeNumbers : k # nextTake => takes'[k] = takes[k]
    BY <1>1, <1>2, <2>1, TakeStarts DEF StartTake
  <2> QED BY <2>1, <2>2 DEF CountInv
<1>3. CASE ArmTake
  <2>1. take' = nextTake - 1 /\ takeSeq' = 0 /\ UNCHANGED <<ppc, takes>>
    BY <1>3 DEF ArmTake
  <2>2. takes[nextTake - 1].count = 0
    BY <1>3 DEF ArmTake, TakeInv
  <2> QED BY <1>1, <2>1, <2>2 DEF CountInv
<1>4. CASE DisarmTake
  BY <1>1, <1>4 DEF DisarmTake, CountInv
<1>5. CASE ReadDrops
  <2> DEFINE d == [known |-> SocketDrops.known, n |-> SocketDrops.n - dropsBase]
  <2>1. takes' = [takes EXCEPT ![ctake] = [takes[ctake] EXCEPT !.drops = d]]
        /\ UNCHANGED <<take, takeSeq, ppc>>
    BY <1>5 DEF ReadDrops
  <2> HIDE DEF d
  <2>2. \A k \in TakeNumbers : takes'[k].count = takes[k].count /\ takes'[k].file = takes[k].file
    BY <1>1, <2>1, TakeKept
  <2> QED BY <1>1, <2>1, <2>2, CountKept
<1>6. CASE EndTake
  <2> DEFINE u(t) == WithMeta(EndedTake(t, clock + 1, EndStatus))
  <2>1. takes' = [takes EXCEPT ![ctake] = u(takes[ctake])] /\ UNCHANGED <<take, takeSeq, ppc>>
    BY <1>6 DEF EndTake
  <2>2. \A t \in Take : u(t).count = t.count /\ u(t).file = t.file
    BY MetaRewritten
  <2> HIDE DEF u
  <2>3. \A k \in TakeNumbers : takes'[k].count = takes[k].count /\ takes'[k].file = takes[k].file
    BY <1>1, <2>1, <2>2
  <2> QED BY <1>1, <2>1, <2>3, CountKept
<1>7. CASE MarkLastTake
  <2> DEFINE u(t) == WithMeta([t EXCEPT !.bad = TRUE])
  <2>1. takes' = [takes EXCEPT ![LastTake] = u(takes[LastTake])] /\ UNCHANGED <<take, takeSeq, ppc>>
    BY <1>7 DEF MarkLastTake
  <2>2. \A t \in Take : u(t).count = t.count /\ u(t).file = t.file
    BY MetaRewritten
  <2> HIDE DEF u
  <2>3. \A k \in TakeNumbers : takes'[k].count = takes[k].count /\ takes'[k].file = takes[k].file
    BY <1>1, <2>1, <2>2
  <2> QED BY <1>1, <2>1, <2>3, CountKept
<1>8. CASE Start
  <2>1. ppc # "write" /\ ppc' # "write" /\ UNCHANGED <<takes, take, takeSeq>>
    BY <1>8 DEF Start, LockInv
  <2> QED BY <2>1 DEF CountInv
<1>9. CASE StopTake \/ Stop \/ ReadBaseline \/ FinishStop
  <2>1. UNCHANGED <<takes, take, takeSeq, ppc>>
    BY <1>9 DEF StopTake, Stop, ReadBaseline, FinishStop
  <2> QED BY <1>1, <2>1 DEF CountInv
<1> QED BY <1>2, <1>3, <1>4, <1>5, <1>6, <1>7, <1>8, <1>9 DEF CallerBegins, CallerContinues

\* CountInv is kept by every step.
LEMMA CountStep == TypeInv /\ LockInv /\ TakeInv /\ CountInv /\ [Next]_vars => CountInv'
<1> SUFFICES ASSUME TypeInv, LockInv, TakeInv, CountInv, [Next]_vars PROVE CountInv'
  OBVIOUS
<1>1. CASE KernelDeliver \/ ReceiveLoop \/ Terminated \/ UNCHANGED vars
  <2>1. UNCHANGED <<takes, take, takeSeq, ppc, ptake>>
    BY <1>1 DEF KernelDeliver, ReceiveLoop, Terminated, vars, callerVars, sharedVars, procVars
  <2> QED BY <2>1 DEF CountInv
<1> QED BY <1>1, CountProcess, CountCall DEF Next

\* CountInv holds before any take.
LEMMA CountInit == Init => CountInv
<1> SUFFICES ASSUME Init PROVE CountInv
  OBVIOUS
<1>1. \A k \in TakeNumbers : takes[k].count = 0 /\ takes[k].file = <<>>
  BY DEF Init, UnusedTake
<1> QED BY <1>1 DEF Init, CountInv

\* What is left behind of an ended take agrees with itself: the metadata counts
\* the lines of the file.
THEOREM EndedMetaCorrect == Spec => []EndedMetaMatchesFile
<1> DEFINE I == TypeInv /\ LockInv /\ TakeInv /\ CountInv
<1>1. I => EndedMetaMatchesFile
  <2> SUFFICES ASSUME I, NEW k \in TakeNumbers, Ended(k)
               PROVE  takes[k].meta = [count |-> Len(takes[k].file), status |-> takes[k].status]
    BY DEF EndedMetaMatchesFile
  <2>1. ~(ppc = "write" /\ ptake = k)
    BY DEF LockInv, TakeInv
  <2>2. takes[k].count = Len(takes[k].file)
    <3>1. takes[k] \in Take
      BY DEF TypeInv, TypeOK
    <3>2. Len(takes[k].file) \in Nat
      BY <3>1, TakeFields
    <3>3. takes[k].count = Len(takes[k].file) + 0
      BY <2>1 DEF CountInv
    <3> QED BY <3>2, <3>3
  <2> QED BY <2>2 DEF TakeInv
<1> QED BY TypeInit, TakeInit, CountInit, TypeStep, LockStep, TakeStep, CountStep, <1>1, PTL
        DEF Spec

-----------------------------------------------------------------------------
(* Arrival order *)

\* The number of datagrams the processor has taken from the queue.
Pulled == Len(received) - (IF rpc = "put" THEN 1 ELSE 0) - Len(queue)

\* Control points at which the processor has a message in hand.
Handling == {"lock", "count", "idle", "observe", "write"}

\* The datagrams pass through the recorder one behind the other: first those pulled,
\* the last of them in the processor's hands, then the queue, then the one the
\* receiver is about to put.
FlowInv ==
    /\ rpc = "put" => rheld = Len(received)
    /\ cpc = "new" => rpc = "off"
    /\ Pulled >= 0
    /\ \A j \in 1..Len(queue) : queue[j] = Pulled + j
    /\ ppc \in Handling \cup {"malformed", "malformedLock"} => pheld = Pulled /\ pheld > 0
    /\ ppc \in Handling => ppart \in 1..SizeOf(pheld)
    /\ ppc \in {"malformed", "malformedLock"} => SizeOf(pheld) = 0
    /\ ppc = "idle" => take = None

\* Successor, of the datagrams in rec.
Succ(rec, m, n) ==
    \/ n.id = m.id /\ n.part = m.part + 1
    \/ /\ n.id > m.id /\ n.part = 1 /\ m.part = rec[m.id].size
       /\ \A d \in (m.id + 1)..(n.id - 1) : rec[d].size = 0

\* The lines of a file follow each other, and all came from the first p datagrams.
InOrder(rec, p, file) ==
    /\ \A i \in 1..Len(file) : file[i].id \in 1..p
    /\ \A i \in 2..Len(file) : Succ(rec, file[i - 1], file[i])

\* Of the first p datagrams nothing is left behind message m.
Exhausted(rec, p, m) ==
    m.part = rec[m.id].size /\ \A d \in (m.id + 1)..p : rec[d].size = 0

\* Files are in order, and the open take's can be continued by the message in hand,
\* or by the first of the next datagram that has one.
OrderInv ==
    /\ \A k \in TakeNumbers : InOrder(received, Pulled, takes[k].file)
    /\ take # None /\ takes[take].file # <<>> =>
          LET last == takes[take].file[Len(takes[take].file)]
          IN  IF ppc \in Handling
              THEN Succ(received, last, [id |-> pheld, part |-> ppart])
              ELSE Exhausted(received, Pulled, last)

\* More datagrams at the end.
Extends(r, s) == Len(r) <= Len(s) /\ \A d \in 1..Len(r) : s[d] = r[d]

LEMMA SuccExtends ==
    ASSUME NEW r \in Seq([size : Sizes, stamp : Nat]),
           NEW s \in Seq([size : Sizes, stamp : Nat]), Extends(r, s),
           NEW m, NEW n, m.id \in 1..Len(r), n.id \in 1..Len(r), Succ(r, m, n)
    PROVE  Succ(s, m, n)
<1>1. s[m.id] = r[m.id] /\ \A d \in (m.id + 1)..(n.id - 1) : s[d] = r[d]
  BY DEF Extends
<1> QED BY <1>1 DEF Succ

LEMMA InOrderExtends ==
    ASSUME NEW r \in Seq([size : Sizes, stamp : Nat]),
           NEW s \in Seq([size : Sizes, stamp : Nat]), Extends(r, s),
           NEW p \in Nat, NEW p2 \in Nat, p <= p2, p <= Len(r),
           NEW file \in Seq(TakeRecord), InOrder(r, p, file)
    PROVE  InOrder(s, p2, file)
<1>1. \A i \in 1..Len(file) : file[i].id \in 1..p /\ file[i].id \in 1..p2 /\ file[i].id \in 1..Len(r)
  BY DEF InOrder
<1>2. \A i \in 2..Len(file) : Succ(s, file[i - 1], file[i])
  <2> TAKE i \in 2..Len(file)
  <2>1. Succ(r, file[i - 1], file[i])
    BY DEF InOrder
  <2>2. i \in 1..Len(file) /\ i - 1 \in 1..Len(file)
    OBVIOUS
  <2> QED BY <1>1, <2>1, <2>2, SuccExtends
<1> QED BY <1>1, <1>2 DEF InOrder

LEMMA ExhaustedExtends ==
    ASSUME NEW r \in Seq([size : Sizes, stamp : Nat]),
           NEW s \in Seq([size : Sizes, stamp : Nat]), Extends(r, s),
           NEW p \in Nat, p <= Len(r), NEW m, m.id \in 1..p, Exhausted(r, p, m)
    PROVE  Exhausted(s, p, m)
<1>1. Len(r) \in Nat
  OBVIOUS
<1>2. m.id \in 1..Len(r) /\ \A d \in (m.id + 1)..p : d \in 1..Len(r)
  BY <1>1
<1>3. s[m.id] = r[m.id] /\ \A d \in (m.id + 1)..p : s[d] = r[d]
  BY <1>2 DEF Extends
<1> QED BY <1>3 DEF Exhausted

\* What the next datagram makes of an exhausted prefix.
LEMMA ExhaustedNext ==
    ASSUME NEW r, NEW p \in Nat, NEW m, m.id \in 1..p, Exhausted(r, p, m)
    PROVE  /\ r[p + 1].size = 0 => Exhausted(r, p + 1, m)
           /\ Succ(r, m, [id |-> p + 1, part |-> 1])
<1>1. \A d \in (m.id + 1)..(p + 1) : d = p + 1 \/ d \in (m.id + 1)..p
  OBVIOUS
<1>2. r[p + 1].size = 0 => Exhausted(r, p + 1, m)
  BY <1>1 DEF Exhausted
<1>3. Succ(r, m, [id |-> p + 1, part |-> 1])
  BY DEF Exhausted, Succ
<1> QED BY <1>2, <1>3

LEMMA InOrderAppend ==
    ASSUME NEW rec, NEW p \in Nat, NEW file \in Seq(TakeRecord), NEW l \in TakeRecord,
           InOrder(rec, p, file), l.id \in 1..p,
           file # <<>> => Succ(rec, file[Len(file)], l)
    PROVE  /\ InOrder(rec, p, Append(file, l))
           /\ Append(file, l) # <<>>
           /\ Append(file, l)[Len(Append(file, l))] = l
<1> DEFINE new == Append(file, l)
<1>1. /\ new \in Seq(TakeRecord) /\ Len(new) = Len(file) + 1 /\ Len(file) \in Nat
      /\ \A i \in 1..Len(file) : new[i] = file[i]
      /\ new[Len(file) + 1] = l
  BY AppendProperties
<1>2. \A i \in 1..Len(new) : new[i].id \in 1..p
  BY <1>1 DEF InOrder
<1>3. \A i \in 2..Len(new) : Succ(rec, new[i - 1], new[i])
  <2> TAKE i \in 2..Len(new)
  <2>1. CASE i \in 2..Len(file)
    <3>1. new[i - 1] = file[i - 1] /\ new[i] = file[i]
      BY <1>1, <2>1
    <3> QED BY <2>1, <3>1 DEF InOrder
  <2>2. CASE i = Len(file) + 1
    <3>1. file # <<>> /\ new[i] = l /\ new[i - 1] = file[Len(file)]
      BY <1>1, <2>2
    <3> QED BY <3>1
  <2> QED BY <1>1, <2>1, <2>2
<1>4. new # <<>>
  BY <1>1
<1> QED BY <1>1, <1>2, <1>3, <1>4 DEF InOrder

\* The lines of the open take, of which there is one if it is not empty.
LEMMA LastLine ==
    ASSUME NEW file \in Seq(TakeRecord), file # <<>>
    PROVE  Len(file) \in 1..Len(file) /\ file[Len(file)] \in TakeRecord
<1>1. Len(file) \in Nat /\ Len(file) # 0
  BY EmptySeq
<1> QED BY <1>1

-----------------------------------------------------------------------------
\* The receiver appends to what was received and to the queue; nothing is pulled.
LEMMA FlowReceive ==
    TypeInv /\ FlowInv /\ ReceiveLoop =>
        FlowInv' /\ Pulled' = Pulled /\ Extends(received, received')
<1> SUFFICES ASSUME TypeInv, FlowInv, ReceiveLoop
             PROVE  FlowInv' /\ Pulled' = Pulled /\ Extends(received, received')
  OBVIOUS
<1>1. UNCHANGED <<ppc, pheld, ppart, take, cpc>> /\ rpc # "off"
  BY DEF ReceiveLoop, procVars, callerVars, TestStop, RecvFrom, RecvNothing, QueuePut
<1>2. /\ received \in Seq([size : Sizes, stamp : Nat]) /\ queue \in Seq(Nat)
      /\ Len(received) \in Nat /\ Len(queue) \in Nat
  BY DEF TypeInv, TypeOK, ReceiverType
<1>3. pheld \in Nat /\ Pulled \in Int /\ Pulled <= Len(received)
  BY <1>2 DEF TypeInv, TypeOK, ProcessorType, Pulled
<1>4. CASE TestStop \/ RecvNothing
  <2>1. UNCHANGED <<received, rheld, queue>> /\ rpc # "put" /\ rpc' # "put"
    BY <1>4 DEF TestStop, RecvNothing
  <2> QED BY <1>1, <1>2, <2>1 DEF FlowInv, Pulled, SizeOf, Extends
<1>5. CASE RecvFrom
  <2> DEFINE d == [size |-> Head(kbuf), stamp |-> clock]
  <2>1. /\ received' = Append(received, d) /\ rheld' = Len(received) + 1
        /\ rpc = "recv" /\ rpc' = "put" /\ queue' = queue
    BY <1>5 DEF RecvFrom
  <2> HIDE DEF d
  <2>2. /\ Len(received') = Len(received) + 1
        /\ \A i \in 1..Len(received) : received'[i] = received[i]
    BY <1>2, <2>1
  <2>3. Pulled' = Pulled
    BY <1>2, <2>1, <2>2 DEF Pulled
  <2>4. Extends(received, received')
    BY <1>2, <2>2 DEF Extends
  <2>5. ppc \in Handling \cup {"malformed", "malformedLock"} => SizeOf(pheld)' = SizeOf(pheld)
    BY <1>1, <1>3, <2>2 DEF FlowInv, SizeOf
  <2> QED BY <1>1, <2>1, <2>2, <2>3, <2>4, <2>5 DEF FlowInv
<1>6. CASE QueuePut
  <2>1. /\ queue' = Append(queue, rheld) /\ received' = received
        /\ rpc = "put" /\ rpc' = "test"
    BY <1>6 DEF QueuePut
  <2>2. /\ Len(queue') = Len(queue) + 1 /\ queue'[Len(queue) + 1] = rheld
        /\ \A j \in 1..Len(queue) : queue'[j] = queue[j]
    BY <1>2, <2>1 DEF TypeInv, TypeOK, ReceiverType
  <2>3. Pulled' = Pulled
    BY <1>2, <2>1, <2>2 DEF Pulled
  <2>4. \A j \in 1..Len(queue') : queue'[j] = Pulled' + j
    <3> TAKE j \in 1..Len(queue')
    <3>1. CASE j \in 1..Len(queue)
      BY <2>2, <2>3, <3>1 DEF FlowInv
    <3>2. CASE j = Len(queue) + 1
      BY <1>2, <2>1, <2>2, <2>3, <3>2 DEF FlowInv, Pulled
    <3> QED BY <1>2, <2>2, <3>1, <3>2
  <2> QED BY <1>1, <1>2, <2>1, <2>3, <2>4 DEF FlowInv, SizeOf, Extends
<1> QED BY <1>4, <1>5, <1>6 DEF ReceiveLoop

\* The processor pulls the next datagram in arrival order, and handles its messages
\* one after the other.
LEMMA FlowProcess ==
    TypeInv /\ FlowInv /\ ProcessLoop =>
        FlowInv' /\ Pulled' = Pulled + IF GetDatagram THEN 1 ELSE 0
<1> SUFFICES ASSUME TypeInv, FlowInv, ProcessLoop
             PROVE  FlowInv' /\ Pulled' = Pulled + IF GetDatagram THEN 1 ELSE 0
  OBVIOUS
<1>1. UNCHANGED <<received, rpc, rheld, take, cpc>>
  BY DEF ProcessLoop, recvVars, callerVars
<1>2. /\ received \in Seq([size : Sizes, stamp : Nat]) /\ queue \in Seq(Nat)
      /\ Len(received) \in Nat /\ Len(queue) \in Nat /\ pheld \in Nat /\ ppart \in Nat
  BY DEF TypeInv, TypeOK, ReceiverType, ProcessorType
<1>3. Pulled \in Nat
  BY <1>2 DEF FlowInv, Pulled
<1>6. \A i \in 1..Len(received) : SizeOf(i) \in Nat
  <2> TAKE i \in 1..Len(received)
  <2>1. received[i] \in [size : Sizes, stamp : Nat]
    BY <1>2, ElementOfSeq
  <2> QED BY <2>1, SizesAssumption DEF SizeOf
<1>4. CASE GetDatagram
  <2>1. /\ ppc = "get" /\ queue # <<>> /\ pheld' = Head(queue) /\ queue' = Tail(queue)
        /\ ppart' = 1 /\ ppc' = IF SizeOf(Head(queue)) = 0 THEN "malformed" ELSE "lock"
    BY <1>4 DEF GetDatagram
  <2>2. /\ Len(queue') = Len(queue) - 1 /\ Len(queue) > 0 /\ Head(queue) = queue[1]
        /\ \A j \in 1..Len(queue') : queue'[j] = queue[j + 1]
    BY <1>2, <2>1
  <2>3. Pulled' = Pulled + 1
    BY <1>1, <1>2, <2>2 DEF Pulled
  <2>4. pheld' = Pulled + 1
    BY <1>2, <2>1, <2>2 DEF FlowInv
  <2>5. \A j \in 1..Len(queue') : queue'[j] = Pulled' + j
    <3> TAKE j \in 1..Len(queue')
    <3>1. j + 1 \in 1..Len(queue) /\ queue'[j] = queue[j + 1]
      BY <1>2, <2>2
    <3>2. queue[j + 1] = Pulled + (j + 1)
      BY <3>1 DEF FlowInv
    <3> QED BY <1>3, <2>3, <3>1, <3>2
  <2>6. Pulled + 1 \in 1..Len(received)
    BY <1>2, <1>3, <2>2 DEF Pulled
  <2>7. SizeOf(pheld)' = SizeOf(Pulled + 1) /\ SizeOf(Pulled + 1) \in Nat
    BY <1>1, <1>6, <2>4, <2>6 DEF SizeOf
  <2>8. ppc' = IF SizeOf(Pulled + 1) = 0 THEN "malformed" ELSE "lock"
    BY <2>1, <2>4
  <2>9. ppc' \in {"malformed", "malformedLock"} => SizeOf(pheld)' = 0
    BY <2>7, <2>8
  <2>10. ppc' \in Handling => ppart' \in 1..SizeOf(pheld)'
    BY <2>1, <2>7, <2>8 DEF Handling
  <2> QED BY <1>1, <1>3, <1>4, <2>3, <2>4, <2>5, <2>8, <2>9, <2>10 DEF FlowInv
<1>5. CASE ~GetDatagram
  <2>1. queue' = queue /\ Pulled' = Pulled
    BY <1>1, <1>5 DEF ProcessLoop, Pulled, GetEmpty, CountMalformed, TakeMalformed, AcquireLock,
         CountMessage, ObserveIdle, ObserveTake, WriteRecord
  <2>2. SizeOf(pheld)' = received[pheld'].size
    BY <1>1 DEF SizeOf
  <2>3. CASE GetEmpty
    BY <1>1, <1>3, <1>5, <2>1, <2>3 DEF GetEmpty, FlowInv, Handling
  <2>4. CASE CountMalformed \/ TakeMalformed \/ AcquireLock \/ CountMessage \/ ObserveTake
    BY <1>1, <1>3, <1>5, <2>1, <2>2, <2>4 DEF CountMalformed, TakeMalformed, AcquireLock,
       CountMessage, ObserveTake, FlowInv, Handling, SizeOf
  <2>5. CASE ObserveIdle \/ WriteRecord
    <3>1. ppc \in Handling /\ ReleaseLock
      BY <2>5 DEF ObserveIdle, WriteRecord, Handling
    <3>2. pheld = Pulled /\ pheld > 0 /\ ppart \in 1..SizeOf(pheld)
      BY <3>1 DEF FlowInv
    <3>3. pheld \in 1..Len(received) /\ SizeOf(pheld) \in Nat
      BY <1>2, <1>6, <3>2 DEF Pulled
    <3>4. CASE ppart < SizeOf(pheld)
      BY <1>1, <1>2, <1>5, <2>1, <2>2, <3>1, <3>2, <3>3, <3>4
         DEF ReleaseLock, FlowInv, Handling, SizeOf
    <3>5. CASE ~(ppart < SizeOf(pheld))
      BY <1>1, <1>3, <1>5, <2>1, <3>1, <3>5 DEF ReleaseLock, FlowInv, Handling
    <3> QED BY <3>4, <3>5
  <2> QED BY <1>5, <2>3, <2>4, <2>5 DEF ProcessLoop
<1> QED BY <1>4, <1>5

\* Nobody else touches the datagrams.  A message going to the idle counters is one
\* the processor holds the lock for, so no take is opened under it.
LEMMA FlowStep == TypeInv /\ LockInv /\ FlowInv /\ [Next]_vars => FlowInv'
<1> SUFFICES ASSUME TypeInv, LockInv, FlowInv, [Next]_vars PROVE FlowInv'
  OBVIOUS
<1>1. CASE KernelDeliver \/ Terminated \/ UNCHANGED vars
  <2>1. UNCHANGED <<received, rpc, rheld, queue, ppc, pheld, ppart, take, cpc>>
    BY <1>1 DEF KernelDeliver, Terminated, vars, recvVars, procVars, callerVars, sharedVars
  <2> QED BY <2>1 DEF FlowInv, Pulled, SizeOf
<1>2. CASE CallerBegins \/ CallerContinues
  <2>1. UNCHANGED <<received, rheld, queue, pheld, ppart, lock>>
    BY <1>2 DEF CallerBegins, CallerContinues, CallerFrame
  <2>2. CASE Start
    <3>1. rpc' = "test" /\ ppc' = "get" /\ cpc = "new" /\ ppc = "off"
      BY <2>2 DEF Start, LockInv
    <3>2. cpc' = "idle" /\ UNCHANGED take /\ rpc = "off"
      BY <2>2 DEF Start, FlowInv
    <3> QED BY <2>1, <3>1, <3>2 DEF FlowInv, Pulled, Handling
  <2>3. CASE ~Start
    <3>1. UNCHANGED <<rpc, ppc>>
      BY <1>2, <2>3 DEF CallerBegins, CallerContinues, StartTake, StopTake, MarkLastTake, Stop,
         ReadBaseline, ArmTake, DisarmTake, ReadDrops, EndTake, FinishStop
    <3>2. ppc = "idle" => take' = take
      <4>1. ppc = "idle" => ~LockFree
        BY DEF LockInv, LockFree
      <4> QED BY <1>2, <2>3, <4>1 DEF CallerBegins, CallerContinues, StartTake, StopTake,
           MarkLastTake, Stop, ReadBaseline, ArmTake, DisarmTake, ReadDrops, EndTake, FinishStop
    <3>3. cpc' # "new"
      BY <1>2, <2>3 DEF CallerBegins, CallerContinues, StartTake, StopTake, MarkLastTake, Stop,
         ReadBaseline, ArmTake, DisarmTake, ReadDrops, EndTake, FinishStop
    <3> QED BY <2>1, <3>1, <3>2, <3>3 DEF FlowInv, Pulled, SizeOf
  <2> QED BY <2>2, <2>3
<1> QED BY <1>1, <1>2, FlowReceive, FlowProcess DEF Next

LEMMA FlowInit == Init => FlowInv /\ OrderInv
<1> SUFFICES ASSUME Init PROVE FlowInv /\ OrderInv
  OBVIOUS
<1>1. Len(received) = 0 /\ Len(queue) = 0 /\ Pulled = 0
  BY DEF Init, Pulled
<1>2. \A k \in TakeNumbers : takes[k].file = <<>>
  BY DEF Init, UnusedTake
<1>3. FlowInv
  BY <1>1 DEF Init, FlowInv, Handling
<1>4. OrderInv
  BY <1>2 DEF Init, OrderInv, InOrder
<1> QED BY <1>3, <1>4

-----------------------------------------------------------------------------
\* OrderInv depends on the datagrams, on the files and on the message in hand.
LEMMA OrderReceive == TypeInv /\ FlowInv /\ OrderInv /\ ReceiveLoop => OrderInv'
<1> SUFFICES ASSUME TypeInv, FlowInv, OrderInv, ReceiveLoop PROVE OrderInv'
  OBVIOUS
<1>1. UNCHANGED <<ppc, pheld, ppart, take, takes>>
  BY DEF ReceiveLoop, procVars, callerVars
<1>2. /\ received \in Seq([size : Sizes, stamp : Nat])
      /\ received' \in Seq([size : Sizes, stamp : Nat])
      /\ queue \in Seq(Nat) /\ Len(received) \in Nat /\ Len(queue) \in Nat
  BY TypeReceive DEF TypeInv, TypeOK, ReceiverType
<1>3. Pulled \in Nat /\ Pulled <= Len(received)
  BY <1>2 DEF FlowInv, Pulled
<1>4. Pulled' = Pulled /\ Extends(received, received')
  BY FlowReceive
<1>5. \A k \in TakeNumbers : takes[k].file \in Seq(TakeRecord)
  BY TakeFields DEF TypeInv, TypeOK
<1>6. \A k \in TakeNumbers : InOrder(received', Pulled, takes[k].file)
  <2> TAKE k \in TakeNumbers
  <2>1. InOrder(received, Pulled, takes[k].file) /\ takes[k].file \in Seq(TakeRecord)
    BY <1>5 DEF OrderInv
  <2>2. Pulled <= Pulled
    BY <1>3
  <2> HIDE DEF Pulled
  <2> QED BY <1>2, <1>3, <1>4, <2>1, <2>2, InOrderExtends
<1>7. ASSUME take # None, takes[take].file # <<>>
      PROVE  LET last == takes[take].file[Len(takes[take].file)]
             IN  IF ppc \in Handling
                 THEN Succ(received', last, [id |-> pheld, part |-> ppart])
                 ELSE Exhausted(received', Pulled, last)
  <2> DEFINE last == takes[take].file[Len(takes[take].file)]
  <2>1. take \in TakeNumbers
    BY <1>7 DEF TypeInv, TypeOK, CallerType
  <2>2. last.id \in 1..Pulled
    <3>1. Len(takes[take].file) \in 1..Len(takes[take].file)
      BY <1>5, <1>7, <2>1, LastLine
    <3> QED BY <2>1, <3>1 DEF OrderInv, InOrder
  <2>3. last.id \in 1..Len(received)
    BY <1>2, <1>3, <2>2
  <2>4. CASE ppc \in Handling
    <3> DEFINE next == [id |-> pheld, part |-> ppart]
    <3>1. pheld = Pulled /\ pheld > 0
      BY <2>4 DEF FlowInv
    <3>2. next.id \in 1..Len(received)
      BY <1>2, <1>3, <3>1
    <3>3. Succ(received, last, next)
      BY <1>7, <2>4 DEF OrderInv
    <3> HIDE DEF last, next
    <3>4. Succ(received', last, next)
      BY <1>2, <1>4, <2>3, <3>2, <3>3, SuccExtends
    <3> QED BY <2>4, <3>4 DEF last, next
  <2>5. CASE ppc \notin Handling
    <3>1. Exhausted(received, Pulled, last)
      BY <1>7, <2>5 DEF OrderInv
    <3> HIDE DEF last
    <3>2. Exhausted(received', Pulled, last)
      BY <1>2, <1>3, <1>4, <2>2, <3>1, ExhaustedExtends
    <3> QED BY <2>5, <3>2 DEF last
  <2> QED BY <2>4, <2>5
<1> QED BY <1>1, <1>4, <1>6, <1>7 DEF OrderInv

\* A message is written behind the last line of the open take, and what is not
\* written there has no message or comes when no take is open.
LEMMA OrderProcess ==
    TypeInv /\ LockInv /\ CountInv /\ FlowInv /\ OrderInv /\ ProcessLoop => OrderInv'
<1> SUFFICES ASSUME TypeInv, LockInv, CountInv, FlowInv, OrderInv, ProcessLoop PROVE OrderInv'
  OBVIOUS
<1>1. UNCHANGED <<received, take>>
  BY DEF ProcessLoop, recvVars, callerVars
<1>2. /\ received \in Seq([size : Sizes, stamp : Nat]) /\ Len(received) \in Nat
      /\ queue \in Seq(Nat) /\ Len(queue) \in Nat
      /\ pheld \in Nat /\ ppart \in Nat /\ takeSeq \in Nat
      /\ take \in TakeNumbers \cup {None} /\ takes \in [TakeNumbers -> Take]
  BY DEF TypeInv, TypeOK, ReceiverType, ProcessorType, CallerType
<1>3. Pulled \in Nat /\ Pulled <= Len(received)
  BY <1>2 DEF FlowInv, Pulled
<1>4. Pulled' = Pulled + IF GetDatagram THEN 1 ELSE 0
  BY FlowProcess
<1>5. \A k \in TakeNumbers : takes[k].file \in Seq(TakeRecord)
  BY TakeFields DEF TypeInv, TypeOK
<1> DEFINE last == takes[take].file[Len(takes[take].file)]
<1>6. take # None /\ takes[take].file # <<>> =>
          /\ last.id \in 1..Pulled
          /\ ppc \in Handling => Succ(received, last, [id |-> pheld, part |-> ppart])
          /\ ppc \notin Handling => Exhausted(received, Pulled, last)
  <2> SUFFICES ASSUME take # None, takes[take].file # <<>>
               PROVE  /\ last.id \in 1..Pulled
                      /\ ppc \in Handling => Succ(received, last, [id |-> pheld, part |-> ppart])
                      /\ ppc \notin Handling => Exhausted(received, Pulled, last)
    OBVIOUS
  <2>1. take \in TakeNumbers
    BY <1>2
  <2>2. Len(takes[take].file) \in 1..Len(takes[take].file)
    BY <1>5, <2>1, LastLine
  <2> QED BY <2>1, <2>2 DEF OrderInv, InOrder
<1>7. ASSUME \A k \in TakeNumbers : takes'[k].file = takes[k].file, Pulled' = Pulled,
             take # None /\ takes[take].file # <<>> =>
                /\ ppc' \in Handling => Succ(received, last, [id |-> pheld', part |-> ppart'])
                /\ ppc' \notin Handling => Exhausted(received, Pulled, last)
      PROVE  OrderInv'
  <2>1. take # None => takes'[take].file = takes[take].file
    BY <1>2, <1>7
  <2> QED BY <1>1, <1>7, <2>1 DEF OrderInv
<1>8. CASE GetDatagram
  <2>1. /\ ppc = "get" /\ queue # <<>> /\ pheld' = Head(queue) /\ takes' = takes
        /\ ppart' = 1 /\ ppc' = IF SizeOf(Head(queue)) = 0 THEN "malformed" ELSE "lock"
    BY <1>8 DEF GetDatagram
  <2>2. Head(queue) = Pulled + 1 /\ Pulled' = Pulled + 1 /\ Pulled + 1 <= Len(received)
    BY <1>2, <1>3, <1>4, <1>8, <2>1 DEF FlowInv, Pulled
  <2>3. \A k \in TakeNumbers : InOrder(received, Pulled + 1, takes[k].file)
    <3> TAKE k \in TakeNumbers
    <3>1. InOrder(received, Pulled, takes[k].file) /\ takes[k].file \in Seq(TakeRecord)
      BY <1>5 DEF OrderInv
    <3>2. Pulled <= Pulled + 1 /\ Pulled + 1 \in Nat /\ Extends(received, received)
      BY <1>2, <1>3 DEF Extends
    <3> HIDE DEF Pulled
    <3> QED BY <1>2, <1>3, <3>1, <3>2, InOrderExtends
  <2>4. take # None /\ takes[take].file # <<>> =>
            /\ SizeOf(Pulled + 1) = 0 => Exhausted(received, Pulled + 1, last)
            /\ Succ(received, last, [id |-> Pulled + 1, part |-> 1])
    <3> SUFFICES ASSUME take # None, takes[take].file # <<>>
                 PROVE  /\ SizeOf(Pulled + 1) = 0 => Exhausted(received, Pulled + 1, last)
                        /\ Succ(received, last, [id |-> Pulled + 1, part |-> 1])
      OBVIOUS
    <3>1. last.id \in 1..Pulled /\ Exhausted(received, Pulled, last)
      BY <1>6, <2>1 DEF Handling
    <3> HIDE DEF last, Pulled
    <3> QED BY <1>3, <3>1, ExhaustedNext DEF SizeOf
  <2>5. ppc' = IF SizeOf(Pulled + 1) = 0 THEN "malformed" ELSE "lock"
    BY <2>1, <2>2
  <2> QED BY <1>1, <2>1, <2>2, <2>3, <2>4, <2>5 DEF OrderInv, Handling
<1>9. CASE GetEmpty \/ CountMalformed
  <2>1. takes' = takes /\ ppc \notin Handling /\ ppc' \notin Handling /\ Pulled' = Pulled
    BY <1>3, <1>4, <1>9 DEF GetEmpty, CountMalformed, Handling, GetDatagram
  <2> QED BY <1>6, <1>7, <2>1
<1>10. CASE TakeMalformed
  <2>1. ppc \notin Handling /\ ppc' \notin Handling /\ Pulled' = Pulled
    BY <1>3, <1>4, <1>10 DEF TakeMalformed, Handling, GetDatagram
  <2>2. \A k \in TakeNumbers : takes'[k].file = takes[k].file
    <3>1. CASE take = None
      BY <1>10, <3>1 DEF TakeMalformed
    <3>2. CASE take # None
      <4>1. takes' = [takes EXCEPT ![take] =
                        [takes[take] EXCEPT !.malformed = takes[take].malformed + 1]]
        BY <1>10, <3>2 DEF TakeMalformed
      <4> QED BY <1>2, <3>2, <4>1, TakeKept
    <3> QED BY <3>1, <3>2
  <2> QED BY <1>6, <1>7, <2>1, <2>2
<1>11. CASE AcquireLock \/ CountMessage
  <2>1. /\ takes' = takes /\ ppc \in Handling /\ ppc' \in Handling /\ Pulled' = Pulled
        /\ UNCHANGED <<pheld, ppart>>
    BY <1>3, <1>4, <1>11 DEF AcquireLock, CountMessage, Handling, GetDatagram
  <2> QED BY <1>6, <1>7, <2>1
<1>12. CASE ObserveTake
  <2>1. /\ ppc \in Handling /\ ppc' \in Handling /\ Pulled' = Pulled
        /\ UNCHANGED <<pheld, ppart>> /\ take \in TakeNumbers /\ ptake = take
    BY <1>2, <1>3, <1>4, <1>12 DEF ObserveTake, Handling, GetDatagram, LockInv
  <2>2. takes' = [takes EXCEPT ![take] =
                    [takes[take] EXCEPT !.count = takes[take].count + 1]]
    BY <1>12, <2>1 DEF ObserveTake
  <2>3. \A k \in TakeNumbers : takes'[k].file = takes[k].file
    BY <1>2, <2>1, <2>2, TakeKept
  <2> QED BY <1>6, <1>7, <2>1, <2>3
<1>13. CASE ObserveIdle
  <2>1. /\ takes' = takes /\ Pulled' = Pulled /\ take = None
    BY <1>3, <1>4, <1>13 DEF ObserveIdle, GetDatagram, FlowInv
  <2> QED BY <1>7, <2>1
<1>14. CASE WriteRecord
  <2> DEFINE line == [id |-> pheld, part |-> ppart, q |-> takeSeq - 1]
  <2>1. /\ ppc = "write" /\ Pulled' = Pulled /\ ReleaseLock
        /\ take \in TakeNumbers /\ take # None /\ ptake = take
    BY <1>2, <1>3, <1>4, <1>14 DEF WriteRecord, GetDatagram, LockInv
  <2>2. takes' = [takes EXCEPT ![take] =
                    [takes[take] EXCEPT !.file = Append(takes[take].file, line)]]
    BY <1>14, <2>1 DEF WriteRecord
  <2>3. line \in TakeRecord /\ line.id = pheld /\ line.part = ppart
    BY <1>2 DEF TakeRecord
  <2>4. /\ pheld = Pulled /\ pheld > 0 /\ ppart \in 1..SizeOf(pheld)
    BY <2>1 DEF FlowInv, Handling
  <2>5. takes[take].file # <<>> => Succ(received, last, line)
    <3>1. takes[take].file # <<>> => Succ(received, last, [id |-> pheld, part |-> ppart])
      BY <1>6, <2>1 DEF Handling
    <3>2. [id |-> pheld, part |-> ppart].id = pheld /\ [id |-> pheld, part |-> ppart].part = ppart
      OBVIOUS
    <3> HIDE DEF line, last
    <3> QED BY <2>3, <3>1, <3>2 DEF Succ
  <2>6. line.id \in 1..Pulled /\ takes[take].file \in Seq(TakeRecord)
        /\ InOrder(received, Pulled, takes[take].file)
    BY <1>3, <1>5, <2>1, <2>3, <2>4 DEF OrderInv
  <2> HIDE DEF line
  <2>7. /\ takes'[take].file = Append(takes[take].file, line)
        /\ \A k \in TakeNumbers : k # take => takes'[k] = takes[k]
    BY <1>2, <2>1, <2>2, TakeKept
  <2>8. /\ InOrder(received, Pulled, takes'[take].file)
        /\ takes'[take].file[Len(takes'[take].file)] = line
    <3> HIDE DEF Pulled
    <3> QED BY <1>3, <2>3, <2>5, <2>6, <2>7, InOrderAppend
  <2>9. \A k \in TakeNumbers : InOrder(received, Pulled, takes'[k].file)
    BY <2>7, <2>8 DEF OrderInv
  <2>10. IF ppc' \in Handling
         THEN Succ(received, line, [id |-> pheld', part |-> ppart'])
         ELSE Exhausted(received, Pulled, line)
    <3>1. CASE ppart < SizeOf(pheld)
      BY <2>1, <2>3, <3>1 DEF ReleaseLock, Succ, Handling
    <3>2. CASE ~(ppart < SizeOf(pheld))
      <4>1. ppc' = "get" /\ ppart = SizeOf(pheld)
        <5>1. SizeOf(pheld) \in Nat
          <6>1. received[pheld] \in [size : Sizes, stamp : Nat]
            <7>1. pheld \in 1..Len(received)
              BY <1>2, <1>3, <2>4
            <7> QED BY <1>2, <7>1, ElementOfSeq
          <6> QED BY <6>1, SizesAssumption DEF SizeOf
        <5> QED BY <2>1, <2>4, <3>2, <5>1 DEF ReleaseLock
      <4> QED BY <1>3, <2>3, <2>4, <4>1 DEF Exhausted, SizeOf, Handling
    <3> QED BY <3>1, <3>2
  <2> QED BY <1>1, <2>1, <2>8, <2>9, <2>10 DEF OrderInv
<1> QED BY <1>8, <1>9, <1>10, <1>11, <1>12, <1>13, <1>14 DEF ProcessLoop

\* The caller writes no line, and arms a take whose file is still empty.
LEMMA OrderCall ==
    TypeInv /\ LockInv /\ TakeInv /\ CountInv /\ FlowInv /\ OrderInv
        /\ (CallerBegins \/ CallerContinues) => OrderInv'
<1> SUFFICES ASSUME TypeInv, LockInv, TakeInv, CountInv, FlowInv, OrderInv,
                    CallerBegins \/ CallerContinues
             PROVE  OrderInv'
  OBVIOUS
<1>1. UNCHANGED <<received, queue, pheld, ppart>>
  BY DEF CallerBegins, CallerContinues, CallerFrame
<1>2. /\ takes \in [TakeNumbers -> Take] /\ take \in TakeNumbers \cup {None}
      /\ ctake \in TakeNumbers \cup {None} /\ nextTake \in 1..(MaxTakes + 1)
  BY DEF TypeInv, TypeOK, CallerType
<1>3. Pulled' = Pulled /\ (ppc' \in Handling <=> ppc \in Handling)
  <2>1. CASE Start
    BY <1>1, <2>1 DEF Start, Pulled, FlowInv, LockInv, Handling
  <2>2. CASE ~Start
    <3>1. UNCHANGED <<rpc, ppc>>
      BY <2>2 DEF CallerBegins, CallerContinues, StartTake, StopTake, MarkLastTake, Stop,
         ReadBaseline, ArmTake, DisarmTake, ReadDrops, EndTake, FinishStop
    <3> QED BY <1>1, <3>1 DEF Pulled
  <2> QED BY <2>1, <2>2
<1>4. ASSUME \A k \in TakeNumbers : takes'[k].file = takes[k].file,
             take' = take \/ take' = None
      PROVE  OrderInv'
  <2>1. take # None => takes'[take].file = takes[take].file
    BY <1>2, <1>4
  <2> QED BY <1>1, <1>3, <1>4, <2>1 DEF OrderInv
<1>5. CASE StartTake
  <2>1. /\ nextTake \in TakeNumbers /\ take' = None
    BY <1>2, <1>5, BoundsAssumption DEF StartTake, TakeNumbers
  <2>2. /\ takes'[nextTake].file = <<>>
        /\ \A k \in TakeNumbers : k # nextTake => takes'[k] = takes[k]
    BY <1>2, <1>5, <2>1, TakeStarts DEF StartTake
  <2>3. InOrder(received, Pulled, <<>>)
    BY DEF InOrder
  <2>4. \A k \in TakeNumbers : InOrder(received, Pulled, takes'[k].file)
    BY <2>2, <2>3 DEF OrderInv
  <2> QED BY <1>1, <1>3, <2>1, <2>4 DEF OrderInv
<1>6. CASE ArmTake
  <2>1. take' = nextTake - 1 /\ takes' = takes /\ nextTake - 1 \in TakeNumbers
    BY <1>2, <1>6, BoundsAssumption DEF ArmTake, TypeInv, StartedBeforeArmed, TakeNumbers
  <2>2. takes[nextTake - 1].count = 0
    BY <1>6 DEF ArmTake, TakeInv
  <2>3. takes[nextTake - 1].file = <<>>
    <3>1. takes[nextTake - 1].file \in Seq(TakeRecord)
      BY <1>2, <2>1, TakeFields
    <3>2. Len(takes[nextTake - 1].file) \in Nat
      BY <3>1
    <3>3. PICK n \in {0, 1} : takes[nextTake - 1].count = Len(takes[nextTake - 1].file) + n
      BY <2>1 DEF CountInv
    <3>4. Len(takes[nextTake - 1].file) = 0
      BY <2>2, <3>2, <3>3
    <3> QED BY <3>1, <3>4, EmptySeq
  <2> QED BY <1>1, <1>3, <2>1, <2>3 DEF OrderInv
<1>7. CASE DisarmTake
  BY <1>4, <1>7 DEF DisarmTake
<1>8. CASE ReadDrops
  <2> DEFINE d == [known |-> SocketDrops.known, n |-> SocketDrops.n - dropsBase]
  <2>1. takes' = [takes EXCEPT ![ctake] = [takes[ctake] EXCEPT !.drops = d]] /\ UNCHANGED take
    BY <1>8 DEF ReadDrops
  <2> HIDE DEF d
  <2>2. \A k \in TakeNumbers : takes'[k].file = takes[k].file
    BY <1>2, <2>1, TakeKept
  <2> QED BY <1>4, <2>1, <2>2
<1>9. CASE EndTake
  <2> DEFINE u(t) == WithMeta(EndedTake(t, clock + 1, EndStatus))
  <2>1. takes' = [takes EXCEPT ![ctake] = u(takes[ctake])] /\ UNCHANGED take
    BY <1>9 DEF EndTake
  <2>2. \A t \in Take : u(t).file = t.file
    BY MetaRewritten
  <2> HIDE DEF u
  <2>3. \A k \in TakeNumbers : takes'[k].file = takes[k].file
    BY <1>2, <2>1, <2>2
  <2> QED BY <1>4, <2>1, <2>3
<1>10. CASE MarkLastTake
  <2> DEFINE u(t) == WithMeta([t EXCEPT !.bad = TRUE])
  <2>1. takes' = [takes EXCEPT ![LastTake] = u(takes[LastTake])] /\ UNCHANGED take
    BY <1>10 DEF MarkLastTake
  <2>2. \A t \in Take : u(t).file = t.file
    BY MetaRewritten
  <2> HIDE DEF u
  <2>3. \A k \in TakeNumbers : takes'[k].file = takes[k].file
    BY <1>2, <2>1, <2>2
  <2> QED BY <1>4, <2>1, <2>3
<1>11. CASE Start \/ StopTake \/ Stop \/ ReadBaseline \/ FinishStop
  BY <1>4, <1>11 DEF Start, StopTake, Stop, ReadBaseline, FinishStop
<1> QED BY <1>5, <1>6, <1>7, <1>8, <1>9, <1>10, <1>11 DEF CallerBegins, CallerContinues

\* OrderInv is kept by every step.
LEMMA OrderStep ==
    TypeInv /\ LockInv /\ TakeInv /\ CountInv /\ FlowInv /\ OrderInv /\ [Next]_vars => OrderInv'
<1> SUFFICES ASSUME TypeInv, LockInv, TakeInv, CountInv, FlowInv, OrderInv, [Next]_vars
             PROVE  OrderInv'
  OBVIOUS
<1>1. CASE KernelDeliver \/ Terminated \/ UNCHANGED vars
  <2>1. UNCHANGED <<received, rpc, queue, ppc, pheld, ppart, take, takes>>
    BY <1>1 DEF KernelDeliver, Terminated, vars, recvVars, procVars, callerVars, sharedVars
  <2> QED BY <2>1 DEF OrderInv, Pulled
<1> QED BY <1>1, OrderReceive, OrderProcess, OrderCall DEF Next

\* The lines of a take are an unbroken run of the arrival order, whatever start_take
\* and stop_take raced with: GetDatagram takes the queue in order, the messages of a
\* bundle keep their order (recorder.py:272-303), and between the first and the last
\* line of a take self._take was the take all along.
THEOREM TakesUnbroken == Spec => []TakesAreUnbroken
<1>1. TypeInv /\ CountInv /\ OrderInv => TakesAreUnbroken
  <2> SUFFICES ASSUME TypeInv, CountInv, OrderInv, NEW k \in TakeNumbers,
                      NEW i \in 1..Len(takes[k].file)
               PROVE  /\ takes[k].file[i].q = i - 1
                      /\ i > 1 => Successor(takes[k].file[i - 1], takes[k].file[i])
    BY DEF TakesAreUnbroken
  <2>1. takes[k].file[i].q = i - 1
    BY DEF CountInv
  <2>2. ASSUME i > 1 PROVE Successor(takes[k].file[i - 1], takes[k].file[i])
    <3>1. Len(takes[k].file) \in Nat
      BY TakeFields DEF TypeInv, TypeOK
    <3>2. Succ(received, takes[k].file[i - 1], takes[k].file[i])
      BY <2>2, <3>1 DEF OrderInv, InOrder
    <3> QED BY <3>2 DEF Succ, Successor, SizeOf
  <2> QED BY <2>1, <2>2
<1> QED BY TypeInit, TakeInit, CountInit, FlowInit, TypeStep, LockStep, TakeStep, CountStep,
        FlowStep, OrderStep, <1>1, PTL DEF Spec

-----------------------------------------------------------------------------
(* Totals and drops *)

\* Takes not yet started are as Init left them.
FreshInv == \A k \in TakeNumbers : k >= nextTake => takes[k] = UnusedTake

Written  == [k \in TakeNumbers |-> Len(takes[k].file)]
Reported == [k \in TakeNumbers |-> takes[k].drops.n]

\* The total is the sum of what was written and observed idle, but for a message
\* counted and not yet there.
TotalInv ==
    total = Len(idle) + Sigma(Written, MaxTakes)
            + IF ppc \in {"idle", "observe", "write"} THEN 1 ELSE 0

\* From the baseline on the drops of earlier takes are below it, and those of the
\* take that is open are above it.
DropInv ==
    /\ dropsBase <= SocketDrops.n
    /\ take # None => take = nextTake - 1
    /\ cpc \in {"drops", "end"} => ctake = nextTake - 1
    /\ \A k \in TakeNumbers : k >= nextTake => lostArmed[k] = 0
    /\ cpc = "baseline" => takes[nextTake - 1].drops.n = 0 /\ lostArmed[nextTake - 1] = 0
    /\ cpc \in {"arm", "drops"} \/ take # None =>
          /\ Sigma(Reported, MaxTakes) <= dropsBase
          /\ takes[nextTake - 1].drops.n = 0
          /\ DropsReadable => lostArmed[nextTake - 1] <= SocketDrops.n - dropsBase
    /\ Sigma(Reported, MaxTakes) <= SocketDrops.n
    /\ \A k \in TakeNumbers :
          /\ Ended(k) \/ (cpc = "end" /\ k = ctake)
          /\ takes[k].drops.known
          => lostArmed[k] <= takes[k].drops.n

\* What a change to a take does to its drops.
LEMMA DropsKept ==
    ASSUME NEW t \in Take
    PROVE  /\ \A n : /\ [t EXCEPT !.malformed = n].drops = t.drops
                     /\ [t EXCEPT !.count = n].drops = t.drops
                     /\ [t EXCEPT !.file = n].drops = t.drops
                     /\ [t EXCEPT !.drops = n].drops = n
           /\ WithMeta([t EXCEPT !.bad = TRUE]).drops = t.drops
           /\ \A n, st : WithMeta(EndedTake(t, n, st)).drops = t.drops
BY DEF Take, WithMeta, EndedTake

\* The processor changes no take's drops, and only WriteRecord a take's file.
LEMMA ProcessTakes ==
    ASSUME TypeInv, LockInv, ProcessLoop
    PROVE  /\ \A k \in TakeNumbers : takes'[k].drops = takes[k].drops
           /\ ~WriteRecord => \A k \in TakeNumbers : takes'[k].file = takes[k].file
           /\ \A k \in TakeNumbers : k # take => takes'[k] = takes[k]
<1>1. takes \in [TakeNumbers -> Take] /\ take \in TakeNumbers \cup {None}
  BY DEF TypeInv, TypeOK, CallerType
<1>2. CASE TakeMalformed /\ take # None
  <2>1. takes' = [takes EXCEPT ![take] =
                    [takes[take] EXCEPT !.malformed = takes[take].malformed + 1]]
    BY <1>2 DEF TakeMalformed
  <2> QED BY <1>1, <1>2, <2>1, TakeKept, DropsKept
<1>3. CASE ObserveTake
  <2>1. take \in TakeNumbers /\ ptake = take
    BY <1>1, <1>3 DEF ObserveTake, LockInv
  <2>2. takes' = [takes EXCEPT ![take] =
                    [takes[take] EXCEPT !.count = takes[take].count + 1]]
    BY <1>3, <2>1 DEF ObserveTake
  <2> QED BY <1>1, <2>1, <2>2, TakeKept, DropsKept
<1>4. CASE WriteRecord
  <2>1. take \in TakeNumbers /\ ptake = take
    BY <1>1, <1>4 DEF WriteRecord, LockInv
  <2> DEFINE line == [id |-> pheld, part |-> ppart, q |-> takeSeq - 1]
  <2>2. takes' = [takes EXCEPT ![take] =
                    [takes[take] EXCEPT !.file = Append(takes[take].file, line)]]
    BY <1>4, <2>1 DEF WriteRecord
  <2> HIDE DEF line
  <2> QED BY <1>1, <1>4, <2>1, <2>2, DropsKept
<1>5. CASE ~(TakeMalformed /\ take # None) /\ ~ObserveTake /\ ~WriteRecord
  <2>1. UNCHANGED takes
    BY <1>5 DEF ProcessLoop, GetDatagram, GetEmpty, CountMalformed, TakeMalformed,
         AcquireLock, CountMessage, ObserveIdle
  <2> QED BY <2>1
<1> QED BY <1>2, <1>3, <1>4, <1>5

\* The caller changes no take's file, and only ReadDrops a take's drops.
LEMMA CallerTakes ==
    ASSUME TypeInv, TakeInv, FreshInv, CallerBegins \/ CallerContinues
    PROVE  /\ \A k \in TakeNumbers :
                 /\ takes'[k].file = takes[k].file
                 /\ takes'[k].drops = takes[k].drops \/ (ReadDrops /\ k = ctake)
           /\ FreshInv'
<1>1. /\ takes \in [TakeNumbers -> Take] /\ take \in TakeNumbers \cup {None}
      /\ ctake \in TakeNumbers \cup {None} /\ nextTake \in 1..(MaxTakes + 1)
  BY DEF TypeInv, TypeOK, CallerType
<1>2. \A k \in TakeNumbers : k >= nextTake => k # take /\ k # ctake
  BY <1>1 DEF TakeInv, TakeNumbers
<1>3. CASE StartTake
  <2>1. /\ nextTake \in TakeNumbers /\ nextTake' = nextTake + 1
        /\ takes' = [takes EXCEPT ![nextTake] = NewTake(clock + 1)]
    BY <1>1, <1>3, BoundsAssumption DEF StartTake, TakeNumbers
  <2>2. takes[nextTake] = UnusedTake
    BY <1>1, <2>1 DEF FreshInv, TakeNumbers
  <2>3. NewTake(clock + 1).file = UnusedTake.file /\ NewTake(clock + 1).drops = UnusedTake.drops
    BY DEF NewTake, UnusedTake
  <2>4. \A k \in TakeNumbers : k # nextTake => takes'[k] = takes[k]
    BY <1>1, <2>1
  <2>5. takes'[nextTake] = NewTake(clock + 1)
    BY <1>1, <2>1
  <2>6. FreshInv'
    BY <1>1, <2>1, <2>4 DEF FreshInv, TakeNumbers
  <2> QED BY <2>2, <2>3, <2>4, <2>5, <2>6
<1>4. CASE ReadDrops
  <2> DEFINE d == [known |-> SocketDrops.known, n |-> SocketDrops.n - dropsBase]
  <2>1. takes' = [takes EXCEPT ![ctake] = [takes[ctake] EXCEPT !.drops = d]]
        /\ UNCHANGED nextTake
    BY <1>4 DEF ReadDrops
  <2> HIDE DEF d
  <2>2. \A k \in TakeNumbers : k # ctake => takes'[k] = takes[k]
    BY <1>1, <2>1
  <2> QED BY <1>1, <1>2, <1>4, <2>1, <2>2, TakeKept DEF FreshInv
<1>5. CASE EndTake
  <2> DEFINE u(t) == WithMeta(EndedTake(t, clock + 1, EndStatus))
  <2>1. takes' = [takes EXCEPT ![ctake] = u(takes[ctake])] /\ UNCHANGED nextTake
    BY <1>5 DEF EndTake
  <2>2. \A t \in Take : u(t).file = t.file /\ u(t).drops = t.drops
    <3>1. \A t \in Take : u(t).file = t.file
      BY MetaRewritten
    <3>2. \A t \in Take : u(t).drops = t.drops
      <4> TAKE t \in Take
      <4>1. \A n, st : WithMeta(EndedTake(t, n, st)).drops = t.drops
        BY DropsKept
      <4> QED BY <4>1
    <3> QED BY <3>1, <3>2
  <2> HIDE DEF u
  <2>3. \A k \in TakeNumbers : k # ctake => takes'[k] = takes[k]
    BY <1>1, <2>1
  <2> QED BY <1>1, <1>2, <2>1, <2>2, <2>3 DEF FreshInv
<1>6. CASE MarkLastTake
  <2> DEFINE u(t) == WithMeta([t EXCEPT !.bad = TRUE])
  <2>1. takes' = [takes EXCEPT ![LastTake] = u(takes[LastTake])] /\ UNCHANGED nextTake
    BY <1>6 DEF MarkLastTake
  <2>2. \A t \in Take : u(t).file = t.file /\ u(t).drops = t.drops
    BY MetaRewritten, DropsKept
  <2>3. \A k \in TakeNumbers : k >= nextTake => k # LastTake
    BY <1>1, <1>2 DEF LastTake, TakeNumbers
  <2> HIDE DEF u
  <2>4. \A k \in TakeNumbers : k # LastTake => takes'[k] = takes[k]
    BY <1>1, <2>1
  <2> QED BY <1>1, <2>1, <2>2, <2>3, <2>4 DEF FreshInv
<1>7. CASE Start \/ StopTake \/ Stop \/ ReadBaseline \/ FinishStop \/ ArmTake \/ DisarmTake
  <2>1. UNCHANGED <<takes, nextTake>>
    BY <1>7 DEF Start, StopTake, Stop, ReadBaseline, FinishStop, ArmTake, DisarmTake
  <2> QED BY <2>1 DEF FreshInv
<1> QED BY <1>3, <1>4, <1>5, <1>6, <1>7 DEF CallerBegins, CallerContinues

\* Takes stay unused until start_take gets to them.
LEMMA FreshStep == TypeInv /\ LockInv /\ TakeInv /\ FreshInv /\ [Next]_vars => FreshInv'
<1> SUFFICES ASSUME TypeInv, LockInv, TakeInv, FreshInv, [Next]_vars PROVE FreshInv'
  OBVIOUS
<1>1. CASE KernelDeliver \/ ReceiveLoop \/ Terminated \/ UNCHANGED vars
  <2>1. UNCHANGED <<takes, nextTake>>
    BY <1>1 DEF KernelDeliver, ReceiveLoop, Terminated, vars, callerVars, sharedVars
  <2> QED BY <2>1 DEF FreshInv
<1>2. CASE ProcessLoop
  <2>1. UNCHANGED nextTake
    BY <1>2 DEF ProcessLoop, callerVars
  <2>2. \A k \in TakeNumbers : k >= nextTake => k # take
    BY DEF TypeInv, TypeOK, CallerType, TakeInv, TakeNumbers
  <2> QED BY <1>2, <2>1, <2>2, ProcessTakes DEF FreshInv
<1> QED BY <1>1, <1>2, CallerTakes DEF Next

\* What is added up of a take.
LEMMA NumbersOfTake ==
    ASSUME NEW t \in Take
    PROVE  Len(t.file) \in Int /\ t.drops.n \in Int
<1>1. t.file \in Seq(TakeRecord) /\ t.drops \in Drops
  BY DEF Take
<1>2. t.drops.n \in Int
  BY <1>1 DEF Drops
<1> QED BY <1>1, <1>2

\* Written and Reported have sums.
LEMMA SumsTyped ==
    ASSUME TypeInv
    PROVE  /\ Written \in [1..MaxTakes -> Int] /\ Reported \in [1..MaxTakes -> Int]
           /\ Sigma(Written, MaxTakes) \in Int /\ Sigma(Reported, MaxTakes) \in Int
<1>1. \A k \in TakeNumbers : Len(takes[k].file) \in Int /\ takes[k].drops.n \in Int
  BY NumbersOfTake DEF TypeInv, TypeOK
<1>2. Written \in [1..MaxTakes -> Int] /\ Reported \in [1..MaxTakes -> Int]
  BY <1>1 DEF Written, Reported, TakeNumbers
<1> QED BY <1>2, SigmaAdds, BoundsAssumption

\* The total is accounted for by every step.
LEMMA TotalStep ==
    TypeInv /\ LockInv /\ TakeInv /\ FreshInv /\ TotalInv /\ [Next]_vars => TotalInv'
<1> SUFFICES ASSUME TypeInv, LockInv, TakeInv, FreshInv, TotalInv, [Next]_vars PROVE TotalInv'
  OBVIOUS
<1>1. /\ total \in Nat /\ Len(idle) \in Nat /\ Sigma(Written, MaxTakes) \in Int
  BY SumsTyped DEF TypeInv, TypeOK, ProcessorType
<1>2. ASSUME \A k \in TakeNumbers : takes'[k].file = takes[k].file PROVE Written' = Written
  BY <1>2 DEF Written
<1>3. CASE KernelDeliver \/ ReceiveLoop \/ Terminated \/ UNCHANGED vars
  <2>1. UNCHANGED <<takes, total, idle, ppc>>
    BY <1>3 DEF KernelDeliver, ReceiveLoop, Terminated, vars, procVars, sharedVars
  <2> QED BY <1>2, <2>1 DEF TotalInv
<1>4. CASE ProcessLoop
  <2>1. CASE GetDatagram \/ GetEmpty \/ CountMalformed \/ TakeMalformed \/ AcquireLock
    <3>1. /\ UNCHANGED <<total, idle>>
          /\ ppc \notin {"idle", "observe", "write"} /\ ppc' \notin {"idle", "observe", "write"}
      BY <2>1 DEF GetDatagram, GetEmpty, CountMalformed, TakeMalformed, AcquireLock
    <3>2. Written' = Written
      <4>1. ~WriteRecord
        BY <2>1 DEF GetDatagram, GetEmpty, CountMalformed, TakeMalformed, AcquireLock, WriteRecord
      <4> QED BY <1>2, <1>4, <4>1, ProcessTakes
    <3> QED BY <3>1, <3>2 DEF TotalInv
  <2>2. CASE CountMessage
    <3>1. /\ total' = total + 1 /\ UNCHANGED <<idle, takes>> /\ ppc = "count"
          /\ ppc' \in {"idle", "observe", "write"}
      BY <2>2 DEF CountMessage
    <3>2. Written' = Written
      BY <1>2, <3>1
    <3> QED BY <1>1, <3>1, <3>2 DEF TotalInv
  <2>3. CASE ObserveIdle
    <3>1. /\ total' = total /\ UNCHANGED takes /\ ppc = "idle"
          /\ ppc' \in {"lock", "get"} /\ idle' = Append(idle, [id |-> pheld, part |-> ppart])
      BY <2>3 DEF ObserveIdle, ReleaseLock
    <3>2. Written' = Written
      BY <1>2, <3>1
    <3>3. Len(idle') = Len(idle) + 1
      <4>1. idle \in Seq(Message)
        BY DEF TypeInv, TypeOK, ProcessorType
      <4> QED BY <3>1, <4>1
    <3> QED BY <1>1, <3>1, <3>2, <3>3 DEF TotalInv
  <2>4. CASE ObserveTake
    <3>1. total' = total /\ idle' = idle /\ ppc = "observe" /\ ppc' = "write"
      BY <2>4 DEF ObserveTake
    <3>2. Written' = Written
      <4>1. ~WriteRecord
        BY <3>1 DEF WriteRecord
      <4> QED BY <1>2, <1>4, <4>1, ProcessTakes
    <3> QED BY <1>1, <3>1, <3>2 DEF TotalInv
  <2>5. CASE WriteRecord
    <3> DEFINE line == [id |-> pheld, part |-> ppart, q |-> takeSeq - 1]
    <3>1. /\ total' = total /\ idle' = idle /\ ppc = "write" /\ ppc' \in {"lock", "get"}
          /\ take \in TakeNumbers /\ ptake = take
      BY <2>5 DEF WriteRecord, ReleaseLock, LockInv, TypeInv, TypeOK, CallerType
    <3>2. takes' = [takes EXCEPT ![take] =
                      [takes[take] EXCEPT !.file = Append(takes[take].file, line)]]
      BY <2>5, <3>1 DEF WriteRecord
    <3> HIDE DEF line
    <3>3. takes \in [TakeNumbers -> Take] /\ takes[take].file \in Seq(TakeRecord)
      BY <3>1, TakeFields DEF TypeInv, TypeOK
    <3>4. takes'[take].file = Append(takes[take].file, line)
      BY <3>1, <3>2, <3>3, TakeKept
    <3>5. Written'[take] = Written[take] + 1
      <4>1. Len(Append(takes[take].file, line)) = Len(takes[take].file) + 1
        BY <3>3
      <4> QED BY <3>1, <3>4, <4>1 DEF Written
    <3>6. \A k \in 1..MaxTakes : k # take => Written'[k] = Written[k]
      BY <1>4, ProcessTakes DEF Written, TakeNumbers
    <3>7. Written \in [1..MaxTakes -> Int] /\ Written' \in [1..MaxTakes -> Int]
      <4>1. (takes \in [TakeNumbers -> Take])'
        BY TypeStep DEF TypeInv, TypeOK
      <4>2. Written' \in [1..MaxTakes -> Int]
        BY <4>1, NumbersOfTake DEF Written, TakeNumbers
      <4> QED BY <4>2, SumsTyped
    <3>8. Sigma(Written', MaxTakes) = Sigma(Written, MaxTakes) + 1
      <4>1. take \in 1..MaxTakes /\ MaxTakes \in Nat
        BY <3>1, BoundsAssumption DEF TakeNumbers
      <4>2. Sigma(Written', MaxTakes) = Sigma(Written, MaxTakes) + Written'[take] - Written[take]
        BY <3>6, <3>7, <4>1, SigmaChange
      <4> QED BY <1>1, <3>5, <3>7, <4>1, <4>2
    <3> QED BY <1>1, <3>1, <3>8 DEF TotalInv
  <2> QED BY <1>4, <2>1, <2>2, <2>3, <2>4, <2>5 DEF ProcessLoop
<1>5. CASE CallerBegins \/ CallerContinues
  <2>1. UNCHANGED <<total, idle>>
    BY <1>5 DEF CallerBegins, CallerContinues, CallerFrame
  <2>2. ppc' \in {"idle", "observe", "write"} <=> ppc \in {"idle", "observe", "write"}
    BY <1>5 DEF CallerBegins, CallerContinues, StartTake, StopTake, MarkLastTake, Stop,
       ReadBaseline, ArmTake, DisarmTake, ReadDrops, EndTake, FinishStop, Start, LockInv
  <2> QED BY <1>2, <1>5, <2>1, <2>2, CallerTakes DEF TotalInv
<1> QED BY <1>3, <1>4, <1>5 DEF Next

\* Whenever the lock is free the display's counts are the lines given to the takes'
\* writers, take by take and in total (recorder.py:331-357 against snapshot).
THEOREM SnapshotAccounted == Spec => []SnapshotIsAccounted
<1>1. TypeInv /\ LockInv /\ CountInv /\ TotalInv => SnapshotIsAccounted
  <2> SUFFICES ASSUME TypeInv, LockInv, CountInv, TotalInv, LockFree PROVE SnapshotIsAccounted
    BY DEF SnapshotIsAccounted
  <2> DEFINE written[k \in 0..MaxTakes] ==
               IF k = 0 THEN 0 ELSE written[k - 1] + Len(takes[k].file)
  <2>1. ppc \notin {"idle", "observe", "write"}
    BY DEF LockInv, LockFree
  <2>2. \A k \in TakeNumbers : takes[k].count = Len(takes[k].file)
    <3> TAKE k \in TakeNumbers
    <3>1. takes[k].count = Len(takes[k].file) + 0
      BY <2>1 DEF CountInv
    <3>2. Len(takes[k].file) \in Nat
      BY TakeFields DEF TypeInv, TypeOK
    <3> QED BY <3>1, <3>2
  <2>3. MaxTakes \in Nat /\ Written \in [1..MaxTakes -> Int]
    BY SumsTyped, BoundsAssumption
  <2>4. written = [k \in 0..MaxTakes |-> IF k = 0 THEN 0 ELSE written[k - 1] + Written[k]]
    <3>1. PICK f : Adds(f, Written, MaxTakes)
      BY <2>3, SigmaAdds
    <3>2. \A k \in 1..MaxTakes : Written[k] = Len(takes[k].file)
      BY DEF Written, TakeNumbers
    <3>3. f = [k \in 0..MaxTakes |-> IF k = 0 THEN 0 ELSE f[k - 1] + Len(takes[k].file)]
      BY <3>1, <3>2 DEF Adds
    <3>4. written = [k \in 0..MaxTakes |->
                       IF k = 0 THEN 0 ELSE written[k - 1] + Len(takes[k].file)]
      BY <3>3
    <3> HIDE DEF written
    <3>5. \A k \in 0..MaxTakes :
              (IF k = 0 THEN 0 ELSE written[k - 1] + Len(takes[k].file)) =
              (IF k = 0 THEN 0 ELSE written[k - 1] + Written[k])
      BY <2>3, <3>2
    <3> QED BY <3>4, <3>5
  <2>5. written[MaxTakes] = Sigma(Written, MaxTakes)
    <3> HIDE DEF written
    <3> QED BY <2>3, <2>4, SigmaDefined
  <2>6. total = Len(idle) + Sigma(Written, MaxTakes)
    <3>1. Len(idle) \in Nat /\ Sigma(Written, MaxTakes) \in Int
      BY SumsTyped DEF TypeInv, TypeOK, ProcessorType
    <3> QED BY <2>1, <3>1 DEF TotalInv
  <2> QED BY <2>2, <2>5, <2>6 DEF SnapshotIsAccounted
<1>2. Init => FreshInv /\ TotalInv
  <2> SUFFICES ASSUME Init PROVE FreshInv /\ TotalInv
    OBVIOUS
  <2>1. FreshInv
    BY DEF Init, FreshInv
  <2>2. Sigma(Written, MaxTakes) = 0
    <3>1. \A k \in 1..MaxTakes : Written[k] = 0
      BY DEF Init, Written, UnusedTake, TakeNumbers
    <3> QED BY <3>1, TypeInit, SumsTyped, SigmaZero, BoundsAssumption
  <2> QED BY <2>1, <2>2 DEF Init, TotalInv
<1> QED BY TypeInit, TakeInit, CountInit, TypeStep, LockStep, TakeStep, CountStep, FreshStep,
        TotalStep, <1>1, <1>2, PTL DEF Spec

\* Only EndTake ends a take, the one stop_take has closed.
LEMMA EndsAtEnd ==
    ASSUME TypeInv, LockInv, TakeInv, [Next]_vars
    PROVE  \A k \in TakeNumbers : Ended(k)' => Ended(k) \/ (EndTake /\ k = ctake)
<1>1. /\ takes \in [TakeNumbers -> Take] /\ take \in TakeNumbers \cup {None}
      /\ ctake \in TakeNumbers \cup {None} /\ nextTake \in 1..(MaxTakes + 1)
  BY DEF TypeInv, TypeOK, CallerType
<1>2. CASE KernelDeliver \/ ReceiveLoop \/ Terminated \/ UNCHANGED vars
  <2>1. UNCHANGED takes
    BY <1>2 DEF KernelDeliver, ReceiveLoop, Terminated, vars, sharedVars
  <2> QED BY <2>1 DEF Ended
<1>3. CASE ProcessLoop
  <2>1. take' = take
    BY <1>3 DEF ProcessLoop, callerVars
  <2>2. TakeInv'
    BY TakeStep
  <2>3. take # None => ~Ended(take)'
    BY <2>1, <2>2 DEF TakeInv
  <2>4. \A k \in TakeNumbers : k # take => (Ended(k)' <=> Ended(k))
    BY <1>3, ProcessTakes DEF Ended
  <2>5. \A k \in TakeNumbers : k = take => k # None
    BY DEF TakeNumbers, None
  <2>6. ASSUME NEW k \in TakeNumbers, Ended(k)' PROVE Ended(k)
    <3>1. CASE k = take
      <4>1. take # None
        BY <2>5, <3>1
      <4>2. ~Ended(k)'
        BY <2>1, <2>3, <3>1, <4>1 DEF Ended
      <4> QED BY <2>6, <4>2
    <3> QED BY <2>4, <2>6, <3>1
  <2> QED BY <2>6
<1>4. CASE StartTake
  <2>1. nextTake \in TakeNumbers
    BY <1>1, <1>4, BoundsAssumption DEF StartTake, TakeNumbers
  <2> QED BY <1>1, <1>4, <2>1, TakeStarts DEF StartTake, Ended
<1>5. CASE ReadDrops
  <2> DEFINE d == [known |-> SocketDrops.known, n |-> SocketDrops.n - dropsBase]
  <2>1. takes' = [takes EXCEPT ![ctake] = [takes[ctake] EXCEPT !.drops = d]]
    BY <1>5 DEF ReadDrops
  <2> HIDE DEF d
  <2>2. \A k \in TakeNumbers : takes'[k].status = takes[k].status
    BY <1>1, <2>1, TakeKept
  <2> QED BY <2>2 DEF Ended
<1>6. CASE EndTake
  BY <1>1, <1>6 DEF EndTake, Ended
<1>7. CASE MarkLastTake
  <2> DEFINE u(t) == WithMeta([t EXCEPT !.bad = TRUE])
  <2>1. takes' = [takes EXCEPT ![LastTake] = u(takes[LastTake])]
    BY <1>7 DEF MarkLastTake
  <2>2. \A t \in Take : u(t).status = t.status
    BY MetaRewritten
  <2> HIDE DEF u
  <2>3. \A k \in TakeNumbers : takes'[k].status = takes[k].status
    BY <1>1, <2>1, <2>2
  <2> QED BY <2>3 DEF Ended
<1>8. CASE Start \/ StopTake \/ Stop \/ ReadBaseline \/ FinishStop \/ ArmTake \/ DisarmTake
  <2>1. UNCHANGED takes
    BY <1>8 DEF Start, StopTake, Stop, ReadBaseline, FinishStop, ArmTake, DisarmTake
  <2> QED BY <2>1 DEF Ended
<1> QED BY <1>2, <1>3, <1>4, <1>5, <1>6, <1>7, <1>8 DEF Next, CallerBegins, CallerContinues

\* A drop counts for the take that is open, if one is.
LEMMA DropKernel ==
    TypeInv /\ TakeInv /\ DropInv /\ KernelDeliver => DropInv'
<1> SUFFICES ASSUME TypeInv, TakeInv, DropInv, KernelDeliver PROVE DropInv'
  OBVIOUS
<1>1. UNCHANGED <<takes, take, cpc, ctake, nextTake, dropsBase>>
  BY DEF KernelDeliver, callerVars, sharedVars
<1>2. Reported' = Reported /\ \A k \in TakeNumbers : Ended(k)' <=> Ended(k)
  BY <1>1 DEF Reported, Ended
<1>3. CASE UNCHANGED <<kdrops, lostArmed>>
  BY <1>1, <1>2, <1>3 DEF DropInv, SocketDrops
<1>4. CASE ~UNCHANGED <<kdrops, lostArmed>>
  <2>1. /\ kdrops' = kdrops + 1
        /\ lostArmed' = IF take = None THEN lostArmed
                        ELSE [lostArmed EXCEPT ![take] = lostArmed[take] + 1]
    BY <1>4 DEF KernelDeliver
  <2>2. /\ kdrops \in Nat /\ dropsBase \in Nat /\ lostArmed \in [TakeNumbers -> Nat]
        /\ take \in TakeNumbers \cup {None} /\ nextTake \in 1..(MaxTakes + 1)
        /\ Sigma(Reported, MaxTakes) \in Int
    BY SumsTyped DEF TypeInv, TypeOK, NetType, CallerType
  <2>3. SocketDrops'.n = SocketDrops.n + (IF DropsReadable THEN 1 ELSE 0) /\ SocketDrops.n \in Nat
    BY <2>1, <2>2, PlatformAssumption DEF SocketDrops
  <2>4. \A k \in TakeNumbers : k # take => lostArmed'[k] = lostArmed[k]
    BY <2>1, <2>2
  <2>5. take # None => /\ take \in TakeNumbers /\ take = nextTake - 1 /\ ~Ended(take)
                       /\ lostArmed'[take] = lostArmed[take] + 1 /\ lostArmed[take] \in Nat
                       /\ cpc \in {"idle", "disarm"}
    BY <2>1, <2>2 DEF DropInv, TakeInv
  <2>6. \A k \in TakeNumbers : k >= nextTake => lostArmed'[k] = 0
    <3>1. \A k \in TakeNumbers : k >= nextTake => k # take
      BY <2>2, <2>5 DEF TakeNumbers, None
    <3> QED BY <2>4, <3>1 DEF DropInv
  <2>7. cpc = "baseline" => takes[nextTake - 1].drops.n = 0 /\ lostArmed'[nextTake - 1] = 0
    BY <2>1, <2>5 DEF DropInv
  <2>8. ASSUME DropsReadable, cpc \in {"arm", "drops"} \/ take # None
        PROVE  lostArmed'[nextTake - 1] <= SocketDrops'.n - dropsBase
    <3>1. lostArmed[nextTake - 1] <= SocketDrops.n - dropsBase
      BY <2>8 DEF DropInv
    <3>2. SocketDrops'.n = SocketDrops.n + 1
      BY <2>3, <2>8
    <3>3. CASE take # None
      BY <2>2, <2>3, <2>5, <3>1, <3>2, <3>3
    <3>4. CASE take = None
      <4>1. lostArmed' = lostArmed /\ nextTake - 1 \in TakeNumbers
        <5>1. lostArmed' = lostArmed
          BY <2>1, <3>4
        <5>2. nextTake > 1
          <6>1. CASE cpc = "arm"
            BY <6>1 DEF TypeInv, StartedBeforeArmed
          <6>2. CASE cpc = "drops"
            <7>1. ctake \in TakeNumbers \cup {None} /\ ctake # None /\ ctake = nextTake - 1
              BY <6>2 DEF TypeInv, TypeOK, CallerType, TakeInv, DropInv
            <7> QED BY <2>2, <7>1 DEF TakeNumbers
          <6> QED BY <2>8, <3>4, <6>1, <6>2
        <5> QED BY <2>2, <5>1, <5>2, BoundsAssumption DEF TakeNumbers
      <4>2. lostArmed[nextTake - 1] \in Nat
        BY <2>2, <4>1
      <4> QED BY <2>2, <2>3, <3>1, <3>2, <4>1, <4>2
    <3> QED BY <3>3, <3>4
  <2>9. ASSUME NEW k \in TakeNumbers, Ended(k) \/ (cpc = "end" /\ k = ctake), takes[k].drops.known
        PROVE  lostArmed'[k] <= takes[k].drops.n
    <3>1. k # take
      BY <2>5, <2>9 DEF None, TakeNumbers
    <3> QED BY <2>4, <2>9, <3>1 DEF DropInv
  <2>10. dropsBase <= SocketDrops'.n /\ Sigma(Reported, MaxTakes) <= SocketDrops'.n
    BY <2>2, <2>3 DEF DropInv
  <2> QED BY <1>1, <1>2, <2>6, <2>7, <2>8, <2>9, <2>10 DEF DropInv
<1> QED BY <1>3, <1>4

\* A step that leaves the counter, the baseline and the takes' drops alone, and ends no
\* take, keeps DropInv, whatever the caller's control point does inside a take.
LEMMA DropKept ==
    ASSUME DropInv, UNCHANGED <<kdrops, lostArmed, dropsBase, nextTake>>,
           \A k \in TakeNumbers : takes'[k].drops = takes[k].drops,
           nextTake - 1 \in TakeNumbers \cup {0},
           \A k \in TakeNumbers : Ended(k)' \/ (cpc' = "end" /\ k = ctake') =>
               Ended(k) \/ (cpc = "end" /\ k = ctake),
           take' # None => take' = nextTake - 1 /\ nextTake - 1 \in TakeNumbers,
           cpc' \in {"drops", "end"} => ctake' = nextTake - 1,
           cpc' = "baseline" => cpc = "baseline" /\ nextTake - 1 \in TakeNumbers,
           cpc' \in {"arm", "drops"} \/ take' # None =>
               /\ cpc \in {"arm", "drops"} \/ take # None
               /\ nextTake - 1 \in TakeNumbers
    PROVE  DropInv'
<1>1. Reported' = Reported /\ SocketDrops' = SocketDrops
  BY DEF Reported, SocketDrops
<1>2. nextTake - 1 \in TakeNumbers => takes'[nextTake - 1].drops = takes[nextTake - 1].drops
  OBVIOUS
<1> QED BY <1>1, <1>2 DEF DropInv

\* The baseline is read before the take is armed and the counter again after it is
\* disarmed, so what lies between is all that was lost while it was armed, and no take
\* before it reported any of that.
LEMMA DropCall ==
    ASSUME TypeInv, LockInv, TakeInv, FreshInv, DropInv, CallerBegins \/ CallerContinues
    PROVE  DropInv'
<1>1. /\ takes \in [TakeNumbers -> Take] /\ take \in TakeNumbers \cup {None}
      /\ ctake \in TakeNumbers \cup {None} /\ nextTake \in 1..(MaxTakes + 1)
      /\ kdrops \in Nat /\ dropsBase \in Nat /\ lostArmed \in [TakeNumbers -> Nat]
      /\ MaxTakes \in Nat /\ Sigma(Reported, MaxTakes) \in Int
  BY SumsTyped, BoundsAssumption DEF TypeInv, TypeOK, CallerType, NetType
<1>2. UNCHANGED <<kdrops, lostArmed>> /\ SocketDrops' = SocketDrops /\ SocketDrops.n \in Nat
  BY <1>1 DEF CallerBegins, CallerContinues, CallerFrame, SocketDrops
<1>3. /\ ~ReadDrops => \A k \in TakeNumbers : takes'[k].drops = takes[k].drops
      /\ \A k \in TakeNumbers : Ended(k)' => Ended(k) \/ (EndTake /\ k = ctake)
  BY CallerTakes, EndsAtEnd DEF Next
<1>4. nextTake - 1 \in TakeNumbers \cup {0}
  BY <1>1 DEF TakeNumbers
<1>5. cpc \in {"baseline", "arm", "drops", "end"} \/ take # None => nextTake - 1 \in TakeNumbers
  <2>1. CASE cpc \in {"baseline", "arm"}
    BY <1>1, <2>1 DEF TypeInv, StartedBeforeArmed, TakeNumbers
  <2>2. CASE cpc \in {"drops", "end"}
    <3>1. ctake # None /\ ctake = nextTake - 1
      BY <2>2 DEF TakeInv, DropInv
    <3> QED BY <1>1, <3>1
  <2>3. CASE take # None
    <3>1. take = nextTake - 1
      BY <2>3 DEF DropInv
    <3> QED BY <1>1, <2>3, <3>1
  <2> QED BY <2>1, <2>2, <2>3
<1>6. CASE StartTake
  <2>1. /\ nextTake \in TakeNumbers /\ nextTake' = nextTake + 1 /\ cpc' = "baseline"
        /\ take' = None /\ UNCHANGED <<dropsBase, ctake>> /\ ~ReadDrops /\ ~EndTake
    BY <1>1, <1>6 DEF StartTake, TakeNumbers, ReadDrops, EndTake
  <2>2. \A k \in TakeNumbers : takes'[k].drops = takes[k].drops /\ (Ended(k)' => Ended(k))
    BY <1>3, <2>1
  <2>3. Reported' = Reported
    BY <2>2 DEF Reported
  <2>4. takes[nextTake].drops.n = 0 /\ lostArmed[nextTake] = 0
    <3>1. takes[nextTake] = UnusedTake /\ nextTake >= nextTake
      BY <1>1, <2>1 DEF FreshInv
    <3> QED BY <2>1, <3>1 DEF UnusedTake, DropInv
  <2>5. takes'[nextTake' - 1].drops.n = 0 /\ lostArmed'[nextTake' - 1] = 0
    BY <1>1, <1>2, <2>1, <2>2, <2>4
  <2>6. \A k \in TakeNumbers : k >= nextTake' => lostArmed'[k] = 0
    BY <1>1, <1>2, <2>1 DEF DropInv, TakeNumbers
  <2> QED BY <1>2, <2>1, <2>2, <2>3, <2>5, <2>6 DEF DropInv
<1>7. CASE ReadBaseline
  <2>1. /\ dropsBase' = SocketDrops.n /\ cpc = "baseline" /\ cpc' = "arm"
        /\ UNCHANGED <<takes, take, ctake, nextTake>> /\ nextTake - 1 \in TakeNumbers
    BY <1>5, <1>7 DEF ReadBaseline
  <2>2. Reported' = Reported /\ \A k \in TakeNumbers : Ended(k)' <=> Ended(k)
    BY <2>1 DEF Reported, Ended
  <2>3. /\ takes[nextTake - 1].drops.n = 0 /\ lostArmed[nextTake - 1] = 0
        /\ Sigma(Reported, MaxTakes) <= SocketDrops.n
    BY <2>1 DEF DropInv
  <2>4. dropsBase' <= SocketDrops'.n /\ lostArmed'[nextTake' - 1] <= SocketDrops'.n - dropsBase'
    BY <1>2, <2>1, <2>3
  <2> QED BY <1>2, <2>1, <2>2, <2>3, <2>4 DEF DropInv
<1>8. CASE ArmTake \/ DisarmTake \/ StopTake \/ Stop \/ FinishStop \/ Start \/ MarkLastTake
  <2>1. UNCHANGED <<dropsBase, nextTake>> /\ ~ReadDrops /\ ~EndTake
    BY <1>8 DEF ArmTake, DisarmTake, StopTake, Stop, FinishStop, Start, MarkLastTake, ReadDrops,
       EndTake
  <2>2. cpc' # "end" /\ cpc' # "baseline"
    BY <1>8 DEF ArmTake, DisarmTake, StopTake, Stop, FinishStop, Start, MarkLastTake
  <2>3. /\ take' # None => take' = nextTake - 1 /\ nextTake - 1 \in TakeNumbers
        /\ cpc' \in {"drops", "end"} => ctake' = nextTake - 1
        /\ cpc' \in {"arm", "drops"} \/ take' # None =>
              (cpc \in {"arm", "drops"} \/ take # None) /\ nextTake - 1 \in TakeNumbers
    <3>1. CASE ArmTake
      BY <1>5, <3>1 DEF ArmTake
    <3>2. CASE DisarmTake
      BY <1>5, <3>2 DEF DisarmTake, DropInv
    <3>3. CASE StopTake \/ Stop \/ FinishStop \/ Start \/ MarkLastTake
      BY <1>5, <3>3 DEF StopTake, Stop, FinishStop, Start, MarkLastTake, DropInv
    <3> QED BY <1>8, <3>1, <3>2, <3>3
  <2>4. /\ \A k \in TakeNumbers : takes'[k].drops = takes[k].drops
        /\ \A k \in TakeNumbers : Ended(k)' \/ (cpc' = "end" /\ k = ctake') =>
               Ended(k) \/ (cpc = "end" /\ k = ctake)
    BY <1>3, <2>1, <2>2
  <2> QED BY <1>2, <1>4, <2>1, <2>2, <2>3, <2>4, DropKept
<1>9. CASE EndTake
  <2>1. /\ UNCHANGED <<dropsBase, nextTake, take>> /\ ~ReadDrops /\ cpc = "end"
        /\ cpc' \in {"setStop", "idle"}
    BY <1>9 DEF EndTake, ReadDrops
  <2>2. take = None
    BY <2>1 DEF TakeInv
  <2>3. /\ \A k \in TakeNumbers : takes'[k].drops = takes[k].drops
        /\ \A k \in TakeNumbers : Ended(k)' \/ (cpc' = "end" /\ k = ctake') =>
               Ended(k) \/ (cpc = "end" /\ k = ctake)
    BY <1>3, <2>1
  <2> QED BY <1>2, <1>4, <2>1, <2>2, <2>3, DropKept
<1>10. CASE ReadDrops
  <2> DEFINE d == [known |-> SocketDrops.known, n |-> SocketDrops.n - dropsBase]
  <2>1. /\ cpc = "drops" /\ cpc' = "end" /\ ctake \in TakeNumbers /\ ctake = nextTake - 1
        /\ UNCHANGED <<take, ctake, dropsBase, nextTake>> /\ take = None /\ ~EndTake
    BY <1>1, <1>10 DEF ReadDrops, EndTake, TakeInv, DropInv
  <2>2. takes' = [takes EXCEPT ![ctake] = [takes[ctake] EXCEPT !.drops = d]]
    BY <1>10 DEF ReadDrops
  <2>3. d.known = DropsReadable /\ d.n = SocketDrops.n - dropsBase
    BY DEF SocketDrops
  <2> HIDE DEF d
  <2>4. takes'[ctake].drops = d /\ \A k \in TakeNumbers : k # ctake => takes'[k] = takes[k]
    BY <1>1, <2>1, <2>2, DropsKept
  <2>5. /\ takes[ctake].drops.n = 0 /\ Sigma(Reported, MaxTakes) <= dropsBase
        /\ DropsReadable => lostArmed[ctake] <= SocketDrops.n - dropsBase
    BY <2>1 DEF DropInv
  <2>6. Sigma(Reported', MaxTakes) <= SocketDrops.n
    <3>1. Reported' \in [1..MaxTakes -> Int] /\ Reported \in [1..MaxTakes -> Int]
      <4>1. (takes \in [TakeNumbers -> Take])'
        BY TypeCall DEF TypeInv, TypeOK
      <4>2. Reported' \in [1..MaxTakes -> Int]
        BY <4>1, NumbersOfTake DEF Reported, TakeNumbers
      <4> QED BY <4>2, SumsTyped
    <3>2. ctake \in 1..MaxTakes /\ \A k \in 1..MaxTakes : k # ctake => Reported'[k] = Reported[k]
      BY <2>1, <2>4 DEF TakeNumbers, Reported
    <3>3. Reported'[ctake] = SocketDrops.n - dropsBase /\ Reported[ctake] = 0
      BY <2>1, <2>3, <2>4, <2>5 DEF Reported
    <3>4. Sigma(Reported', MaxTakes)
            = Sigma(Reported, MaxTakes) + Reported'[ctake] - Reported[ctake]
      BY <1>1, <3>1, <3>2, SigmaChange
    <3> QED BY <1>1, <1>2, <2>5, <3>3, <3>4
  <2>7. ASSUME NEW k \in TakeNumbers, Ended(k)' \/ k = ctake, takes'[k].drops.known
        PROVE  lostArmed[k] <= takes'[k].drops.n
    <3>1. CASE k = ctake
      BY <2>3, <2>4, <2>5, <2>7, <3>1
    <3>2. CASE k # ctake
      BY <1>3, <2>1, <2>4, <2>7, <3>2 DEF DropInv
    <3> QED BY <3>1, <3>2
  <2> QED BY <1>2, <2>1, <2>6, <2>7 DEF DropInv
<1> QED BY <1>6, <1>7, <1>8, <1>9, <1>10 DEF CallerBegins, CallerContinues

LEMMA DropStep ==
    TypeInv /\ LockInv /\ TakeInv /\ FreshInv /\ DropInv /\ [Next]_vars => DropInv'
<1> SUFFICES ASSUME TypeInv, LockInv, TakeInv, FreshInv, DropInv, [Next]_vars PROVE DropInv'
  OBVIOUS
<1>1. CASE ReceiveLoop \/ Terminated \/ UNCHANGED vars
  <2>1. UNCHANGED <<kdrops, lostArmed, dropsBase, nextTake, take, cpc, ctake, takes>>
    BY <1>1 DEF ReceiveLoop, Terminated, vars, netVars, callerVars, sharedVars
  <2> QED BY <2>1 DEF DropInv, Reported, SocketDrops, Ended
<1>2. CASE ProcessLoop
  <2>1. UNCHANGED <<kdrops, lostArmed, dropsBase, nextTake, take, cpc, ctake>>
    BY <1>2 DEF ProcessLoop, netVars, callerVars
  <2>2. \A k \in TakeNumbers : takes'[k].drops = takes[k].drops /\ (Ended(k)' => Ended(k))
    <3>1. ~EndTake
      BY <1>2, <2>1 DEF EndTake
    <3> QED BY <1>2, <3>1, ProcessTakes, EndsAtEnd
  <2>3. Reported' = Reported /\ SocketDrops' = SocketDrops
    BY <2>1, <2>2 DEF Reported, SocketDrops
  <2>4. cpc \in {"baseline", "arm", "drops"} \/ take # None => nextTake - 1 \in TakeNumbers
    <3>1. /\ take \in TakeNumbers \cup {None} /\ ctake \in TakeNumbers \cup {None}
          /\ nextTake \in 1..(MaxTakes + 1) /\ MaxTakes \in Nat
      BY BoundsAssumption DEF TypeInv, TypeOK, CallerType
    <3>2. CASE cpc \in {"baseline", "arm"}
      BY <3>1, <3>2 DEF TypeInv, StartedBeforeArmed, TakeNumbers
    <3>3. CASE cpc = "drops" \/ take # None
      BY <3>1, <3>3 DEF TakeInv, DropInv
    <3> QED BY <3>2, <3>3
  <2>5. nextTake - 1 \in TakeNumbers => takes'[nextTake - 1].drops = takes[nextTake - 1].drops
    BY <2>2
  <2> QED BY <2>1, <2>2, <2>3, <2>4, <2>5 DEF DropInv
<1> QED BY <1>1, <1>2, DropKernel, DropCall DEF Next

\* Nothing has been dropped or reported yet.
LEMMA DropInit == Init => FreshInv /\ DropInv
<1> SUFFICES ASSUME Init PROVE FreshInv /\ DropInv
  OBVIOUS
<1>1. FreshInv
  BY DEF Init, FreshInv
<1>2. Sigma(Reported, MaxTakes) = 0
  <2>1. \A k \in 1..MaxTakes : Reported[k] = 0
    BY DEF Init, Reported, UnusedTake, TakeNumbers
  <2> QED BY <2>1, TypeInit, SumsTyped, SigmaZero, BoundsAssumption
<1>3. \A k \in TakeNumbers : ~Ended(k) /\ lostArmed[k] = 0
  BY DEF Init, Ended, UnusedTake
<1> QED BY <1>1, <1>2, <1>3 DEF Init, DropInv, SocketDrops

\* What the kernel discarded while a take was armed is in its socket_drops, and no drop
\* is reported twice (recorder.py:183-210).
THEOREM DropsReported == Spec => []DropsInTakeAreReported
<1>1. TypeInv /\ DropInv => DropsInTakeAreReported
  <2> SUFFICES ASSUME TypeInv, DropInv PROVE DropsInTakeAreReported
    OBVIOUS
  <2> DEFINE reported[k \in 0..MaxTakes] ==
               IF k = 0 THEN 0 ELSE reported[k - 1] + takes[k].drops.n
  <2>1. MaxTakes \in Nat /\ Reported \in [1..MaxTakes -> Int]
    BY SumsTyped, BoundsAssumption
  <2>2. reported = [k \in 0..MaxTakes |-> IF k = 0 THEN 0 ELSE reported[k - 1] + Reported[k]]
    <3>1. PICK f : Adds(f, Reported, MaxTakes)
      BY <2>1, SigmaAdds
    <3>2. \A k \in 1..MaxTakes : Reported[k] = takes[k].drops.n
      BY DEF Reported, TakeNumbers
    <3>3. f = [k \in 0..MaxTakes |-> IF k = 0 THEN 0 ELSE f[k - 1] + takes[k].drops.n]
      BY <3>1, <3>2 DEF Adds
    <3>4. reported = [k \in 0..MaxTakes |->
                        IF k = 0 THEN 0 ELSE reported[k - 1] + takes[k].drops.n]
      BY <3>3
    <3> HIDE DEF reported
    <3>5. \A k \in 0..MaxTakes :
              (IF k = 0 THEN 0 ELSE reported[k - 1] + takes[k].drops.n) =
              (IF k = 0 THEN 0 ELSE reported[k - 1] + Reported[k])
      BY <2>1, <3>2
    <3> QED BY <3>4, <3>5
  <2>3. reported[MaxTakes] = Sigma(Reported, MaxTakes)
    <3> HIDE DEF reported
    <3> QED BY <2>1, <2>2, SigmaDefined
  <2>4. Sigma(Reported, MaxTakes) <= kdrops
    <3>1. SocketDrops.n <= kdrops /\ SocketDrops.n \in Nat /\ kdrops \in Nat
      BY DEF SocketDrops, TypeInv, TypeOK, NetType
    <3> QED BY <3>1, SumsTyped DEF DropInv
  <2>5. \A k \in TakeNumbers : Ended(k) /\ takes[k].drops.known => lostArmed[k] <= takes[k].drops.n
    BY DEF DropInv
  <2> QED BY <2>3, <2>4, <2>5 DEF DropsInTakeAreReported
<1> QED BY TypeInit, TakeInit, TypeStep, LockStep, TakeStep, FreshStep, DropInit, DropStep, <1>1,
        PTL DEF Spec

-----------------------------------------------------------------------------
(* The refinement of TakeLog *)

\* A datagram is in hand exactly at the control points between taking it up and
\* being done with it.
HeldInv ==
    /\ rheld # None <=> rpc = "put"
    /\ pheld # None <=> ppc \in Handling \cup {"malformed", "malformedLock"}
    /\ pheld # None => ppart > 0

\* The messages of rec from message `from` of datagram lo on.
Rest(rec, lo, from) ==
    {m \in [id : Nat, part : Nat] :
        /\ m.id \in lo..Len(rec)
        /\ m.part \in (IF m.id = lo THEN from ELSE 1)..rec[m.id].size}

\* One more datagram adds its messages at the end.
LEMMA RestExtends ==
    ASSUME NEW rec \in Seq([size : Sizes, stamp : Nat]), NEW d \in [size : Sizes, stamp : Nat],
           NEW lo \in 1..(Len(rec) + 1), NEW from \in Nat, from > 0,
           lo = Len(rec) + 1 => from = 1
    PROVE  Rest(Append(rec, d), lo, from) =
             Rest(rec, lo, from) \cup {[id |-> Len(rec) + 1, part |-> p] : p \in 1..d.size}
<1> DEFINE new == Append(rec, d)
           added == {[id |-> Len(rec) + 1, part |-> p] : p \in 1..d.size}
<1>1. /\ Len(new) = Len(rec) + 1 /\ Len(rec) \in Nat /\ new[Len(rec) + 1] = d
      /\ \A i \in 1..Len(rec) : new[i] = rec[i]
  BY AppendProperties
<1>2. \A m : m \in added <=> /\ m \in [id : Nat, part : Nat]
                             /\ m.id = Len(rec) + 1 /\ m.part \in 1..d.size
  BY <1>1
<1> HIDE DEF new, added
<1>3. \A m \in [id : Nat, part : Nat] :
          m \in Rest(new, lo, from) <=> m \in Rest(rec, lo, from) \/ m \in added
  <2> TAKE m \in [id : Nat, part : Nat]
  <2>1. CASE m.id = Len(rec) + 1
    <3>1. m \notin Rest(rec, lo, from)
      BY <1>1, <2>1 DEF Rest
    <3>2. m \in Rest(new, lo, from) <=> m.part \in 1..d.size
      BY <1>1, <2>1 DEF Rest
    <3> QED BY <1>2, <2>1, <3>1, <3>2
  <2>2. CASE m.id # Len(rec) + 1
    <3>1. m \notin added
      BY <1>2, <2>2
    <3>2. m.id \in lo..Len(new) <=> m.id \in lo..Len(rec)
      BY <1>1, <2>2
    <3>3. m.id \in lo..Len(rec) => new[m.id] = rec[m.id]
      BY <1>1
    <3> QED BY <3>1, <3>2, <3>3 DEF Rest
  <2> QED BY <2>1, <2>2
<1>4. Rest(new, lo, from) \subseteq [id : Nat, part : Nat]
      /\ Rest(rec, lo, from) \subseteq [id : Nat, part : Nat]
      /\ added \subseteq [id : Nat, part : Nat]
  BY <1>2 DEF Rest
<1>5. Rest(new, lo, from) = Rest(rec, lo, from) \cup added
  BY <1>3, <1>4
<1> QED BY <1>5 DEF new, added

\* A datagram with nothing left is passed over.
LEMMA RestNext ==
    ASSUME NEW rec \in Seq([size : Sizes, stamp : Nat]), NEW lo \in 1..Len(rec),
           NEW from \in Nat, from > rec[lo].size
    PROVE  Rest(rec, lo, from) = Rest(rec, lo + 1, 1)
<1>1. rec[lo].size \in Nat
  <2>1. rec[lo] \in [size : Sizes, stamp : Nat]
    BY ElementOfSeq
  <2> QED BY <2>1, SizesAssumption
<1>2. \A m \in [id : Nat, part : Nat] : m \in Rest(rec, lo, from) <=> m \in Rest(rec, lo + 1, 1)
  <2> TAKE m \in [id : Nat, part : Nat]
  <2>1. CASE m.id = lo
    BY <1>1, <2>1 DEF Rest
  <2>2. CASE m.id # lo
    <3>1. m.id \in lo..Len(rec) <=> m.id \in (lo + 1)..Len(rec)
      BY <2>2
    <3> QED BY <2>2, <3>1 DEF Rest
  <2> QED BY <2>1, <2>2
<1>3. /\ Rest(rec, lo, from) \subseteq [id : Nat, part : Nat]
      /\ Rest(rec, lo + 1, 1) \subseteq [id : Nat, part : Nat]
  BY DEF Rest
<1> QED BY <1>2, <1>3

\* The first message of the rest is the one TakeLog delivers.
LEMMA RestDeliver ==
    ASSUME NEW rec \in Seq([size : Sizes, stamp : Nat]), NEW lo \in 1..Len(rec),
           NEW from \in 1..rec[lo].size, rec[lo].size \in Nat
    PROVE  LET m == [id |-> lo, part |-> from]
           IN  /\ m \in Rest(rec, lo, from)
               /\ \A n \in Rest(rec, lo, from) \ {m} : Abstract!Earlier(m, n)
               /\ Rest(rec, lo, from) \ {m} = Rest(rec, lo, from + 1)
<1> DEFINE m == [id |-> lo, part |-> from]
<1>1. m \in Rest(rec, lo, from)
  BY DEF Rest
<1>2. \A n \in [id : Nat, part : Nat] : n = m <=> n.id = lo /\ n.part = from
  OBVIOUS
<1>3. \A n \in Rest(rec, lo, from) \ {m} : Abstract!Earlier(m, n)
  <2> TAKE n \in Rest(rec, lo, from) \ {m}
  <2>1. n \in [id : Nat, part : Nat] /\ n.id \in lo..Len(rec) /\ n # m
        /\ (n.id = lo => n.part \in from..rec[lo].size)
    BY DEF Rest
  <2>2. ~(n.id = lo /\ n.part = from)
    BY <1>2, <2>1
  <2>3. n.id > lo \/ (n.id = lo /\ n.part > from)
    BY <2>1, <2>2
  <2> QED BY <2>3 DEF Abstract!Earlier
<1>4. \A n \in [id : Nat, part : Nat] :
          n \in Rest(rec, lo, from + 1) <=> n \in Rest(rec, lo, from) /\ n # m
  <2> TAKE n \in [id : Nat, part : Nat]
  <2>1. CASE n.id = lo
    BY <1>2, <2>1 DEF Rest
  <2>2. CASE n.id # lo
    BY <1>2, <2>2 DEF Rest
  <2> QED BY <2>1, <2>2
<1>5. Rest(rec, lo, from) \ {m} = Rest(rec, lo, from + 1)
  <2>1. /\ Rest(rec, lo, from) \subseteq [id : Nat, part : Nat]
        /\ Rest(rec, lo, from + 1) \subseteq [id : Nat, part : Nat]
    BY DEF Rest
  <2> QED BY <1>4, <2>1
<1> QED BY <1>1, <1>3, <1>5

\* HeldInv holds at first, and the loops take up and lay down a datagram where they
\* change control point.
LEMMA HeldInit == Init => HeldInv
BY DEF Init, HeldInv, None, Handling

LEMMA HeldStep == TypeInv /\ LockInv /\ FlowInv /\ HeldInv /\ [Next]_vars => HeldInv'
<1> SUFFICES ASSUME TypeInv, LockInv, FlowInv, HeldInv, [Next]_vars PROVE HeldInv'
  OBVIOUS
<1>1. /\ Len(received) \in Nat /\ queue \in Seq(Nat) /\ pheld \in Nat /\ ppart \in Nat
  BY DEF TypeInv, TypeOK, ReceiverType, ProcessorType
<1>2. CASE KernelDeliver \/ Terminated \/ UNCHANGED vars
  <2>1. UNCHANGED <<rpc, rheld, ppc, pheld, ppart>>
    BY <1>2 DEF KernelDeliver, Terminated, vars, recvVars, procVars
  <2> QED BY <2>1 DEF HeldInv
<1>3. CASE ReceiveLoop
  <2>1. UNCHANGED <<ppc, pheld, ppart>>
    BY <1>3 DEF ReceiveLoop, procVars
  <2> QED BY <1>1, <1>3, <2>1 DEF ReceiveLoop, TestStop, RecvFrom, RecvNothing, QueuePut,
          HeldInv, None
<1>4. CASE ProcessLoop
  <2>1. UNCHANGED <<rpc, rheld>>
    BY <1>4 DEF ProcessLoop, recvVars
  <2>2. CASE GetDatagram
    <3>1. queue # <<>> /\ pheld' = queue[1] /\ ppart' = 1 /\ 1 \in 1..Len(queue)
      BY <1>1, <2>2 DEF GetDatagram
    <3>2. queue[1] = Pulled + 1 /\ Pulled >= 0 /\ Pulled \in Int
      BY <1>1, <3>1 DEF FlowInv, Pulled
    <3>3. pheld' # None
      BY <3>1, <3>2 DEF None
    <3> QED BY <2>1, <2>2, <3>1, <3>3 DEF GetDatagram, HeldInv, Handling
  <2>3. CASE GetEmpty \/ CountMalformed \/ TakeMalformed \/ AcquireLock \/ CountMessage
             \/ ObserveTake
    BY <2>1, <2>3 DEF GetEmpty, CountMalformed, TakeMalformed, AcquireLock, CountMessage,
       ObserveTake, HeldInv, Handling
  <2>4. CASE ObserveIdle \/ WriteRecord
    BY <1>1, <2>1, <2>4 DEF ObserveIdle, WriteRecord, ReleaseLock, HeldInv, Handling
  <2> QED BY <1>4, <2>2, <2>3, <2>4 DEF ProcessLoop
<1>5. CASE CallerBegins \/ CallerContinues
  <2>1. UNCHANGED <<rheld, pheld, ppart>>
    BY <1>5 DEF CallerBegins, CallerContinues, CallerFrame
  <2>2. CASE Start
    BY <2>1, <2>2 DEF Start, HeldInv, LockInv, FlowInv, Handling
  <2>3. CASE ~Start
    <3>1. UNCHANGED <<rpc, ppc>>
      BY <1>5, <2>3 DEF CallerBegins, CallerContinues, StartTake, StopTake, MarkLastTake,
         Stop, ReadBaseline, ArmTake, DisarmTake, ReadDrops, EndTake, FinishStop
    <3> QED BY <2>1, <3>1 DEF HeldInv
  <2> QED BY <2>2, <2>3
<1> QED BY <1>2, <1>3, <1>4, <1>5 DEF Next

\* Where the undelivered messages begin.
Waiting ==
    IF pheld # None THEN Rest(received, pheld, ppart) ELSE Rest(received, Pulled + 1, 1)

NothingLost == Pending = Waiting

\* Hands, queue and receiver together hold what has not been delivered.
LEMMA PendingWaits == TypeInv /\ FlowInv /\ HeldInv => Pending = Waiting
<1> SUFFICES ASSUME TypeInv, FlowInv, HeldInv PROVE Pending = Waiting
  OBVIOUS
<1>1. /\ Len(received) \in Nat /\ queue \in Seq(Nat) /\ Len(queue) \in Nat
      /\ pheld \in Nat /\ ppart \in Nat /\ rheld \in Nat
  BY DEF TypeInv, TypeOK, ReceiverType, ProcessorType
<1>2. PICK p \in Nat : p = Pulled
  <2>1. Pulled \in Nat
    BY <1>1 DEF FlowInv, Pulled
  <2> QED BY <2>1
<1>3. PICK put \in {0, 1} : put = IF rpc = "put" THEN 1 ELSE 0
  OBVIOUS
<1>4. Len(received) = p + Len(queue) + put
  BY <1>1, <1>2, <1>3 DEF Pulled
<1>5. /\ rheld # None => put = 1 /\ rheld = Len(received)
      /\ put = 1 => rheld # None
  BY <1>3 DEF HeldInv, FlowInv
<1>6. pheld # None => pheld = p /\ p > 0 /\ ppart > 0
  BY <1>2 DEF HeldInv, FlowInv
<1>7. \A j \in 1..Len(queue) : queue[j] = p + j
  BY <1>2 DEF FlowInv
<1>8. \A id \in Nat, from \in Nat : from > 0 =>
         \A m : m \in MessagesOf(id, from) <=>
                  /\ m \in [id : Nat, part : Nat]
                  /\ m.id = id /\ m.part \in from..SizeOf(id)
  BY DEF MessagesOf
<1>9. \A m : m \in Pending <=>
          \/ pheld # None /\ m \in MessagesOf(pheld, ppart)
          \/ \E j \in 1..Len(queue) : m \in MessagesOf(queue[j], 1)
          \/ rheld # None /\ m \in MessagesOf(rheld, 1)
  BY DEF Pending
<1>10. \A m : (\E j \in 1..Len(queue) : m \in MessagesOf(queue[j], 1)) <=>
                 /\ m \in [id : Nat, part : Nat]
                 /\ m.id \in (p + 1)..(p + Len(queue)) /\ m.part \in 1..SizeOf(m.id)
  <2> TAKE m
  <2>1. ASSUME NEW j \in 1..Len(queue), m \in MessagesOf(queue[j], 1)
        PROVE  /\ m \in [id : Nat, part : Nat]
               /\ m.id \in (p + 1)..(p + Len(queue)) /\ m.part \in 1..SizeOf(m.id)
    <3>1. queue[j] = p + j /\ queue[j] \in Nat
      BY <1>1, <1>2, <1>7
    <3>2. m \in [id : Nat, part : Nat] /\ m.id = queue[j] /\ m.part \in 1..SizeOf(queue[j])
      BY <1>8, <2>1, <3>1
    <3> QED BY <1>1, <1>2, <3>1, <3>2
  <2>2. ASSUME m \in [id : Nat, part : Nat],
               m.id \in (p + 1)..(p + Len(queue)), m.part \in 1..SizeOf(m.id)
        PROVE  \E j \in 1..Len(queue) : m \in MessagesOf(queue[j], 1)
    <3>1. m.id - p \in 1..Len(queue) /\ p + (m.id - p) = m.id
      BY <1>1, <1>2, <2>2
    <3>2. queue[m.id - p] = m.id
      BY <1>7, <3>1
    <3>3. m \in MessagesOf(m.id, 1)
      BY <1>8, <2>2
    <3> QED BY <3>1, <3>2, <3>3
  <2> QED BY <2>1, <2>2
<1>11. Pending \subseteq [id : Nat, part : Nat] /\ Waiting \subseteq [id : Nat, part : Nat]
  BY <1>1, <1>6, <1>8, <1>9, <1>10 DEF Waiting, Rest
<1>12. \A m \in [id : Nat, part : Nat] : m \in Pending <=> m \in Waiting
  <2> TAKE m \in [id : Nat, part : Nat]
  <2>1. m \in Pending <=>
          \/ pheld # None /\ m.id = p /\ m.part \in ppart..SizeOf(m.id)
          \/ m.id \in (p + 1)..(p + Len(queue)) /\ m.part \in 1..SizeOf(m.id)
          \/ put = 1 /\ m.id = Len(received) /\ m.part \in 1..SizeOf(m.id)
    <3>1. pheld # None => (m \in MessagesOf(pheld, ppart) <=>
                             m.id = p /\ m.part \in ppart..SizeOf(m.id))
      BY <1>1, <1>6, <1>8
    <3>2. rheld # None => (m \in MessagesOf(rheld, 1) <=>
                             m.id = Len(received) /\ m.part \in 1..SizeOf(m.id))
      BY <1>1, <1>5, <1>8
    <3>3. (\E j \in 1..Len(queue) : m \in MessagesOf(queue[j], 1)) <=>
                 m.id \in (p + 1)..(p + Len(queue)) /\ m.part \in 1..SizeOf(m.id)
      BY <1>10
    <3> QED BY <1>5, <1>9, <3>1, <3>2, <3>3
  <2>2. m.id \in (p + 1)..Len(received) <=>
          \/ m.id \in (p + 1)..(p + Len(queue))
          \/ put = 1 /\ m.id = Len(received)
    BY <1>1, <1>2, <1>3, <1>4
  <2>3. CASE pheld # None
    <3>1. m \in Waiting <=> /\ m.id \in p..Len(received)
                            /\ m.part \in (IF m.id = p THEN ppart ELSE 1)..SizeOf(m.id)
      BY <1>6, <2>3 DEF Waiting, Rest, SizeOf
    <3>2. m.id \in p..Len(received) <=> m.id = p \/ m.id \in (p + 1)..Len(received)
      BY <1>1, <1>2, <1>4
    <3>3. m.id = p => m.id \notin (p + 1)..Len(received)
      BY <1>2
    <3> QED BY <2>1, <2>2, <2>3, <3>1, <3>2, <3>3
  <2>4. CASE pheld = None
    <3>1. m \in Waiting <=> /\ m.id \in (p + 1)..Len(received)
                            /\ m.part \in 1..SizeOf(m.id)
      BY <1>2, <2>4 DEF Waiting, Rest, SizeOf
    <3> QED BY <2>1, <2>2, <2>4, <3>1
  <2> QED BY <2>3, <2>4
<1> QED BY <1>11, <1>12

\* What of the caller's state TakeLog sees.
Opened == IF cpc \in {"baseline", "arm"} THEN nextTake - 2 ELSE nextTake - 1
AllEnded == {k \in TakeNumbers : Ended(k)}
Logs == [k \in TakeNumbers |-> Lines(takes[k].file)]

LEMMA FilesLogs ==
    (\A k \in TakeNumbers : takes'[k].file = takes[k].file) => Logs' = Logs
BY DEF Logs, Lines

\* A line appended to a file is its message appended to the log.
LEMMA LinesAppend ==
    ASSUME NEW file \in Seq(TakeRecord), NEW l \in TakeRecord
    PROVE  Lines(Append(file, l)) = Append(Lines(file), [id |-> l.id, part |-> l.part])
<1> DEFINE new == Append(file, l)
           m == [id |-> l.id, part |-> l.part]
<1>1. /\ Len(new) = Len(file) + 1 /\ Len(file) \in Nat /\ new[Len(file) + 1] = l
      /\ \A i \in 1..Len(file) : new[i] = file[i]
  BY AppendProperties
<1>2. \A i \in 1..Len(file) : file[i] \in TakeRecord
  BY ElementOfSeq
<1>3. /\ m \in Message
      /\ \A i \in 1..Len(file) : [id |-> file[i].id, part |-> file[i].part] \in Message
  BY <1>2 DEF TakeRecord, Message
<1> HIDE DEF new, m
<1>4. Lines(file) \in Seq(Message) /\ Len(Lines(file)) = Len(file)
  <2>1. Lines(file) \in [1..Len(file) -> Message]
    BY <1>3 DEF Lines
  <2>2. PICK n \in Nat : n = Len(file)
    BY <1>1
  <2>3. Lines(file) \in Seq(Message)
    BY <2>1, <2>2, SeqDef
  <2>4. DOMAIN Lines(file) = 1..Len(Lines(file)) /\ Len(Lines(file)) \in Nat
    BY <2>3, LenProperties
  <2>5. PICK len \in Nat : len = Len(Lines(file))
    BY <2>4
  <2>6. 1..len = 1..n
    BY <2>1, <2>2, <2>4, <2>5
  <2>7. len = n
    <3>1. len > 0 => len \in 1..n
      BY <2>6
    <3>2. n > 0 => n \in 1..len
      BY <2>6
    <3> QED BY <3>1, <3>2
  <2> QED BY <2>2, <2>3, <2>5, <2>7
<1>5. PICK a \in Seq(Message) : a = Append(Lines(file), m)
  BY <1>3, <1>4, AppendProperties
<1>10. /\ Len(a) = Len(file) + 1 /\ a[Len(file) + 1] = m
       /\ \A i \in 1..Len(file) : a[i] = Lines(file)[i]
  BY <1>3, <1>4, <1>5, AppendProperties
<1>6. a = [i \in 1..(Len(file) + 1) |-> a[i]]
  <2>1. a \in [1..Len(a) -> Message]
    BY LenProperties
  <2> QED BY <1>10, <2>1
<1>7. \A i \in 1..(Len(file) + 1) : a[i] = [id |-> new[i].id, part |-> new[i].part]
  <2> TAKE i \in 1..(Len(file) + 1)
  <2>1. CASE i \in 1..Len(file)
    <3>1. a[i] = Lines(file)[i]
      BY <1>10, <2>1
    <3>2. Lines(file)[i] = [id |-> file[i].id, part |-> file[i].part]
      BY <2>1 DEF Lines
    <3> QED BY <1>1, <2>1, <3>1, <3>2
  <2>2. CASE i = Len(file) + 1
    <3>1. a[i] = m /\ new[i] = l
      BY <1>1, <1>10, <2>2
    <3> QED BY <3>1 DEF m
  <2>3. i \in 1..Len(file) \/ i = Len(file) + 1
    BY <1>1
  <2> QED BY <2>1, <2>2, <2>3
<1>8. Lines(new) = [i \in 1..(Len(file) + 1) |-> [id |-> new[i].id, part |-> new[i].part]]
  BY <1>1 DEF Lines
<1>9. Lines(new) = Append(Lines(file), m)
  BY <1>5, <1>6, <1>7, <1>8
<1> QED BY <1>9 DEF new, m

\* The state of TakeLog, and the steps that leave it alone.
LEMMA Stutters ==
    ASSUME UNCHANGED <<received, Pending, take, Opened, AllEnded, Logs, idle>>
    PROVE  UNCHANGED Abstract!vars
BY DEF Abstract!vars, Opened, AllEnded, Logs

\* At first nothing has arrived and no take has begun.
LEMMA RefinesInit == Init => Abstract!Init
<1> SUFFICES ASSUME Init PROVE Abstract!Init
  OBVIOUS
<1>1. Len(received) = 0 /\ take = 0 /\ idle = <<>>
  BY DEF Init, None
<1>2. Pending = {}
  BY DEF Init, Pending
<1>3. (IF cpc \in {"baseline", "arm"} THEN nextTake - 2 ELSE nextTake - 1) = 0
  BY DEF Init
<1>4. {k \in TakeNumbers : Ended(k)} = {}
  BY DEF Init, Ended, UnusedTake
<1>5. [k \in TakeNumbers |-> Lines(takes[k].file)] = [k \in 1..MaxTakes |-> <<>>]
  <2>1. \A k \in TakeNumbers : takes[k].file = <<>>
    BY DEF Init, UnusedTake
  <2>2. Lines(<<>>) = <<>>
    BY DEF Lines
  <2> QED BY <2>1, <2>2 DEF TakeNumbers
<1> QED BY <1>1, <1>2, <1>3, <1>4, <1>5 DEF Abstract!Init

\* recvfrom is the arrival of a datagram; what else the receiver does is not seen.
LEMMA RefinesReceive ==
    ASSUME TypeInv, FlowInv, HeldInv, ReceiveLoop, Pending = Waiting, Pending' = Waiting'
    PROVE  Abstract!Arrive \/ UNCHANGED Abstract!vars
<1>1. UNCHANGED <<take, idle, cpc, nextTake, takes, pheld, ppart, ppc>>
  BY DEF ReceiveLoop, procVars, callerVars
<1>2. UNCHANGED <<Opened, AllEnded, Logs>>
  BY <1>1 DEF Opened, AllEnded, Logs, Ended
<1>3. Pulled' = Pulled
  BY FlowReceive
<1>4. CASE RecvFrom
  <2> DEFINE d == [size |-> Head(kbuf), stamp |-> clock]
  <2>1. /\ received \in Seq([size : Sizes, stamp : Nat]) /\ Len(received) \in Nat
        /\ kbuf \in Seq(Sizes) /\ clock \in Nat /\ ppart \in Nat
        /\ queue \in Seq(Nat) /\ Len(queue) \in Nat
    BY DEF TypeInv, TypeOK, NetType, ReceiverType, ProcessorType, CallerType
  <2>2. received' = Append(received, d) /\ kbuf # <<>> /\ rpc = "recv"
    BY <1>4 DEF RecvFrom
  <2>3. Head(kbuf) \in Sizes
    BY <2>1, <2>2, HeadTailProperties
  <2>4. d \in [size : Sizes, stamp : Nat] /\ d.size = Head(kbuf)
    BY <2>1, <2>3
  <2> HIDE DEF d
  <2>5. Len(received') = Len(received) + 1
    BY <2>1, <2>2, <2>4, AppendProperties
  <2>6. Pulled \in Nat /\ Pulled <= Len(received)
    BY <2>1, <2>2 DEF FlowInv, Pulled
  <2>7. Waiting' = Waiting \cup {[id |-> Len(received) + 1, part |-> p] : p \in 1..d.size}
    <3>1. CASE pheld # None
      <4>3. pheld \in 1..Len(received) /\ ppart > 0
        BY <2>1, <2>6, <3>1 DEF HeldInv, FlowInv
      <4>1. /\ pheld \in 1..(Len(received) + 1) /\ ppart \in Nat /\ ppart > 0
            /\ pheld # Len(received) + 1
        BY <2>1, <4>3
      <4>2. Rest(received', pheld, ppart) = Rest(received, pheld, ppart) \cup
                {[id |-> Len(received) + 1, part |-> p] : p \in 1..d.size}
        BY <2>1, <2>2, <2>4, <4>1, RestExtends
      <4> QED BY <1>1, <3>1, <4>2 DEF Waiting
    <3>2. CASE pheld = None
      <4>1. PICK lo \in 1..(Len(received) + 1) : lo = Pulled + 1
        BY <2>1, <2>6
      <4>3. 1 \in Nat /\ 1 > 0
        OBVIOUS
      <4>2. Rest(received', lo, 1) = Rest(received, lo, 1) \cup
                {[id |-> Len(received) + 1, part |-> p] : p \in 1..d.size}
        BY <2>1, <2>2, <2>4, <4>3, RestExtends
      <4> QED BY <1>1, <1>3, <3>2, <4>1, <4>2 DEF Waiting
    <3> QED BY <3>1, <3>2
  <2>8. Pending' = Pending \cup
            {[id |-> Len(received) + 1, part |-> p] : p \in 1..Head(kbuf)}
    BY <2>4, <2>7
  <2>9. \E size \in Sizes :
            Pending' = Pending \cup {[id |-> Len(received) + 1, part |-> p] : p \in 1..size}
    BY <2>3, <2>8
  <2> QED BY <1>1, <1>2, <2>5, <2>9 DEF Abstract!Arrive, Opened, AllEnded, Logs
<1>5. CASE ~RecvFrom
  <2>1. received' = received
    BY <1>5 DEF ReceiveLoop, TestStop, RecvNothing, QueuePut
  <2>2. Waiting' = Waiting
    BY <1>1, <1>3, <2>1 DEF Waiting
  <2> QED BY <1>1, <1>2, <2>1, <2>2, Stutters
<1> QED BY <1>4, <1>5

\* A take that has ended stays ended, and end_take ends the one it was called for.
LEMMA EndedChanges ==
    ASSUME TypeInv, LockInv, TakeInv, [Next]_vars
    PROVE  AllEnded' = AllEnded \cup (IF EndTake THEN {ctake} \cap TakeNumbers ELSE {})
<1>1. takes \in [TakeNumbers -> Take] /\ ctake \in TakeNumbers \cup {None}
  BY DEF TypeInv, TypeOK, CallerType
<1>2. \A k \in TakeNumbers : Ended(k)' => Ended(k) \/ (EndTake /\ k = ctake)
  BY EndsAtEnd
<1>3. ASSUME NEW k \in TakeNumbers, Ended(k) PROVE Ended(k)'
  <2>1. CASE takes'[k] = takes[k]
    BY <1>3, <2>1 DEF Ended
  <2>2. CASE MarkLastTake /\ k = LastTake
    <3> DEFINE u == WithMeta([takes[k] EXCEPT !.bad = TRUE])
    <3>1. takes' = [takes EXCEPT ![k] = u]
      BY <2>2 DEF MarkLastTake
    <3>2. u.status = takes[k].status
      BY <1>1, MetaRewritten
    <3> HIDE DEF u
    <3> QED BY <1>1, <1>3, <3>1, <3>2 DEF Ended
  <2> QED BY <1>3, <2>1, <2>2, OneTakeChanges
<1>4. ASSUME EndTake, NEW k \in TakeNumbers, k = ctake PROVE Ended(k)'
  <2> DEFINE u == WithMeta(EndedTake(takes[k], clock + 1, EndStatus))
  <2>1. takes' = [takes EXCEPT ![k] = u]
    BY <1>4 DEF EndTake
  <2>2. u.status = EndStatus
    BY <1>1 DEF WithMeta, EndedTake, Take
  <2> HIDE DEF u
  <2>3. takes'[k].status \in {"complete", "aborted"}
    BY <1>1, <2>1, <2>2 DEF EndStatus
  <2> QED BY <2>3 DEF Ended
<1>5. ASSUME NEW k \in TakeNumbers
      PROVE  Ended(k)' <=> Ended(k) \/ (EndTake /\ k = ctake)
  <2>1. Ended(k)' => Ended(k) \/ (EndTake /\ k = ctake)
    BY <1>2
  <2>2. Ended(k) \/ (EndTake /\ k = ctake) => Ended(k)'
    BY <1>3, <1>4
  <2>3. Ended(k)' \in BOOLEAN /\ Ended(k) \in BOOLEAN
    BY DEF Ended
  <2> QED BY <2>1, <2>2, <2>3
<1> QED BY <1>5 DEF AllEnded

\* The processor delivers the first of the waiting messages when it has observed it
\* idle or written it; until then nothing of what it does is seen.
LEMMA RefinesProcess ==
    ASSUME TypeInv, LockInv, FlowInv, HeldInv, ProcessLoop,
           TakeInv, Pending = Waiting, Pending' = Waiting'
    PROVE  Abstract!Deliver \/ UNCHANGED Abstract!vars
<1>1. UNCHANGED <<received, take, cpc, nextTake>>
  BY DEF ProcessLoop, recvVars, callerVars
<1>2. UNCHANGED <<Opened, AllEnded>>
  <2>1. ~EndTake
    BY <1>1 DEF EndTake
  <2>2. [Next]_vars
    BY DEF Next
  <2> QED BY <1>1, <2>1, <2>2, EndedChanges DEF Opened
<1>3. Pulled' = Pulled + IF GetDatagram THEN 1 ELSE 0
  BY FlowProcess
<1>4. /\ received \in Seq([size : Sizes, stamp : Nat]) /\ Len(received) \in Nat
      /\ pheld \in Nat /\ ppart \in Nat /\ queue \in Seq(Nat) /\ Len(queue) \in Nat
      /\ takes \in [TakeNumbers -> Take] /\ take \in TakeNumbers \cup {None}
  BY DEF TypeInv, TypeOK, ReceiverType, ProcessorType, CallerType
<1>5. Pulled \in Nat /\ Pulled + Len(queue) <= Len(received)
  BY <1>4 DEF FlowInv, Pulled
<1>6. \A i \in 1..Len(received) : SizeOf(i) \in Nat /\ SizeOf(i) = received[i].size
  <2> TAKE i \in 1..Len(received)
  <2>1. received[i] \in [size : Sizes, stamp : Nat]
    BY <1>4, ElementOfSeq
  <2> QED BY <2>1, SizesAssumption DEF SizeOf
<1>7. CASE GetDatagram
  <2>1. /\ queue # <<>> /\ pheld' = Head(queue) /\ ppart' = 1 /\ ppc = "get"
        /\ UNCHANGED <<takes, idle>>
    BY <1>7 DEF GetDatagram
  <2>2. Head(queue) = queue[1] /\ 1 \in 1..Len(queue)
    BY <1>4, <2>1
  <2>3. pheld' = Pulled + 1 /\ pheld = None
    BY <2>1, <2>2 DEF FlowInv, HeldInv, Handling
  <2>4. Waiting' = Waiting
    BY <1>1, <1>5, <2>1, <2>3 DEF Waiting, None
  <2>5. Logs' = Logs
    BY <2>1 DEF Logs
  <2> QED BY <1>1, <1>2, <2>1, <2>4, <2>5, Stutters
<1>8. CASE TakeMalformed
  <2>1. /\ ppc = "malformedLock" /\ pheld' = None /\ UNCHANGED idle
        /\ ~GetDatagram /\ ~WriteRecord
    BY <1>8 DEF TakeMalformed, GetDatagram, WriteRecord
  <2>2. pheld = Pulled /\ pheld > 0 /\ SizeOf(pheld) = 0 /\ ppart > 0
    BY <1>4, <2>1 DEF FlowInv, HeldInv, Handling, None
  <2>3. PICK lo \in 1..Len(received) : lo = pheld
    BY <1>4, <1>5, <2>2
  <2>4. Rest(received, lo, ppart) = Rest(received, lo + 1, 1)
    BY <1>4, <1>6, <2>2, <2>3, RestNext
  <2>5. Waiting' = Waiting
    BY <1>1, <1>3, <2>1, <2>2, <2>3, <2>4 DEF Waiting, None
  <2>6. Logs' = Logs
    BY <2>1, ProcessTakes, FilesLogs
  <2> QED BY <1>1, <1>2, <2>1, <2>5, <2>6, Stutters
<1>9. CASE GetEmpty \/ CountMalformed \/ AcquireLock \/ CountMessage \/ ObserveTake
  <2>1. UNCHANGED <<pheld, ppart, idle>> /\ ~GetDatagram /\ ~WriteRecord
    BY <1>9 DEF GetEmpty, CountMalformed, AcquireLock, CountMessage, ObserveTake,
       GetDatagram, WriteRecord
  <2>2. Waiting' = Waiting
    BY <1>1, <1>3, <1>5, <2>1 DEF Waiting
  <2>3. Logs' = Logs
    BY <2>1, ProcessTakes, FilesLogs
  <2> QED BY <1>1, <1>2, <2>1, <2>2, <2>3, Stutters
<1>10. CASE ObserveIdle \/ WriteRecord
  <2> DEFINE m == [id |-> pheld, part |-> ppart]
  <2>1. ppc \in {"idle", "write"} /\ ReleaseLock /\ ~GetDatagram
    BY <1>10 DEF ObserveIdle, WriteRecord, GetDatagram
  <2>2. pheld = Pulled /\ pheld > 0 /\ ppart \in 1..SizeOf(pheld)
    BY <2>1 DEF FlowInv, Handling
  <2>3. PICK lo \in 1..Len(received) : lo = pheld
    BY <1>4, <1>5, <2>2
  <2>4. /\ ppart \in 1..received[lo].size /\ received[lo].size \in Nat
        /\ SizeOf(pheld) = received[lo].size
    BY <1>6, <2>2, <2>3
  <2>5. Waiting = Rest(received, lo, ppart)
    BY <2>2, <2>3 DEF Waiting, None
  <2>6. Waiting' = Rest(received, lo, ppart + 1)
    <3>1. CASE ppart < SizeOf(pheld)
      <4>1. pheld' = pheld /\ ppart' = ppart + 1
        BY <2>1, <3>1 DEF ReleaseLock
      <4> QED BY <1>1, <2>2, <2>3, <4>1 DEF Waiting, None
    <3>2. CASE ~(ppart < SizeOf(pheld))
      <4>1. pheld' = None
        BY <2>1, <3>2 DEF ReleaseLock
      <4>2. ppart + 1 > received[lo].size /\ ppart + 1 \in Nat
        BY <1>4, <2>4, <3>2
      <4>3. Rest(received, lo, ppart + 1) = Rest(received, lo + 1, 1)
        BY <1>4, <4>2, RestNext
      <4>4. Pulled' + 1 = lo + 1
        BY <1>3, <1>5, <2>1, <2>2, <2>3
      <4> QED BY <1>1, <4>1, <4>3, <4>4 DEF Waiting
    <3> QED BY <3>1, <3>2
  <2>7. /\ m \in Waiting
        /\ \A n \in Waiting \ {m} : Abstract!Earlier(m, n)
        /\ Waiting' = Waiting \ {m}
    <3>1. LET f == [id |-> lo, part |-> ppart]
          IN  /\ f \in Rest(received, lo, ppart)
              /\ \A n \in Rest(received, lo, ppart) \ {f} : Abstract!Earlier(f, n)
              /\ Rest(received, lo, ppart) \ {f} = Rest(received, lo, ppart + 1)
      BY <1>4, <2>4, RestDeliver
    <3> QED BY <2>3, <2>5, <2>6, <3>1
  <2> HIDE DEF m
  <2>8. /\ m \in Pending
        /\ \A n \in Pending \ {m} : Abstract!Earlier(m, n)
        /\ Pending' = Pending \ {m}
    BY <2>7
  <2>9. \/ take = 0 /\ idle' = Append(idle, m) /\ Logs' = Logs
        \/ /\ take # 0 /\ Logs' = [Logs EXCEPT ![take] = Append(@, m)]
           /\ idle' = idle
    <3>1. CASE ObserveIdle
      <4>1. take = 0 /\ idle' = Append(idle, m) /\ UNCHANGED takes
        BY <3>1 DEF ObserveIdle, FlowInv, None, m
      <4> QED BY <4>1 DEF Logs
    <3>2. CASE WriteRecord
      <4> DEFINE line == [id |-> pheld, part |-> ppart, q |-> takeSeq - 1]
      <4>1. take \in TakeNumbers /\ ptake = take /\ take # 0 /\ UNCHANGED idle
        BY <1>4, <3>2 DEF WriteRecord, LockInv, None
      <4>2. takes' = [takes EXCEPT ![take] =
                        [takes[take] EXCEPT !.file = Append(takes[take].file, line)]]
        BY <3>2, <4>1 DEF WriteRecord
      <4>3. line \in TakeRecord /\ [id |-> line.id, part |-> line.part] = m
        BY <1>4 DEF TakeRecord, TypeInv, TypeOK, CallerType, m
      <4> HIDE DEF line
      <4>4. takes[take].file \in Seq(TakeRecord)
        BY <1>4, <4>1, TakeFields
      <4>5. /\ takes'[take].file = Append(takes[take].file, line)
            /\ \A k \in TakeNumbers : k # take => takes'[k].file = takes[k].file
        BY <1>4, <4>1, <4>2, TakeKept
      <4>6. Lines(takes'[take].file) = Append(Lines(takes[take].file), m)
        BY <4>3, <4>4, <4>5, LinesAppend
      <4>7. Logs' = [Logs EXCEPT ![take] = Append(Logs[take], m)]
        BY <4>1, <4>5, <4>6 DEF Logs
      <4> QED BY <4>1, <4>7
    <3> QED BY <1>10, <3>1, <3>2
  <2>10. Abstract!Deliver
    BY <1>1, <1>2, <2>8, <2>9 DEF Abstract!Deliver, Opened, AllEnded, Logs
  <2> QED BY <2>10
<1> QED BY <1>7, <1>8, <1>9, <1>10 DEF ProcessLoop

\* The caller opens a take where it arms it, closes it where it disarms it, and ends it
\* in end_take.
LEMMA RefinesCaller ==
    ASSUME TypeInv, LockInv, TakeInv, FlowInv, HeldInv, FreshInv, DropInv,
           CallerBegins \/ CallerContinues, Pending = Waiting, Pending' = Waiting'
    PROVE  Abstract!Open \/ Abstract!Close \/ Abstract!End \/ UNCHANGED Abstract!vars
<1>1. UNCHANGED <<received, queue, pheld, ppart, idle>>
  BY DEF CallerBegins, CallerContinues, CallerFrame
<1>2. rpc' = rpc \/ Start
  BY DEF CallerBegins, CallerContinues, StartTake, StopTake, MarkLastTake, Stop,
     ReadBaseline, ArmTake, DisarmTake, ReadDrops, EndTake, FinishStop
<1>3. Pending' = Pending
  <2>1. Start => rpc = "off" /\ rpc' = "test"
    BY DEF Start, FlowInv
  <2>2. Pulled' = Pulled
    BY <1>1, <1>2, <2>1 DEF Pulled
  <2> QED BY <1>1, <2>2 DEF Waiting
<1>4. Logs' = Logs
  BY CallerTakes, FilesLogs
<1>5. AllEnded' = AllEnded \cup (IF EndTake THEN {ctake} \cap TakeNumbers ELSE {})
  <2>1. [Next]_vars
    BY DEF Next
  <2> QED BY <2>1, EndedChanges
<1>6. /\ take \in TakeNumbers \cup {None} /\ ctake \in TakeNumbers \cup {None}
      /\ nextTake \in 1..(MaxTakes + 1) /\ MaxTakes \in Nat
  BY BoundsAssumption DEF TypeInv, TypeOK, CallerType
<1>7. CASE ArmTake
  <2>1. /\ take = 0 /\ take' = nextTake - 1 /\ nextTake' = nextTake
        /\ cpc = "arm" /\ cpc' = "idle" /\ ~EndTake
    BY <1>6, <1>7 DEF ArmTake, EndTake, TakeInv, None
  <2>2. /\ (IF cpc \in {"baseline", "arm"} THEN nextTake - 2 ELSE nextTake - 1) = nextTake - 2
        /\ (IF cpc' \in {"baseline", "arm"} THEN nextTake' - 2 ELSE nextTake' - 1) = nextTake - 1
    BY <2>1
  <2>3. nextTake - 2 < MaxTakes /\ nextTake - 1 = nextTake - 2 + 1
    BY <1>6
  <2>4. AllEnded' = AllEnded
    BY <1>5, <2>1
  <2>5. Abstract!Open
    BY <1>1, <1>3, <1>4, <2>1, <2>2, <2>3, <2>4 DEF Abstract!Open, AllEnded, Logs
  <2> QED BY <2>5
<1>8. CASE DisarmTake
  <2>1. /\ take' = 0 /\ UNCHANGED nextTake /\ ~EndTake
        /\ cpc \notin {"baseline", "arm"} /\ cpc' \notin {"baseline", "arm"}
    BY <1>8 DEF DisarmTake, EndTake, None
  <2>2. Opened' = Opened /\ AllEnded' = AllEnded
    BY <1>5, <2>1 DEF Opened
  <2>3. CASE take = 0
    BY <1>1, <1>3, <1>4, <2>1, <2>2, <2>3, Stutters
  <2>4. CASE take # 0
    <3>1. Abstract!Close
      BY <1>1, <1>3, <1>4, <2>1, <2>2, <2>4 DEF Abstract!Close, Opened, AllEnded, Logs
    <3> QED BY <3>1
  <2> QED BY <2>3, <2>4
<1>9. CASE EndTake
  <2>1. /\ take = 0 /\ UNCHANGED <<take, nextTake>>
        /\ cpc = "end" /\ cpc' \notin {"baseline", "arm"}
    BY <1>6, <1>9 DEF EndTake, TakeInv, None
  <2>2. ctake = nextTake - 1 /\ ctake # 0 /\ ctake \in TakeNumbers
    BY <1>6, <2>1 DEF TakeInv, DropInv, None
  <2>3. AllEnded' = AllEnded \cup {nextTake - 1}
    BY <1>5, <1>9, <2>2
  <2>4. /\ (IF cpc \in {"baseline", "arm"} THEN nextTake - 2 ELSE nextTake - 1) = nextTake - 1
        /\ Opened' = Opened
    BY <2>1 DEF Opened
  <2>5. nextTake - 1 # 0
    BY <2>2
  <2>6. Abstract!End
    BY <1>1, <1>3, <1>4, <2>1, <2>3, <2>4, <2>5 DEF Abstract!End, Opened, AllEnded, Logs
  <2> QED BY <2>6
<1>10. CASE ~ArmTake /\ ~DisarmTake /\ ~EndTake
  <2>1. take' = take
    BY <1>10 DEF CallerBegins, CallerContinues, Start, StartTake, StopTake, MarkLastTake,
       Stop, ReadBaseline, ReadDrops, FinishStop
  <2>2. Opened' = Opened
    <3>1. CASE StartTake
      BY <1>6, <3>1 DEF StartTake, Opened
    <3>2. CASE ~StartTake
      BY <1>10, <3>2 DEF CallerBegins, CallerContinues, Start, StopTake, MarkLastTake, Stop,
         ReadBaseline, ReadDrops, FinishStop, Opened
    <3> QED BY <3>1, <3>2
  <2>3. AllEnded' = AllEnded
    BY <1>5, <1>10
  <2> QED BY <1>1, <1>3, <1>4, <2>1, <2>2, <2>3, Stutters
<1> QED BY <1>7, <1>8, <1>9, <1>10

\* What the kernel does to its buffer is not seen.
LEMMA RefinesKernel ==
    ASSUME KernelDeliver \/ Terminated \/ UNCHANGED vars
    PROVE  UNCHANGED Abstract!vars
<1>1. UNCHANGED <<received, queue, pheld, ppart, rheld, take, cpc, nextTake, takes, idle>>
  BY DEF KernelDeliver, Terminated, vars, recvVars, procVars, callerVars, sharedVars
<1>2. Pending' = Pending
  BY <1>1 DEF Pending, MessagesOf, SizeOf
<1>3. UNCHANGED <<Opened, AllEnded, Logs>>
  BY <1>1 DEF Opened, AllEnded, Logs, Ended
<1> QED BY <1>1, <1>2, <1>3, Stutters

\* The recorder implements TakeLog: every message recvfrom returned is delivered once, in
\* arrival order, to the take open at that moment or outside every take
\* (recorder.py:262-357 against start_take and stop_take).
THEOREM TakeLogImplemented == Spec => ImplementsTakeLog
<1> DEFINE I == /\ TypeInv /\ LockInv /\ TakeInv /\ FlowInv /\ HeldInv
                /\ FreshInv /\ DropInv
<1>1. Init => I
  BY TypeInit, TakeInit, FlowInit, HeldInit, DropInit
<1>2. I /\ [Next]_vars => I'
  BY TypeStep, LockStep, TakeStep, FlowStep, HeldStep, FreshStep, DropStep
<1>3. I => NothingLost
  BY PendingWaits DEF NothingLost
<1>4. I /\ [Next]_vars /\ NothingLost /\ NothingLost' => [Abstract!Next]_(Abstract!vars)
  <2> SUFFICES ASSUME I, [Next]_vars, Pending = Waiting, Pending' = Waiting'
               PROVE  Abstract!Next \/ UNCHANGED Abstract!vars
    BY DEF NothingLost
  <2>1. CASE KernelDeliver \/ Terminated \/ UNCHANGED vars
    BY <2>1, RefinesKernel
  <2>2. CASE ReceiveLoop
    BY <2>2, RefinesReceive DEF Abstract!Next
  <2>3. CASE ProcessLoop
    BY <2>3, RefinesProcess DEF Abstract!Next
  <2>4. CASE CallerBegins \/ CallerContinues
    BY <2>4, RefinesCaller DEF Abstract!Next
  <2> QED BY <2>1, <2>2, <2>3, <2>4 DEF Next
<1> QED BY RefinesInit, <1>1, <1>2, <1>3, <1>4, PTL
        DEF Spec, ImplementsTakeLog, Abstract!Spec

=============================================================================

---------------------------- MODULE JsonlProofs ----------------------------
(***************************************************************************)
(* Proofs about JsonlWriter for any set of writing threads, any buffer     *)
(* size and any flush interval: what fsync forced to disk stays, what a    *)
(* crash may cost is bounded, and the reader of a take file finds an       *)
(* unbroken beginning of what was written, all of it once it is closed.    *)
(***************************************************************************)
EXTENDS JsonlWriter, SequenceTheorems, FiniteSetTheorems, TLAPS

\* A record's text and its newline are units, whatever the record.
LEMMA TextIsUnits ==
    ASSUME NEW r \in Nat
    PROVE  Json(r) \in Seq(Unit) /\ Newline(r) \in Seq(Unit)
  BY DEF Json, Newline, Unit

\* Appending units to a file leaves a file of units, no shorter than before,
\* that begins as it did.
LEMMA Appending ==
    ASSUME NEW f \in Seq(Unit), NEW g \in Seq(Unit), NEW m \in 0..Len(f)
    PROVE  /\ f \o g \in Seq(Unit)
           /\ Len(f \o g) >= Len(f)
           /\ Prefix(f \o g, m) = Prefix(f, m)
<1>1. f \o g \in Seq(Unit) /\ Len(f \o g) = Len(f) + Len(g)
  BY ConcatProperties
<1>2. Len(f) \in Nat /\ Len(g) \in Nat
  BY LenProperties
<1>3. \A i \in 1..m : (f \o g)[i] = f[i]
  <2>1. SUFFICES ASSUME NEW i \in 1..m PROVE (f \o g)[i] = f[i]
    OBVIOUS
  <2>2. i \in 1..Len(f)
    BY <1>2
  <2> QED  BY <2>2, ConcatProperties
<1>4. Prefix(f \o g, m) = Prefix(f, m)
  <2>1. SubSeq(f, 1, m) = [i \in 1..m |-> f[i]]
    BY <1>2
  <2>2. SubSeq(f \o g, 1, m) = [i \in 1..m |-> (f \o g)[i]]
    BY <1>1, <1>2
  <2> QED  BY <1>3, <2>1, <2>2 DEF Prefix
<1> QED  BY <1>1, <1>2, <1>4

\* Cutting a file at n leaves n units, and the first m of them as they were.
LEMMA Cutting ==
    ASSUME NEW f \in Seq(Unit), NEW n \in 0..Len(f), NEW m \in 0..n
    PROVE  /\ Prefix(f, n) \in Seq(Unit)
           /\ Len(Prefix(f, n)) = n
           /\ Prefix(Prefix(f, n), m) = Prefix(f, m)
<1>1. Len(f) \in Nat
  BY LenProperties
<1>2. Prefix(f, n) \in Seq(Unit) /\ Len(Prefix(f, n)) = n
      /\ \A i \in 1..n : Prefix(f, n)[i] = f[i]
  BY <1>1, SubSeqProperties DEF Prefix
<1>3. \A i \in 1..m : Prefix(f, n)[i] = f[i]
  BY <1>2
<1>4. SubSeq(f, 1, m) = [i \in 1..m |-> f[i]]
  BY <1>1
<1>5. SubSeq(Prefix(f, n), 1, m) = [i \in 1..m |-> Prefix(f, n)[i]]
  BY <1>2
<1> QED  BY <1>2, <1>3, <1>4, <1>5 DEF Prefix

-----------------------------------------------------------------------------
(* The type invariant, one step per action. *)

\* The types of the file and its handle.
HandleInv == buffer \in Seq(Unit) /\ file \in Seq(Unit) /\ synced \in 0..Len(file)

\* The types of everything else.
ThreadInv ==
    /\ target \in Files /\ clock \in 0..MaxTime /\ stamped \in 0..MaxRecords
    /\ lastFlush \in 0..MaxTime
    /\ pc \in [Writers -> {"idle", "json", "newline", "due", "flush", "sync",
                           "closed", "crashed", "off"}]
    /\ rec \in [Writers -> Nat] /\ now \in [Writers -> 0..MaxTime]
    /\ opens \in 1..MaxOpens /\ closing \in BOOLEAN
    /\ returnedAt \in [Records -> -1..MaxTime]

LEMMA InitTypes == Init => HandleInv /\ ThreadInv
<1> SUFFICES ASSUME Init PROVE HandleInv /\ ThreadInv
  OBVIOUS
<1>1. HandleInv
  <2>1. <<>> \in Seq(Unit) /\ Len(<<>>) = 0
    OBVIOUS
  <2> QED  BY <2>1 DEF Init, HandleInv
<1>2. -1 \in -1..MaxTime /\ 0 \in 0..MaxTime /\ 1 \in 1..MaxOpens
  BY NumbersAssumption
<1>3. returnedAt \in [Records -> -1..MaxTime]
  BY <1>2 DEF Init, NotReturned
<1>4. clock \in 0..MaxTime /\ stamped \in 0..MaxRecords /\ lastFlush \in 0..MaxTime
  BY NumbersAssumption DEF Init
<1>5. rec \in [Writers -> Nat] /\ now \in [Writers -> 0..MaxTime]
  BY <1>2 DEF Init
<1> QED  BY <1>1, <1>2, <1>3, <1>4, <1>5 DEF Init, ThreadInv

LEMMA ThreadStep == ThreadInv /\ [Next]_vars => ThreadInv'
<1> SUFFICES ASSUME ThreadInv, [Next]_vars PROVE ThreadInv'
  OBVIOUS
<1> USE NumbersAssumption DEF ThreadInv, Records
<1>0. 0..MaxTime \subseteq -1..MaxTime
  OBVIOUS
<1>1. ASSUME NEW w \in Writers, Stamp(w) PROVE ThreadInv'
  BY <1>1 DEF Stamp
<1>2. ASSUME NEW w \in Writers, WriteJson(w) PROVE ThreadInv'
  BY <1>2 DEF WriteJson
<1>3. ASSUME NEW w \in Writers, WriteNewline(w) PROVE ThreadInv'
  BY <1>3 DEF WriteNewline
<1>4. ASSUME NEW w \in Writers, TestFlush(w) PROVE ThreadInv'
  <2>1. returnedAt' \in [Records -> -1..MaxTime]
    BY <1>4, <1>0 DEF TestFlush
  <2>2. now' \in [Writers -> 0..MaxTime]
    BY <1>4 DEF TestFlush
  <2> QED  BY <1>4, <2>1, <2>2 DEF TestFlush
<1>5. ASSUME NEW w \in Writers, Flush(w) PROVE ThreadInv'
  BY <1>5 DEF Flush
<1>6. ASSUME NEW w \in Writers, Sync(w) PROVE ThreadInv'
  <2>1. now[w] \in 0..MaxTime /\ now[w] \in -1..MaxTime
    BY <1>0
  <2>2. lastFlush' \in 0..MaxTime /\ returnedAt' \in [Records -> -1..MaxTime]
    BY <1>6, <2>1 DEF Sync
  <2>3. pc' \in [Writers -> {"idle", "json", "newline", "due", "flush", "sync",
                             "closed", "crashed", "off"}]
    BY <1>6 DEF Sync
  <2> QED  BY <1>6, <2>2, <2>3 DEF Sync
<1>7. ASSUME NEW w \in Writers, Close(w) PROVE ThreadInv'
  BY <1>7 DEF Close
<1>8. ASSUME NEW w \in Writers, Reopen(w) PROVE ThreadInv'
  <2>1. opens' \in 1..MaxOpens
    <3>1. opens \in 1..MaxOpens /\ opens < MaxOpens /\ opens' = opens + 1
      BY <1>8 DEF Reopen
    <3> QED  BY <3>1
  <2>3. lastFlush' \in 0..MaxTime /\ closing' \in BOOLEAN
    BY <1>8 DEF Reopen
  <2>2. pc' \in [Writers -> {"idle", "json", "newline", "due", "flush", "sync",
                             "closed", "crashed", "off"}]
    BY <1>8 DEF Reopen
  <2> QED  BY <1>8, <2>1, <2>2, <2>3 DEF Reopen
<1>9. CASE Tick
  BY <1>9 DEF Tick
<1>10. CASE Crash
  BY <1>10 DEF Crash
<1>11. CASE UNCHANGED vars
  BY <1>11 DEF vars
<1> QED  BY <1>1, <1>2, <1>3, <1>4, <1>5, <1>6, <1>7, <1>8, <1>9, <1>10, <1>11 DEF Next, Write

\* What a step may do to what was forced to disk.
Kept == /\ synced' >= synced /\ Len(file') >= synced
        /\ Prefix(file', synced) = Prefix(file, synced)

\* Putting units in the buffer keeps the types and what was forced to disk.
LEMMA BufferedKeeps ==
    ASSUME HandleInv, NEW units \in Seq(Unit), Buffered(units)
    PROVE  HandleInv' /\ Kept
<1> USE DEF HandleInv, Kept
<1>1. Len(file) \in Nat /\ synced \in Nat
  BY LenProperties
<1>2. CASE file' = file /\ buffer' = buffer \o units
  <2>1. buffer \o units \in Seq(Unit)
    BY ConcatProperties
  <2> QED  BY <1>2, <2>1, <1>1 DEF Buffered
<1>3. CASE file' = file \o buffer /\ buffer' = units
  <2>1. Len(file \o buffer) \in Nat
    BY Appending, LenProperties
  <2> QED  BY <1>3, <2>1, <1>1, Appending DEF Buffered
<1> QED  BY <1>2, <1>3 DEF Buffered

\* Every step keeps the types of the file and what was forced to disk.
LEMMA HandleStep == HandleInv /\ ThreadInv /\ [Next]_vars => HandleInv' /\ Kept
<1> SUFFICES ASSUME HandleInv, ThreadInv, [Next]_vars PROVE HandleInv' /\ Kept
  OBVIOUS
<1>a. Len(file) \in Nat /\ synced \in Nat
  BY LenProperties DEF HandleInv
<1>b. ASSUME UNCHANGED handleVars PROVE HandleInv' /\ Kept
  BY <1>a, <1>b DEF handleVars, HandleInv, Kept
<1>1. ASSUME NEW w \in Writers, WriteJson(w) PROVE HandleInv' /\ Kept
  <2>1. Json(rec[w]) \in Seq(Unit)
    BY TextIsUnits DEF ThreadInv
  <2> QED  BY <1>1, <2>1, BufferedKeeps DEF WriteJson
<1>2. ASSUME NEW w \in Writers, WriteNewline(w) PROVE HandleInv' /\ Kept
  <2>1. Newline(rec[w]) \in Seq(Unit)
    BY TextIsUnits DEF ThreadInv
  <2> QED  BY <1>2, <2>1, BufferedKeeps DEF WriteNewline
<1>3. ASSUME NEW w \in Writers, Flush(w) PROVE HandleInv' /\ Kept
  <2>1. file' = file \o buffer /\ buffer' = <<>> /\ synced' = synced
    BY <1>3 DEF Flush
  <2>2. Len(file \o buffer) \in Nat
    BY Appending, LenProperties DEF HandleInv
  <2> QED  BY <2>1, <2>2, <1>a, Appending DEF HandleInv, Kept
<1>4. ASSUME NEW w \in Writers, Sync(w) PROVE HandleInv' /\ Kept
  BY <1>4, <1>a DEF Sync, Fsync, HandleInv, Kept
<1>5. CASE Crash
  <2>1. PICK n \in synced..Len(file) : file' = Prefix(file, n) /\ synced' = n /\ buffer' = <<>>
    BY <1>5 DEF Crash
  <2>2. n \in 0..Len(file) /\ synced \in 0..n
    BY <1>a
  <2> QED  BY <2>1, <2>2, <1>a, Cutting DEF HandleInv, Kept
<1>6. ASSUME NEW w \in Writers, Stamp(w) \/ TestFlush(w) \/ Close(w) \/ Reopen(w)
      PROVE  HandleInv' /\ Kept
  BY <1>6, <1>b DEF Stamp, TestFlush, Close, Reopen
<1>7. CASE Tick \/ UNCHANGED vars
  BY <1>7, <1>b DEF Tick, vars, handleVars
<1> QED  BY <1>1, <1>2, <1>3, <1>4, <1>5, <1>6, <1>7 DEF Next, Write

-----------------------------------------------------------------------------

\* Every variable of JsonlWriter keeps its type.
THEOREM JsonlTypeCorrect == Spec => []TypeOK
<1>1. HandleInv /\ ThreadInv <=> TypeOK
  BY DEF HandleInv, ThreadInv, TypeOK
<1>2. Init => TypeOK
  BY <1>1, InitTypes
<1>3. TypeOK /\ [Next]_vars => TypeOK'
  <2>1. (HandleInv /\ ThreadInv)' <=> TypeOK'
    BY DEF HandleInv, ThreadInv, TypeOK
  <2> QED  BY <1>1, <2>1, ThreadStep, HandleStep
<1> QED  BY <1>2, <1>3, PTL DEF Spec

\* What was forced to disk is never changed again: not by another thread's
\* write, not by a crash, not by a tool that appends later.
THEOREM SyncedKept == Spec => SyncedIsKept
<1>1. TypeOK /\ [Next]_vars => [Kept]_vars
  BY HandleStep DEF TypeOK, HandleInv, ThreadInv
<1>2. SyncedIsKept <=> [][Kept]_vars
  BY DEF SyncedIsKept, Kept
<1> QED  BY <1>1, <1>2, JsonlTypeCorrect, PTL DEF Spec

-----------------------------------------------------------------------------
(* The bytes of a take file, which has one writer: file and buffer together *)
(* are the texts of records 1, 2, 3, ... one behind the other.             *)

\* Unit u is the i-th of the records' texts, one behind the other.
At(u, i) ==
    \/ u.part = "head" /\ i = 3 * u.rec - 2
    \/ u.part = "tail" /\ i = 3 * u.rec - 1
    \/ u.part = "nl"   /\ i = 3 * u.rec

\* The units of f are those of the records' texts that follow the first n.
InPlace(f, n) == \A i \in 1..Len(f) : At(f[i], n + i)

LEMMA PlaceConcat ==
    ASSUME NEW f \in Seq(Unit), NEW g \in Seq(Unit), NEW n \in Nat,
           InPlace(f, n), InPlace(g, n + Len(f))
    PROVE  /\ f \o g \in Seq(Unit) /\ InPlace(f \o g, n)
           /\ Len(f \o g) = Len(f) + Len(g)
<1>1. f \o g \in Seq(Unit) /\ Len(f \o g) = Len(f) + Len(g)
  BY ConcatProperties
<1>2. Len(f) \in Nat /\ Len(g) \in Nat
  BY LenProperties
<1>3. SUFFICES ASSUME NEW i \in 1..Len(f \o g) PROVE At((f \o g)[i], n + i)
  BY <1>1 DEF InPlace
<1>4. CASE i <= Len(f)
  <2>1. i \in 1..Len(f)
    BY <1>1, <1>2, <1>4
  <2>2. (f \o g)[i] = f[i]
    BY <2>1, ConcatProperties
  <2> QED  BY <2>1, <2>2 DEF InPlace
<1>5. CASE i > Len(f)
  <2>1. i - Len(f) \in 1..Len(g) /\ n + Len(f) + (i - Len(f)) = n + i
    BY <1>1, <1>2, <1>5
  <2>2. (f \o g)[i] = g[i - Len(f)]
    BY <1>1, <1>2, <1>5, ConcatProperties
  <2> QED  BY <2>1, <2>2 DEF InPlace
<1> QED  BY <1>1, <1>2, <1>4, <1>5

LEMMA PlacePrefix ==
    ASSUME NEW f \in Seq(Unit), NEW n \in Nat, NEW m \in 0..Len(f), InPlace(f, n)
    PROVE  InPlace(Prefix(f, m), n)
<1>1. Len(f) \in Nat
  BY LenProperties
<1>2. Len(Prefix(f, m)) = m /\ \A i \in 1..m : Prefix(f, m)[i] = f[i]
  BY <1>1, SubSeqProperties DEF Prefix
<1>3. \A i \in 1..m : i \in 1..Len(f)
  BY <1>1
<1> QED  BY <1>2, <1>3 DEF InPlace

\* Putting the units that come next in the buffer keeps the order.
LEMMA Filling ==
    ASSUME HandleInv, NEW units \in Seq(Unit), Buffered(units),
           InPlace(file, 0), InPlace(buffer, Len(file)),
           InPlace(units, Len(file) + Len(buffer))
    PROVE  /\ InPlace(file', 0) /\ InPlace(buffer', Len(file'))
           /\ Len(file') + Len(buffer') = Len(file) + Len(buffer) + Len(units)
           /\ Len(file') \in Nat /\ Len(buffer') \in Nat
<1>0. /\ file \in Seq(Unit) /\ buffer \in Seq(Unit)
      /\ Len(file) \in Nat /\ Len(buffer) \in Nat /\ Len(units) \in Nat
  BY LenProperties DEF HandleInv
<1>1. CASE file' = file /\ buffer' = buffer \o units
  <2>1. InPlace(buffer \o units, Len(file)) /\ Len(buffer \o units) = Len(buffer) + Len(units)
    BY <1>0, PlaceConcat
  <2> QED  BY <1>0, <1>1, <2>1
<1>2. CASE file' = file \o buffer /\ buffer' = units
  <2>1. 0 + Len(file) = Len(file)
    BY <1>0
  <2>2. InPlace(file \o buffer, 0) /\ Len(file \o buffer) = Len(file) + Len(buffer)
    BY <1>0, <2>1, PlaceConcat
  <2> QED  BY <1>0, <1>2, <2>2
<1> QED  BY <1>1, <1>2 DEF Buffered

\* A record's text, and its newline, in their places.
LEMMA TextInPlace ==
    ASSUME NEW r \in Nat, NEW n \in Nat
    PROVE  /\ Len(Json(r)) = 2 /\ (n = 3 * r - 3 => InPlace(Json(r), n))
           /\ Len(Newline(r)) = 1 /\ (n = 3 * r - 1 => InPlace(Newline(r), n))
<1>1. Len(Json(r)) = 2 /\ Json(r)[1] = [rec |-> r, part |-> "head"]
      /\ Json(r)[2] = [rec |-> r, part |-> "tail"]
  BY DEF Json
<1>2. Len(Newline(r)) = 1 /\ Newline(r)[1] = [rec |-> r, part |-> "nl"]
  BY DEF Newline
<1>3. ASSUME n = 3 * r - 3 PROVE InPlace(Json(r), n)
  <2>1. At(Json(r)[1], n + 1) /\ At(Json(r)[2], n + 2)
    BY <1>1, <1>3 DEF At
  <2>2. \A i \in 1..2 : i = 1 \/ i = 2
    OBVIOUS
  <2> QED  BY <1>1, <2>1, <2>2 DEF InPlace
<1>4. ASSUME n = 3 * r - 1 PROVE InPlace(Newline(r), n)
  <2>1. At(Newline(r)[1], n + 1)
    BY <1>2, <1>4 DEF At
  <2>2. \A i \in 1..1 : i = 1
    OBVIOUS
  <2> QED  BY <1>2, <2>1, <2>2 DEF InPlace
<1> QED  BY <1>1, <1>2, <1>3, <1>4

-----------------------------------------------------------------------------

\* A writer that is neither off nor done.
Active == {"idle", "json", "newline", "due", "flush", "sync"}

\* How much of the records stamped file and buffer hold, by what writer w has
\* still to write of the last one.
Owing(w) ==
    /\ pc[w] \in {"idle", "due", "flush", "sync"} => Len(file) + Len(buffer) = 3 * stamped
    /\ pc[w] = "json" => Len(file) + Len(buffer) = 3 * stamped - 3
    /\ pc[w] = "newline" => Len(file) + Len(buffer) = 3 * stamped - 1
    /\ pc[w] = "sync" => buffer = <<>>
    /\ pc[w] = "closed" => Len(file) = 3 * stamped

\* The record in w's hands is the last, and w's `now` is not before the last flush.
Holding(w) ==
    /\ pc[w] \in {"json", "newline", "due"} \/ (pc[w] \in {"flush", "sync"} /\ ~closing) =>
          rec[w] = stamped
    /\ pc[w] \in {"flush", "sync"} /\ ~closing => lastFlush <= now[w]

\* A take file has one writer, which closes it for all.
SoleWriter ==
    /\ \A v, w \in Writers : pc[v] \in Active /\ pc[w] \in Active => v = w
    /\ \A v, w \in Writers : pc[v] = "closed" => pc[w] = "closed"

Stream == InPlace(file, 0) /\ InPlace(buffer, Len(file))

\* File and buffer together hold the records stamped, but for what the writer
\* has still to write of the last one; a crash keeps a beginning.
StreamInv ==
    target = "take" =>
    /\ SoleWriter /\ Stream
    /\ \A w \in Writers : Owing(w) /\ Holding(w)
    /\ \A r \in Records : returnedAt[r] # NotReturned => r <= stamped

LEMMA StreamInit == Init => StreamInv
<1> SUFFICES ASSUME Init, target = "take" PROVE StreamInv
  BY DEF StreamInv
<1>1. PICK t \in Writers : pc = [w \in Writers |-> IF w = t THEN "idle" ELSE "off"]
  <2>1. target # "events"
    OBVIOUS
  <2> QED  BY <2>1 DEF Init
<1>2. SoleWriter
  BY <1>1 DEF SoleWriter, Active
<1>3. Len(<<>>) = 0 /\ 1..0 = {}
  OBVIOUS
<1>4. Stream
  BY <1>3 DEF Stream, InPlace, Init
<1>5. Len(file) + Len(buffer) = 3 * stamped
  BY <1>3 DEF Init
<1>6. ASSUME NEW w \in Writers PROVE Owing(w) /\ Holding(w)
  BY <1>1, <1>5 DEF Owing, Holding
<1>7. \A r \in Records : returnedAt[r] = NotReturned
  BY DEF Init
<1> QED  BY <1>2, <1>4, <1>6, <1>7 DEF StreamInv

\* What an action of writer w alone leaves of SoleWriter, when w was active and is.
LEMMA SoleStep ==
    ASSUME ThreadInv, SoleWriter, NEW w \in Writers, NEW p \in Active,
           pc[w] \in Active, pc' = [pc EXCEPT ![w] = p]
    PROVE  SoleWriter' /\ \A x \in Writers \ {w} : pc'[x] = pc[x] /\ pc[x] \notin Active \cup {"closed"}
<1>1. \A x \in Writers \ {w} : pc'[x] = pc[x] /\ pc[x] \notin Active /\ pc[x] # "closed"
  BY DEF ThreadInv, SoleWriter, Active
<1>2. pc'[w] = p /\ p # "closed"
  BY DEF ThreadInv, Active
<1> QED  BY <1>1, <1>2 DEF SoleWriter

LEMMA StreamStep ==
    HandleInv /\ ThreadInv /\ StreamInv /\ [Next]_vars => StreamInv'
<1> SUFFICES ASSUME HandleInv, ThreadInv, StreamInv, [Next]_vars, target' = "take"
             PROVE  StreamInv'
  BY DEF StreamInv
<1>0. target = "take"
  BY DEF Next, Write, Stamp, WriteJson, WriteNewline, TestFlush, Flush, Sync, Close, Reopen,
         Tick, Crash, vars
<1>T. SoleWriter /\ Stream /\ (\A w \in Writers : Owing(w) /\ Holding(w))
      /\ \A r \in Records : returnedAt[r] # NotReturned => r <= stamped
  BY <1>0 DEF StreamInv
<1>N. /\ Len(file) \in Nat /\ Len(buffer) \in Nat /\ synced \in Nat
      /\ file \in Seq(Unit) /\ buffer \in Seq(Unit)
      /\ stamped \in Nat /\ lastFlush \in Nat /\ clock \in Nat
      /\ \A w \in Writers : rec[w] \in Nat /\ now[w] \in Nat
  BY NumbersAssumption, LenProperties DEF HandleInv, ThreadInv
<1>o. ASSUME NEW w \in Writers, NEW p \in Active, pc[w] \in Active, pc' = [pc EXCEPT ![w] = p],
             Owing(w)' /\ Holding(w)', Stream',
             \A r \in Records : returnedAt'[r] # NotReturned => r <= stamped'
      PROVE  StreamInv'
  <2>1. SoleWriter' /\ \A x \in Writers \ {w} : pc'[x] \notin Active \cup {"closed"}
    BY <1>o, <1>T, SoleStep
  <2>2. ASSUME NEW x \in Writers \ {w} PROVE Owing(x)' /\ Holding(x)'
    BY <2>1 DEF Owing, Holding, Active
  <2> QED  BY <1>o, <2>1, <2>2 DEF StreamInv
<1>f. ASSUME NEW units \in Seq(Unit), Buffered(units), InPlace(units, Len(file) + Len(buffer))
      PROVE  /\ Stream'
             /\ Len(file') + Len(buffer') = Len(file) + Len(buffer) + Len(units)
             /\ Len(file') \in Nat /\ Len(buffer') \in Nat
  <2>1. InPlace(file, 0) /\ InPlace(buffer, Len(file))
    BY <1>T DEF Stream
  <2> QED  BY <1>f, <2>1, Filling DEF Stream
<1>1. ASSUME NEW w \in Writers, Stamp(w) PROVE StreamInv'
  <2>1. /\ pc[w] = "idle" /\ pc' = [pc EXCEPT ![w] = "json"] /\ ~closing
        /\ stamped' = stamped + 1 /\ rec' = [rec EXCEPT ![w] = stamped + 1]
        /\ UNCHANGED <<buffer, file, synced, returnedAt>>
    BY <1>1 DEF Stamp, handleVars
  <2>2. pc'[w] = "json" /\ rec'[w] = stamped'
    BY <2>1 DEF ThreadInv
  <2>3. Owing(w)' /\ Holding(w)'
    BY <2>1, <2>2, <1>T, <1>N DEF Owing, Holding
  <2>4. Stream'
    BY <2>1, <1>T DEF Stream
  <2>5. \A r \in Records : returnedAt'[r] # NotReturned => r <= stamped'
    BY <2>1, <1>T, <1>N, NumbersAssumption DEF Records
  <2> QED  BY <2>1, <2>3, <2>4, <2>5, <1>o DEF Active
<1>2. ASSUME NEW w \in Writers, WriteJson(w) PROVE StreamInv'
  <2>1. /\ pc[w] = "json" /\ pc' = [pc EXCEPT ![w] = "newline"]
        /\ Buffered(Json(rec[w])) /\ UNCHANGED <<stamped, rec, returnedAt>>
    BY <1>2 DEF WriteJson
  <2>2. pc'[w] = "newline"
    BY <2>1 DEF ThreadInv
  <2>3. /\ Len(file) + Len(buffer) = 3 * stamped - 3 /\ rec[w] = stamped
        /\ Len(file) + Len(buffer) \in Nat
    BY <2>1, <1>T, <1>N DEF Owing, Holding
  <2>4. Json(rec[w]) \in Seq(Unit) /\ Len(Json(rec[w])) = 2
        /\ InPlace(Json(rec[w]), Len(file) + Len(buffer))
    BY <2>3, <1>N, TextIsUnits, TextInPlace
  <2>5. PICK u \in Seq(Unit) : u = Json(rec[w])
    BY <2>4
  <2>8. Buffered(u) /\ Len(u) = 2
    BY <2>1, <2>4, <2>5 DEF Buffered
  <2>9. InPlace(u, Len(file) + Len(buffer))
    BY <2>4, <2>5 DEF InPlace
  <2>7. /\ Stream' /\ Len(file') \in Nat /\ Len(buffer') \in Nat
        /\ Len(file') + Len(buffer') = Len(file) + Len(buffer) + 2
    <3>1. /\ Stream' /\ Len(file') \in Nat /\ Len(buffer') \in Nat
          /\ Len(file') + Len(buffer') = Len(file) + Len(buffer) + Len(u)
      BY <2>8, <2>9, <1>f
    <3> QED  BY <2>8, <3>1
  <2>6. Owing(w)' /\ Holding(w)'
    BY <2>1, <2>2, <2>3, <2>7, <1>N DEF Owing, Holding
  <2> QED  BY <2>1, <2>6, <2>7, <1>T, <1>o DEF Active
<1>3. ASSUME NEW w \in Writers, WriteNewline(w) PROVE StreamInv'
  <2>1. /\ pc[w] = "newline" /\ pc' = [pc EXCEPT ![w] = "due"]
        /\ Buffered(Newline(rec[w])) /\ UNCHANGED <<stamped, rec, returnedAt>>
    BY <1>3 DEF WriteNewline
  <2>2. pc'[w] = "due"
    BY <2>1 DEF ThreadInv
  <2>3. /\ Len(file) + Len(buffer) = 3 * stamped - 1 /\ rec[w] = stamped
        /\ Len(file) + Len(buffer) \in Nat
    BY <2>1, <1>T, <1>N DEF Owing, Holding
  <2>4. Newline(rec[w]) \in Seq(Unit) /\ Len(Newline(rec[w])) = 1
        /\ InPlace(Newline(rec[w]), Len(file) + Len(buffer))
    BY <2>3, <1>N, TextIsUnits, TextInPlace
  <2>5. PICK u \in Seq(Unit) : u = Newline(rec[w])
    BY <2>4
  <2>8. Buffered(u) /\ Len(u) = 1
    BY <2>1, <2>4, <2>5 DEF Buffered
  <2>9. InPlace(u, Len(file) + Len(buffer))
    BY <2>4, <2>5 DEF InPlace
  <2>7. /\ Stream' /\ Len(file') \in Nat /\ Len(buffer') \in Nat
        /\ Len(file') + Len(buffer') = Len(file) + Len(buffer) + 1
    <3>1. /\ Stream' /\ Len(file') \in Nat /\ Len(buffer') \in Nat
          /\ Len(file') + Len(buffer') = Len(file) + Len(buffer) + Len(u)
      BY <2>8, <2>9, <1>f
    <3> QED  BY <2>8, <3>1
  <2>6. Owing(w)' /\ Holding(w)'
    BY <2>1, <2>2, <2>3, <2>7, <1>N DEF Owing, Holding
  <2> QED  BY <2>1, <2>6, <2>7, <1>T, <1>o DEF Active
<1>4. ASSUME NEW w \in Writers, TestFlush(w) PROVE StreamInv'
  <2>1. /\ pc[w] = "due" /\ now' = [now EXCEPT ![w] = clock]
        /\ UNCHANGED <<buffer, file, stamped, lastFlush, rec, closing>>
    BY <1>4 DEF TestFlush, handleVars
  <2>2. Stream' /\ Len(file) + Len(buffer) = 3 * stamped /\ rec[w] = stamped
    BY <2>1, <1>T DEF Stream, Owing, Holding
  <2>3. Interval \in Nat /\ now'[w] = clock
    BY <2>1, NumbersAssumption DEF Interval, ThreadInv
  <2>4. CASE FlushDue /\ pc' = [pc EXCEPT ![w] = "flush"] /\ UNCHANGED returnedAt
    <3>1. pc'[w] = "flush"
      BY <2>4 DEF ThreadInv
    <3>2. Owing(w)'
      BY <2>1, <2>2, <3>1 DEF Owing
    <3>3. Holding(w)'
      BY <2>1, <2>2, <2>3, <2>4, <3>1, <1>N DEF Holding, FlushDue
    <3> QED  BY <2>1, <2>2, <2>4, <3>2, <3>3, <1>T, <1>o DEF Active
  <2>5. CASE /\ pc' = [pc EXCEPT ![w] = "idle"]
             /\ returnedAt' = [returnedAt EXCEPT ![rec[w]] = clock]
    <3>1. pc'[w] = "idle"
      BY <2>5 DEF ThreadInv
    <3>2. Owing(w)' /\ Holding(w)'
      BY <2>1, <2>2, <3>1 DEF Owing, Holding
    <3>3. ASSUME NEW r \in Records, returnedAt'[r] # NotReturned PROVE r <= stamped'
      BY <3>3, <2>1, <2>2, <2>5, <1>T, <1>N DEF ThreadInv
    <3> QED  BY <2>1, <2>2, <2>5, <3>2, <3>3, <1>o DEF Active
  <2> QED  BY <1>4, <2>4, <2>5 DEF TestFlush
<1>5. ASSUME NEW w \in Writers, Flush(w) PROVE StreamInv'
  <2>1. /\ pc[w] = "flush" /\ pc' = [pc EXCEPT ![w] = "sync"]
        /\ file' = file \o buffer /\ buffer' = <<>>
        /\ UNCHANGED <<stamped, lastFlush, rec, now, closing, returnedAt>>
    BY <1>5 DEF Flush
  <2>2. pc'[w] = "sync"
    BY <2>1 DEF ThreadInv
  <2>3. 0 + Len(file) = Len(file) /\ Len(<<>>) = 0 /\ 1..0 = {}
    BY <1>N
  <2>4. InPlace(file \o buffer, 0) /\ Len(file \o buffer) = Len(file) + Len(buffer)
    BY <2>3, <1>N, <1>T, PlaceConcat DEF Stream
  <2>5. Stream'
    BY <2>1, <2>3, <2>4 DEF Stream, InPlace
  <2>6. Owing(w)'
    <3>1. Len(file') + Len(buffer') = 3 * stamped'
      <4>1. Len(file) + Len(buffer) = 3 * stamped
        BY <2>1, <1>T DEF Owing
      <4>2. Len(file') = 3 * stamped' /\ Len(buffer') = 0
        BY <2>1, <2>3, <2>4, <4>1
      <4> QED  BY <4>2, <2>1, <1>N
    <3> QED  BY <2>1, <2>2, <3>1 DEF Owing
  <2>7. Holding(w)'
    BY <2>1, <2>2, <1>T DEF Holding
  <2> QED  BY <2>1, <2>5, <2>6, <2>7, <1>T, <1>o DEF Active
<1>6. ASSUME NEW w \in Writers, Sync(w) PROVE StreamInv'
  <2>1. /\ pc[w] = "sync" /\ UNCHANGED <<stamped, buffer, file, rec, now, closing>>
    BY <1>6 DEF Sync
  <2>2. /\ buffer = <<>> /\ Len(<<>>) = 0 /\ Len(file) + Len(buffer) = 3 * stamped
        /\ Len(file) = 3 * stamped
    BY <2>1, <1>T, <1>N DEF Owing
  <2>3. Stream'
    BY <2>1, <1>T DEF Stream
  <2>4. CASE closing
    <3>1. pc' = [x \in Writers |-> "closed"] /\ UNCHANGED returnedAt
      BY <1>6, <2>4 DEF Sync
    <3>2. SoleWriter'
      BY <3>1 DEF SoleWriter, Active
    <3>3. ASSUME NEW x \in Writers PROVE Owing(x)' /\ Holding(x)'
      BY <3>1, <2>1, <2>2 DEF Owing, Holding
    <3> QED  BY <2>1, <2>3, <3>1, <3>2, <3>3, <1>T DEF StreamInv
  <2>5. CASE ~closing
    <3>1. /\ pc' = [pc EXCEPT ![w] = "idle"]
          /\ returnedAt' = [returnedAt EXCEPT ![rec[w]] = now[w]]
      BY <1>6, <2>5 DEF Sync
    <3>2. pc'[w] = "idle" /\ rec[w] = stamped
      BY <2>1, <2>5, <3>1, <1>T DEF ThreadInv, Holding
    <3>3. Owing(w)' /\ Holding(w)'
      BY <2>1, <2>2, <3>2 DEF Owing, Holding
    <3>4. ASSUME NEW r \in Records, returnedAt'[r] # NotReturned PROVE r <= stamped'
      BY <3>4, <2>1, <3>1, <3>2, <1>T, <1>N DEF ThreadInv
    <3> QED  BY <2>1, <2>3, <3>1, <3>3, <3>4, <1>o DEF Active
  <2> QED  BY <2>4, <2>5
<1>7. ASSUME NEW w \in Writers, Close(w) PROVE StreamInv'
  <2>1. /\ pc[w] = "idle" /\ pc' = [pc EXCEPT ![w] = "flush"] /\ closing'
        /\ UNCHANGED <<buffer, file, stamped, returnedAt>>
    BY <1>7 DEF Close, handleVars
  <2>2. pc'[w] = "flush"
    BY <2>1 DEF ThreadInv
  <2>3. Owing(w)' /\ Holding(w)' /\ Stream'
    BY <2>1, <2>2, <1>T DEF Owing, Holding, Stream
  <2> QED  BY <2>1, <2>3, <1>T, <1>o DEF Active
<1>8. ASSUME NEW w \in Writers, Reopen(w) PROVE FALSE
  BY <1>8, <1>0 DEF Reopen
<1>9. CASE Tick \/ UNCHANGED vars
  <2>1. UNCHANGED <<buffer, file, stamped, lastFlush, pc, rec, now, closing, returnedAt>>
    BY <1>9 DEF Tick, vars, handleVars
  <2>2. SoleWriter' /\ Stream' /\ \A w \in Writers : Owing(w)' /\ Holding(w)'
    BY <2>1, <1>T DEF SoleWriter, Stream, Owing, Holding
  <2> QED  BY <2>1, <2>2, <1>T DEF StreamInv
<1>10. CASE Crash
  <2>1. PICK n \in synced..Len(file) :
           /\ file' = Prefix(file, n) /\ buffer' = <<>>
           /\ pc' = [w \in Writers |-> "crashed"] /\ UNCHANGED <<stamped, returnedAt>>
    BY <1>10 DEF Crash
  <2>2. n \in 0..Len(file) /\ Len(<<>>) = 0 /\ 1..0 = {}
    BY <1>N
  <2>3. InPlace(Prefix(file, n), 0)
    BY <2>2, <1>N, <1>T, PlacePrefix DEF Stream
  <2>4. Stream'
    BY <2>1, <2>2, <2>3 DEF Stream, InPlace
  <2>5. SoleWriter' /\ \A w \in Writers : Owing(w)' /\ Holding(w)'
    BY <2>1 DEF SoleWriter, Owing, Holding, Active
  <2> QED  BY <2>1, <2>4, <2>5, <1>T DEF StreamInv
<1> QED  BY <1>1, <1>2, <1>3, <1>4, <1>5, <1>6, <1>7, <1>8, <1>9, <1>10 DEF Next, Write

-----------------------------------------------------------------------------
(* How much a crash may cost: where the end of a record's line is, from the *)
(* moment it was written until it is on disk.                              *)

Nl(r) == [rec |-> r, part |-> "nl"]

\* Unit u is among the first n of f.
In(u, f, n) == \E i \in 1..n : f[i] = u

\* Unit u was written: it is in the file or in the buffer.
There(u) == In(u, file, Len(file)) \/ In(u, buffer, Len(buffer))

LEMMA InConcat ==
    ASSUME NEW u, NEW f \in Seq(Unit), NEW g \in Seq(Unit),
           In(u, f, Len(f)) \/ In(u, g, Len(g))
    PROVE  In(u, f \o g, Len(f \o g))
<1>1. Len(f) \in Nat /\ Len(g) \in Nat /\ Len(f \o g) = Len(f) + Len(g)
  BY LenProperties, ConcatProperties
<1>2. CASE In(u, f, Len(f))
  <2>1. PICK i \in 1..Len(f) : f[i] = u
    BY <1>2 DEF In
  <2>2. i \in 1..Len(f \o g) /\ (f \o g)[i] = u
    BY <1>1, <2>1, ConcatProperties
  <2> QED  BY <2>2 DEF In
<1>3. CASE In(u, g, Len(g))
  <2>1. PICK i \in 1..Len(g) : g[i] = u
    BY <1>3 DEF In
  <2>2. /\ Len(f) + i \in 1..Len(f \o g) /\ Len(f) + i \in Nat /\ Len(f) + i > Len(f)
        /\ Len(f) + i <= Len(f) + Len(g) /\ (Len(f) + i) - Len(f) = i
    BY <1>1
  <2>3. (f \o g)[Len(f) + i] = g[(Len(f) + i) - Len(f)]
    BY <2>2, ConcatProperties
  <2> QED  BY <2>1, <2>2, <2>3 DEF In
<1> QED  BY <1>2, <1>3

\* A unit among the first m stays where they stay.
LEMMA InKept ==
    ASSUME NEW u, NEW f \in Seq(Unit), NEW g \in Seq(Unit), NEW m \in Nat, NEW n \in Nat,
           m <= Len(f), m <= n, Prefix(g, m) = Prefix(f, m), In(u, f, m)
    PROVE  In(u, g, n)
<1>1. PICK i \in 1..m : f[i] = u
  BY DEF In
<1>2. SubSeq(f, 1, m) = [j \in 1..m |-> f[j]] /\ SubSeq(g, 1, m) = [j \in 1..m |-> g[j]]
  OBVIOUS
<1>3. g[i] = f[i]
  BY <1>2 DEF Prefix
<1> QED  BY <1>1, <1>3 DEF In

\* What was written stays there when more is put in the buffer, and what is put
\* there is there.
LEMMA BufferedThere ==
    ASSUME HandleInv, NEW units \in Seq(Unit), Buffered(units), NEW u,
           There(u) \/ In(u, units, Len(units))
    PROVE  There(u)'
<1>1. buffer \in Seq(Unit) /\ file \in Seq(Unit)
  BY DEF HandleInv
<1>2. CASE file' = file /\ buffer' = buffer \o units
  BY <1>1, <1>2, InConcat DEF There
<1>3. CASE file' = file \o buffer /\ buffer' = units
  BY <1>1, <1>3, InConcat DEF There
<1> QED  BY <1>2, <1>3 DEF Buffered

\* Where the record in w's hands is.
Written(w) ==
    /\ pc[w] \in {"due", "flush"} /\ ~closing => There(Nl(rec[w]))
    /\ pc[w] = "sync" /\ ~closing => In(Nl(rec[w]), file, Len(file))
    /\ closing => pc[w] \notin {"json", "newline", "due"}
    /\ now[w] <= clock

Crashed == \E w \in Writers : pc[w] = "crashed"

\* Record r was returned since the last flush, and less than an interval after
\* it; until a crash it is written, if not on disk.
Young(r) ==
    /\ target = "take" /\ lastFlush <= returnedAt[r] /\ returnedAt[r] - lastFlush < Interval
    /\ Crashed \/ There(Nl(r))

Safe(r) ==
    returnedAt[r] = NotReturned \/ In(Nl(r), file, synced) \/ Young(r)

\* Nothing was returned an interval after the last flush.
Recent(r) ==
    target = "take" /\ returnedAt[r] # NotReturned =>
        returnedAt[r] <= lastFlush \/ returnedAt[r] - lastFlush < Interval

\* A crash takes every thread with it, and no thread starts on the file of a take again.
AllCrashed == target = "take" /\ Crashed => \A w \in Writers : pc[w] = "crashed"

LossInv ==
    /\ lastFlush <= clock
    /\ \A w \in Writers : Written(w)
    /\ \A r \in Records : Safe(r) /\ Recent(r)
    /\ AllCrashed

LEMMA LossInit == Init => LossInv
<1> SUFFICES ASSUME Init PROVE LossInv
  OBVIOUS
<1>1. lastFlush <= clock /\ \A r \in Records : Safe(r) /\ Recent(r)
  BY DEF Init, Safe, Recent
<1>3. AllCrashed
  <2>1. \A w \in Writers : pc[w] # "crashed"
    BY DEF Init
  <2> QED  BY <2>1 DEF AllCrashed, Crashed
<1>2. ASSUME NEW w \in Writers PROVE Written(w)
  BY DEF Init, Written
<1> QED  BY <1>1, <1>2, <1>3 DEF LossInv

LEMMA LossStep ==
    HandleInv /\ ThreadInv /\ StreamInv /\ LossInv /\ [Next]_vars => LossInv'
<1> SUFFICES ASSUME HandleInv, ThreadInv, StreamInv, LossInv, [Next]_vars PROVE LossInv'
  OBVIOUS
<1>k. HandleInv' /\ Kept
  BY HandleStep
<1>l. /\ lastFlush <= clock /\ (\A w \in Writers : Written(w)) /\ AllCrashed
      /\ \A r \in Records : Safe(r) /\ Recent(r)
  BY DEF LossInv
<1>N. /\ Len(file) \in Nat /\ Len(buffer) \in Nat /\ synced \in Nat /\ synced <= Len(file)
      /\ file \in Seq(Unit) /\ buffer \in Seq(Unit) /\ file' \in Seq(Unit)
      /\ stamped \in Nat /\ lastFlush \in Nat /\ clock \in Nat /\ Interval \in Nat
      /\ synced' \in Nat
      /\ \A w \in Writers : rec[w] \in Nat /\ now[w] \in Nat
  BY <1>k, NumbersAssumption, LenProperties DEF HandleInv, ThreadInv, Interval
<1>s. ASSUME NEW u, In(u, file, synced) PROVE In(u, file', synced')
  <2>1. synced' >= synced /\ Prefix(file', synced) = Prefix(file, synced)
    BY <1>k DEF Kept
  <2> QED  BY <1>s, <1>N, <2>1, InKept
<1>r. ASSUME UNCHANGED <<target, lastFlush, returnedAt>>,
             Crashed' \/ (target = "take" => ~Crashed /\ \A u : There(u) => There(u)')
      PROVE  \A r \in Records : Safe(r)' /\ Recent(r)'
  <2>1. ASSUME NEW r \in Records, target = "take", ~Crashed', There(Nl(r))
        PROVE  There(Nl(r))'
    <3>1. PICK u : u = Nl(r)
      OBVIOUS
    <3>2. There(u) /\ u' = u
      BY <2>1, <3>1
    <3>3. There(u)'
      BY <1>r, <2>1, <3>2
    <3> QED  BY <3>1, <3>3 DEF There, Nl
  <2>2. ASSUME NEW r \in Records, Young(r) PROVE Young(r)'
    BY <1>r, <2>1, <2>2 DEF Young, Interval
  <2>3. ASSUME NEW r \in Records, In(Nl(r), file, synced) PROVE In(Nl(r), file, synced)'
    BY <1>s, <2>3 DEF Nl
  <2> QED  BY <1>l, <1>r, <2>2, <2>3 DEF Safe, Recent, Interval
<1>a. ASSUME NEW w \in Writers, pc[w] # "crashed", target' = target,
             \A x \in Writers : pc'[x] = "crashed" => pc[x] = "crashed"
      PROVE  AllCrashed' /\ (target = "take" => ~Crashed)
  BY <1>a, <1>l DEF AllCrashed, Crashed
<1>1. ASSUME NEW w \in Writers, Stamp(w) PROVE LossInv'
  <2>1. /\ ~closing /\ pc' = [pc EXCEPT ![w] = "json"] /\ rec' = [rec EXCEPT ![w] = stamped + 1]
        /\ UNCHANGED <<target, clock, buffer, file, lastFlush, now, closing, returnedAt>>
    BY <1>1 DEF Stamp, handleVars
  <2>2. Written(w)'
    BY <1>l, <2>1 DEF ThreadInv, Written
  <2>3. ASSUME NEW x \in Writers \ {w} PROVE Written(x)'
    BY <1>l, <2>1 DEF ThreadInv, Written, There, In
  <2>4. AllCrashed' /\ (target = "take" => ~Crashed)
    BY <1>1, <1>a, <2>1 DEF Stamp, ThreadInv
  <2>5. \A u : There(u) => There(u)'
    BY <2>1 DEF There
  <2> QED  BY <1>l, <1>r, <2>1, <2>2, <2>3, <2>4, <2>5 DEF LossInv
<1>w. ASSUME NEW x \in Writers, pc'[x] = pc[x], rec'[x] = rec[x], now'[x] = now[x],
             UNCHANGED <<clock, closing>>,
             \A u : There(u) => There(u)',
             \A u : In(u, file, Len(file)) => In(u, file', Len(file'))
      PROVE  Written(x)'
  BY <1>w, <1>l DEF Written
<1>b. ASSUME NEW units \in Seq(Unit), Buffered(units)
      PROVE  /\ \A u : There(u) => There(u)'
             /\ \A u : In(u, file, Len(file)) => In(u, file', Len(file'))
             /\ \A u : In(u, units, Len(units)) => There(u)'
  <2>1. ASSUME NEW u, In(u, file, Len(file)) PROVE In(u, file', Len(file'))
    <3>1. file' = file \/ file' = file \o buffer
      BY <1>b DEF Buffered
    <3> QED  BY <2>1, <3>1, <1>N, InConcat
  <2> QED  BY <1>b, <2>1, BufferedThere
<1>2. ASSUME NEW w \in Writers, WriteJson(w) PROVE LossInv'
  <2>1. /\ pc[w] = "json" /\ pc' = [pc EXCEPT ![w] = "newline"] /\ Buffered(Json(rec[w]))
        /\ UNCHANGED <<target, clock, lastFlush, rec, now, closing, returnedAt>>
    BY <1>2 DEF WriteJson
  <2>2. Written(w)'
    BY <1>l, <2>1 DEF ThreadInv, Written
  <2>3. PICK units \in Seq(Unit) : units = Json(rec[w])
    BY <1>N, TextIsUnits
  <2>4. Buffered(units)
    BY <2>1, <2>3 DEF Buffered
  <2>5. ASSUME NEW x \in Writers \ {w} PROVE Written(x)'
    <3>1. pc'[x] = pc[x] /\ rec'[x] = rec[x] /\ now'[x] = now[x]
      BY <2>1 DEF ThreadInv
    <3> QED  BY <2>1, <2>4, <3>1, <1>b, <1>w
  <2>6. AllCrashed' /\ (target = "take" => ~Crashed)
    BY <1>a, <2>1 DEF ThreadInv
  <2>7. \A r \in Records : Safe(r)' /\ Recent(r)'
    BY <1>b, <1>r, <2>1, <2>4, <2>6
  <2> QED  BY <1>l, <2>1, <2>2, <2>5, <2>6, <2>7 DEF LossInv
<1>3. ASSUME NEW w \in Writers, WriteNewline(w) PROVE LossInv'
  <2>1. /\ pc[w] = "newline" /\ pc' = [pc EXCEPT ![w] = "due"] /\ Buffered(Newline(rec[w]))
        /\ UNCHANGED <<target, clock, lastFlush, rec, now, closing, returnedAt>>
    BY <1>3 DEF WriteNewline
  <2>3. PICK units \in Seq(Unit) : units = Newline(rec[w])
    BY <1>N, TextIsUnits
  <2>4. Buffered(units)
    BY <2>1, <2>3 DEF Buffered
  <2>2. Written(w)'
    <3>1. pc'[w] = "due" /\ ~closing /\ rec'[w] = rec[w]
      BY <1>l, <2>1 DEF ThreadInv, Written
    <3>2. Len(units) = 1 /\ units[1] = Nl(rec[w]) /\ 1 \in 1..1
      BY <2>3 DEF Newline, Nl
    <3>3. In(Nl(rec[w]), units, Len(units))
      BY <3>2 DEF In
    <3>4. There(Nl(rec[w]))'
      <4>1. PICK u : u = Nl(rec[w])
        OBVIOUS
      <4>2. u' = u
        OBVIOUS
      <4>3. In(u, units, Len(units))
        BY <3>3, <4>1
      <4>4. There(u)'
        BY <2>4, <4>3, <1>b
      <4> QED  BY <2>1, <4>1, <4>4 DEF There
    <3> QED  BY <1>l, <2>1, <3>1, <3>4 DEF Written
  <2>5. ASSUME NEW x \in Writers \ {w} PROVE Written(x)'
    <3>1. pc'[x] = pc[x] /\ rec'[x] = rec[x] /\ now'[x] = now[x]
      BY <2>1 DEF ThreadInv
    <3> QED  BY <2>1, <2>4, <3>1, <1>b, <1>w
  <2>6. AllCrashed' /\ (target = "take" => ~Crashed)
    BY <1>a, <2>1 DEF ThreadInv
  <2>7. \A r \in Records : Safe(r)' /\ Recent(r)'
    BY <1>b, <1>r, <2>1, <2>4, <2>6
  <2> QED  BY <1>l, <2>1, <2>2, <2>5, <2>6, <2>7 DEF LossInv
<1>4. ASSUME NEW w \in Writers, TestFlush(w) PROVE LossInv'
  <2>1. /\ pc[w] = "due" /\ now' = [now EXCEPT ![w] = clock]
        /\ UNCHANGED <<target, clock, buffer, file, synced, lastFlush, rec, closing>>
        /\ \E p \in {"flush", "idle"} : pc' = [pc EXCEPT ![w] = p]
    BY <1>4 DEF TestFlush, handleVars
  <2>2. (\A u : There(u) => There(u)') /\ \A u : In(u, file, Len(file)) => In(u, file', Len(file'))
    BY <2>1 DEF There
  <2>3. Written(w)'
    <3>1. ~closing /\ There(Nl(rec[w])) /\ now'[w] = clock /\ pc'[w] \in {"flush", "idle"}
      BY <1>l, <2>1 DEF ThreadInv, Written
    <3> QED  BY <1>N, <2>1, <3>1 DEF Written, There
  <2>4. ASSUME NEW x \in Writers \ {w} PROVE Written(x)'
    <3>1. pc'[x] = pc[x] /\ rec'[x] = rec[x] /\ now'[x] = now[x]
      BY <2>1 DEF ThreadInv
    <3> QED  BY <2>1, <2>2, <3>1, <1>w
  <2>6. AllCrashed' /\ (target = "take" => ~Crashed)
    BY <1>a, <2>1 DEF ThreadInv
  <2>5. ASSUME NEW r \in Records PROVE Safe(r)' /\ Recent(r)'
    <3>1. CASE FlushDue
      BY <1>4, <1>r, <2>1, <2>2, <2>6, <3>1 DEF TestFlush
    <3>2. CASE ~FlushDue
      <4>1. returnedAt' = [returnedAt EXCEPT ![rec[w]] = clock]
        BY <1>4, <3>2 DEF TestFlush
      <4>2. target = "take" /\ clock - lastFlush < Interval
        BY <1>l, <1>N, <3>2 DEF FlushDue, Interval
      <4>3. CASE r = rec[w]
        <5>1. There(Nl(rec[w]))
          BY <1>l, <2>1, <4>2 DEF Written, StreamInv, Holding, ThreadInv
        <5>2. There(Nl(r))'
          BY <2>1, <4>3, <5>1 DEF There, Nl
        <5>3. returnedAt'[r] = clock /\ lastFlush <= clock
          BY <1>l, <4>1, <4>3 DEF ThreadInv
        <5>4. Young(r)'
          BY <2>1, <4>2, <5>2, <5>3 DEF Young, Interval
        <5>5. Recent(r)'
          BY <2>1, <4>2, <5>3 DEF Recent, Interval
        <5> QED  BY <5>4, <5>5 DEF Safe
      <4>4. CASE r # rec[w]
        <5>1. returnedAt'[r] = returnedAt[r]
          BY <4>1, <4>4 DEF ThreadInv
        <5>2. Young(r) => Young(r)'
          BY <2>1, <2>6, <4>2, <5>1 DEF Young, Interval, There, Nl
        <5> QED  BY <1>l, <2>1, <5>1, <5>2 DEF Safe, Recent, Interval
      <4> QED  BY <4>3, <4>4
    <3> QED  BY <3>1, <3>2
  <2> QED  BY <1>l, <2>1, <2>3, <2>4, <2>5, <2>6 DEF LossInv
<1>5. ASSUME NEW w \in Writers, Flush(w) PROVE LossInv'
  <2>1. /\ pc[w] = "flush" /\ pc' = [pc EXCEPT ![w] = "sync"] /\ file' = file \o buffer
        /\ UNCHANGED <<target, clock, lastFlush, rec, now, closing, returnedAt>>
    BY <1>5 DEF Flush
  <2>2. ASSUME NEW u, There(u) PROVE In(u, file', Len(file'))
    BY <2>1, <2>2, <1>N, InConcat DEF There
  <2>3. \A u : In(u, file, Len(file)) => In(u, file', Len(file'))
    BY <2>2 DEF There
  <2>4. Written(w)'
    <3>1. pc'[w] = "sync"
      BY <2>1 DEF ThreadInv
    <3>2. closing \/ In(Nl(rec[w]), file', Len(file'))
      BY <1>l, <2>1, <2>2 DEF Written
    <3> QED  BY <1>l, <2>1, <3>1, <3>2 DEF Written
  <2>5. ASSUME NEW x \in Writers \ {w} PROVE Written(x)'
    <3>1. pc'[x] = pc[x] /\ rec'[x] = rec[x] /\ now'[x] = now[x]
      BY <2>1 DEF ThreadInv
    <3>2. \A u : There(u) => There(u)'
      BY <2>2 DEF There
    <3> QED  BY <2>1, <2>3, <3>1, <3>2, <1>w
  <2>6. AllCrashed' /\ (target = "take" => ~Crashed)
    BY <1>a, <2>1 DEF ThreadInv
  <2>7. \A u : There(u) => There(u)'
    BY <2>2 DEF There
  <2>8. \A r \in Records : Safe(r)' /\ Recent(r)'
    BY <1>r, <2>1, <2>6, <2>7
  <2> QED  BY <1>l, <2>1, <2>4, <2>5, <2>6, <2>8 DEF LossInv
<1>6. ASSUME NEW w \in Writers, Sync(w) PROVE LossInv'
  <2>1. /\ pc[w] = "sync" /\ UNCHANGED <<target, clock, buffer, file, rec, now, closing>>
        /\ synced' = Len(file)
    BY <1>6 DEF Sync, Fsync
  <2>2. CASE closing
    <3>1. pc' = [x \in Writers |-> "closed"] /\ UNCHANGED <<lastFlush, returnedAt>>
      BY <1>6, <2>2 DEF Sync
    <3>2. ASSUME NEW x \in Writers PROVE Written(x)'
      BY <1>l, <2>1, <3>1 DEF Written
    <3>3. AllCrashed' /\ (target = "take" => ~Crashed)
      BY <1>a, <2>1, <3>1
    <3>4. \A u : There(u) => There(u)'
      BY <2>1 DEF There
    <3>5. \A r \in Records : Safe(r)' /\ Recent(r)'
      BY <1>r, <2>1, <3>1, <3>3, <3>4
    <3> QED  BY <1>l, <2>1, <3>1, <3>2, <3>3, <3>5 DEF LossInv
  <2>3. CASE ~closing
    <3>1. /\ pc' = [pc EXCEPT ![w] = "idle"] /\ lastFlush' = now[w]
          /\ returnedAt' = [returnedAt EXCEPT ![rec[w]] = now[w]]
      BY <1>6, <2>3 DEF Sync
    <3>2. In(Nl(rec[w]), file, Len(file)) /\ now[w] <= clock
      BY <1>l, <2>1, <2>3 DEF Written
    <3>3. Written(w)'
      BY <1>l, <2>1, <3>1 DEF ThreadInv, Written
    <3>4. ASSUME NEW x \in Writers \ {w} PROVE Written(x)'
      <4>1. pc'[x] = pc[x] /\ rec'[x] = rec[x] /\ now'[x] = now[x]
        BY <2>1, <3>1 DEF ThreadInv
      <4>2. (\A u : There(u) => There(u)')
            /\ \A u : In(u, file, Len(file)) => In(u, file', Len(file'))
        BY <2>1 DEF There
      <4> QED  BY <2>1, <4>1, <4>2, <1>w
    <3>6. AllCrashed' /\ (target = "take" => ~Crashed)
      BY <1>a, <2>1, <3>1 DEF ThreadInv
    <3>7. target = "take" => lastFlush <= now[w] /\ buffer = <<>>
      BY <2>1, <2>3 DEF StreamInv, Holding, Owing
    <3>5. ASSUME NEW r \in Records PROVE Safe(r)' /\ Recent(r)'
      <4>1. CASE r = rec[w]
        <5>1. In(Nl(r), file', synced')
          BY <2>1, <3>2, <4>1
        <5>2. returnedAt'[r] = now[w]
          BY <3>1, <4>1 DEF ThreadInv
        <5> QED  BY <1>N, <3>1, <5>1, <5>2 DEF Safe, Recent, Nl
      <4>2. CASE r # rec[w]
        <5>1. returnedAt'[r] = returnedAt[r] /\ returnedAt[r] \in Int
          BY <3>1, <4>2, NumbersAssumption DEF ThreadInv
        <5>2. ASSUME Young(r) PROVE In(Nl(r), file', synced')
          <6>1. In(Nl(r), file, Len(file)) \/ In(Nl(r), <<>>, Len(<<>>))
            BY <3>6, <3>7, <5>2 DEF Young, There
          <6> QED  BY <2>1, <6>1 DEF In
        <5>3. In(Nl(r), file, synced) => In(Nl(r), file', synced')
          BY <1>s
        <5>4. Safe(r)'
          BY <1>l, <5>1, <5>2, <5>3 DEF Safe, Nl
        <5>5. Recent(r)'
          <6>1. Interval' = Interval /\ target' = target
            BY <2>1 DEF Interval
          <6> QED  BY <1>l, <1>N, <3>1, <3>7, <5>1, <6>1 DEF Recent
        <5> QED  BY <5>4, <5>5
      <4> QED  BY <4>1, <4>2
    <3> QED  BY <2>1, <3>1, <3>2, <3>3, <3>4, <3>5, <3>6 DEF LossInv
  <2> QED  BY <2>2, <2>3
<1>7. ASSUME NEW w \in Writers, Close(w) PROVE LossInv'
  <2>1. /\ \A x \in Writers : pc[x] \in {"idle", "off"}
        /\ pc' = [pc EXCEPT ![w] = "flush"] /\ closing'
        /\ UNCHANGED <<target, clock, lastFlush, rec, now, returnedAt>>
    BY <1>7 DEF Close
  <2>2. ASSUME NEW x \in Writers PROVE Written(x)'
    BY <1>l, <2>1 DEF ThreadInv, Written
  <2>3. AllCrashed' /\ (target = "take" => ~Crashed)
    BY <1>7, <1>a, <2>1 DEF Close, ThreadInv
  <2>4. \A u : There(u) => There(u)'
    BY <1>7 DEF Close, handleVars, There
  <2>5. \A r \in Records : Safe(r)' /\ Recent(r)'
    BY <1>r, <2>1, <2>3, <2>4
  <2> QED  BY <1>l, <2>1, <2>2, <2>3, <2>5 DEF LossInv
<1>8. ASSUME NEW w \in Writers, Reopen(w) PROVE LossInv'
  <2>1. /\ target = "events" /\ lastFlush' = clock
        /\ pc' = [x \in Writers |-> IF x = w THEN "idle" ELSE "off"]
        /\ UNCHANGED <<target, clock, rec, now, returnedAt>>
    BY <1>8 DEF Reopen
  <2>2. ASSUME NEW x \in Writers PROVE Written(x)'
    BY <1>l, <2>1 DEF Written
  <2>3. ASSUME NEW r \in Records PROVE Safe(r)' /\ Recent(r)'
    BY <1>l, <1>s, <2>1 DEF Safe, Young, Recent, Nl
  <2>4. AllCrashed'
    BY <2>1 DEF AllCrashed
  <2> QED  BY <1>N, <2>1, <2>2, <2>3, <2>4 DEF LossInv
<1>9. CASE Tick \/ UNCHANGED vars
  <2>1. /\ UNCHANGED <<target, buffer, file, lastFlush, pc, rec, now, closing, returnedAt>>
        /\ (clock' = clock + 1 \/ clock' = clock)
    BY <1>9 DEF Tick, vars, handleVars
  <2>2. ASSUME NEW w \in Writers PROVE Written(w)'
    BY <1>l, <1>N, <2>1 DEF Written, There, In
  <2>3. AllCrashed' /\ (Crashed' <=> Crashed)
    BY <1>l, <2>1 DEF AllCrashed, Crashed
  <2>4. \A u : There(u) => There(u)'
    BY <2>1 DEF There
  <2>5. \A r \in Records : Safe(r)' /\ Recent(r)'
    BY <1>r, <2>1, <2>3, <2>4
  <2> QED  BY <1>l, <1>N, <2>1, <2>2, <2>3, <2>5 DEF LossInv
<1>10. CASE Crash
  <2>1. pc' = [w \in Writers |-> "crashed"]
        /\ UNCHANGED <<target, clock, lastFlush, rec, now, closing, returnedAt>>
    BY <1>10 DEF Crash
  <2>2. ASSUME NEW w \in Writers PROVE Written(w)'
    BY <1>l, <2>1 DEF Written
  <2>3. AllCrashed' /\ Crashed'
    BY <2>1, FilesAssumption DEF AllCrashed, Crashed
  <2>4. \A r \in Records : Safe(r)' /\ Recent(r)'
    BY <1>r, <2>1, <2>3
  <2> QED  BY <1>l, <2>1, <2>2, <2>3, <2>4 DEF LossInv
<1> QED  BY <1>1, <1>2, <1>3, <1>4, <1>5, <1>6, <1>7, <1>8, <1>9, <1>10 DEF Next, Write

-----------------------------------------------------------------------------
(* What read_jsonl finds in units that are in place. *)

\* A unit in place r-th from the head, the tail or the newline is that of record r.
LEMMA Placed ==
    ASSUME NEW u \in Unit, NEW r \in Int
    PROVE  /\ At(u, 3 * r - 2) => u = [rec |-> r, part |-> "head"]
           /\ At(u, 3 * r - 1) => u = [rec |-> r, part |-> "tail"]
           /\ At(u, 3 * r) => u = [rec |-> r, part |-> "nl"]
<1>1. u = [rec |-> u.rec, part |-> u.part] /\ u.rec \in Nat
  BY DEF Unit
<1>2. /\ 3 * r - 2 = 3 * u.rec - 2 => r = u.rec
      /\ 3 * r - 1 = 3 * u.rec - 1 => r = u.rec
      /\ 3 * r = 3 * u.rec => r = u.rec
      /\ 3 * r - 2 # 3 * u.rec - 1 /\ 3 * r - 2 # 3 * u.rec
      /\ 3 * r - 1 # 3 * u.rec - 2 /\ 3 * r - 1 # 3 * u.rec
      /\ 3 * r # 3 * u.rec - 2 /\ 3 * r # 3 * u.rec - 1
  BY <1>1
<1> QED  BY <1>1, <1>2 DEF At

\* The records whose text is complete among n units.
Complete(n) == (n + 1) \div 3

LEMMA CompleteRange ==
    ASSUME NEW n \in Nat, NEW r \in Int
    PROVE  Complete(n) \in Nat /\ (r <= Complete(n) <=> 3 * r - 1 <= n)
BY DEF Complete

LEMMA ReadInPlace ==
    ASSUME NEW f \in Seq(Unit), InPlace(f, 0)
    PROVE  /\ ReadPositions(f) = {3 * r - 2 : r \in 1..Complete(Len(f))}
           /\ \A i \in 1..Len(f) : f[i] \in Unit /\ At(f[i], i)
<1> DEFINE R == Complete(Len(f))
<1>1. Len(f) \in Nat /\ DOMAIN f = 1..Len(f) /\ R \in Nat
  BY LenProperties, CompleteRange
<1>2. \A i \in 1..Len(f) : f[i] \in Unit /\ At(f[i], i)
  BY <1>1, ElementOfSeq DEF InPlace
<1>3. ASSUME NEW i \in ReadPositions(f) PROVE i \in {3 * r - 2 : r \in 1..R}
  <2>1. i \in 1..Len(f) /\ i + 1 \in 1..Len(f) /\ f[i].part = "head"
    BY <1>1 DEF ReadPositions, Decodes
  <2>2. i = 3 * f[i].rec - 2 /\ f[i].rec \in Nat
    BY <2>1, <1>2 DEF At, Unit
  <2>3. PICK r \in Int : r = f[i].rec
    BY <2>2
  <2>4. r >= 1 /\ 3 * r - 1 <= Len(f)
    BY <1>1, <2>1, <2>2, <2>3
  <2>5. r \in 1..R
    BY <1>1, <2>4, CompleteRange
  <2> QED  BY <2>2, <2>3, <2>5
<1>4. ASSUME NEW r \in 1..R PROVE 3 * r - 2 \in ReadPositions(f)
  <2>1. r \in Int /\ r >= 1 /\ 3 * r - 1 <= Len(f)
    BY <1>1, CompleteRange
  <2>2. 3 * r - 2 \in 1..Len(f) /\ 3 * r - 1 \in 1..Len(f) /\ 3 * r - 2 + 1 = 3 * r - 1
        /\ 3 * r - 2 + 2 = 3 * r
    BY <1>1, <2>1
  <2>3. f[3 * r - 2] = [rec |-> r, part |-> "head"] /\ f[3 * r - 1] = [rec |-> r, part |-> "tail"]
    BY <1>2, <2>1, <2>2, Placed
  <2>4. ASSUME 3 * r \in 1..Len(f) PROVE f[3 * r].part = "nl"
    <3>1. f[3 * r] \in Unit /\ At(f[3 * r], 3 * r)
      BY <1>2, <2>4
    <3>2. f[3 * r] = [rec |-> r, part |-> "nl"]
      BY <2>1, <3>1, Placed
    <3> QED  BY <3>2
  <2>5. StartsLine(f, 3 * r - 2)
    <3>1. CASE r = 1
      BY <3>1 DEF StartsLine
    <3>2. CASE r # 1
      <4>1. PICK q \in Int : q = r - 1
        BY <2>1
      <4>2. PICK j \in 1..Len(f) : j = 3 * q /\ j = 3 * r - 2 - 1
        BY <1>1, <2>1, <3>2, <4>1
      <4>3. f[3 * r - 2 - 1].part = "nl"
        <5>1. f[j].part = "nl"
          <6>1. f[j] \in Unit /\ At(f[j], j)
            BY <1>2
          <6>2. At(f[j], 3 * q)
            BY <4>2, <6>1
          <6>3. f[j] = [rec |-> q, part |-> "nl"]
            BY <6>1, <6>2, Placed
          <6> QED  BY <6>3
        <5> QED  BY <4>2, <5>1
      <4> QED  BY <4>3 DEF StartsLine
    <3> QED  BY <3>1, <3>2
  <2> QED  BY <1>1, <2>2, <2>3, <2>4, <2>5 DEF ReadPositions, Decodes
<1> QED  BY <1>2, <1>3, <1>4

LEMMA ReadCount ==
    ASSUME NEW f \in Seq(Unit), InPlace(f, 0)
    PROVE  /\ Cardinality(ReadPositions(f)) = Complete(Len(f))
           /\ ReadRecords(f) = 1..Complete(Len(f))
           /\ \A i \in ReadPositions(f) : i = 3 * f[i].rec - 2 /\ f[i].rec \in Nat
<1> DEFINE R == Complete(Len(f))
           g == [r \in 1..R |-> 3 * r - 2]
<1>1. Len(f) \in Nat /\ R \in Nat
  BY LenProperties, CompleteRange
<1>2. ReadPositions(f) = {3 * r - 2 : r \in 1..R}
  BY ReadInPlace
<1>3. g \in Bijection(1..R, ReadPositions(f))
  <2> HIDE DEF R
  <2>1. g \in [1..R -> ReadPositions(f)]
    BY <1>2
  <2>2. \A r, t \in 1..R : g[r] = g[t] => r = t
    BY <1>1
  <2>3. \A i \in ReadPositions(f) : \E r \in 1..R : g[r] = i
    BY <1>2
  <2>4. DOMAIN g = 1..R
    OBVIOUS
  <2> HIDE DEF g
  <2>5. g \in Injection(1..R, ReadPositions(f))
    BY <2>1, <2>2, <2>4 DEF Injection, IsInjective
  <2>6. g \in Surjection(1..R, ReadPositions(f))
    BY <2>1, <2>3 DEF Surjection
  <2> QED  BY <2>5, <2>6 DEF Bijection
<1>4. IsFiniteSet(1..R) /\ Cardinality(1..R) = R
  <2> HIDE DEF R
  <2>1. Cardinality(1..R) = IF 1 > R THEN 0 ELSE R - 1 + 1
    BY <1>1, FS_Interval
  <2> QED  BY <1>1, <2>1, FS_Interval
<1>5. Cardinality(ReadPositions(f)) = R
  <2> HIDE DEF R
  <2> QED  BY <1>3, <1>4, FS_Bijection DEF ExistsBijection
<1>6. ASSUME NEW i \in ReadPositions(f) PROVE i = 3 * f[i].rec - 2 /\ f[i].rec \in 1..R
  <2>1. PICK r \in 1..R : i = 3 * r - 2
    BY <1>2
  <2>2. i \in 1..Len(f) /\ f[i].part = "head"
    BY <1>1, LenProperties DEF ReadPositions, Decodes
  <2>3. i = 3 * f[i].rec - 2 /\ f[i].rec \in Nat
    BY <2>2, ReadInPlace DEF At, Unit
  <2>4. f[i].rec = r
    BY <2>1, <2>3
  <2> QED  BY <2>1, <2>3, <2>4
<1>7. ASSUME NEW r \in 1..R PROVE r \in ReadRecords(f)
  <2>1. 3 * r - 2 \in ReadPositions(f)
    BY <1>2
  <2>2. f[3 * r - 2].rec = r
    <3>1. 3 * r - 2 = 3 * f[3 * r - 2].rec - 2 /\ f[3 * r - 2].rec \in 1..R
      BY <2>1, <1>6
    <3> HIDE DEF R
    <3> QED  BY <3>1
  <2> QED  BY <2>1, <2>2 DEF ReadRecords
<1>8. ReadRecords(f) = 1..R
  BY <1>6, <1>7 DEF ReadRecords
<1> QED  BY <1>5, <1>6, <1>8

-----------------------------------------------------------------------------

\* The invariant of the file and its writers.
LEMMA JsonlInvariant == Spec => [](HandleInv /\ ThreadInv /\ StreamInv /\ LossInv)
<1>1. Init => HandleInv /\ ThreadInv /\ StreamInv /\ LossInv
  BY InitTypes, StreamInit, LossInit
<1>2. /\ (HandleInv /\ ThreadInv /\ StreamInv /\ LossInv) /\ [Next]_vars
      => (HandleInv /\ ThreadInv /\ StreamInv /\ LossInv)'
  BY HandleStep, ThreadStep, StreamStep, LossStep
<1> QED  BY <1>1, <1>2, PTL DEF Spec

\* Whatever the buffer cut and the crash tore: read_jsonl finds in a take file the
\* first records that were written, in order, without a gap.
THEOREM ReadBeginning == Spec => []ReadsABeginning
<1>1. HandleInv /\ StreamInv => ReadsABeginning
  <2> SUFFICES ASSUME HandleInv, StreamInv, target = "take"
               PROVE  LET read == ReadPositions(file) IN
                      /\ ReadRecords(file) = 1..Cardinality(read)
                      /\ \A i \in DOMAIN file : file[i].part = "tail" => file[i].rec \in ReadRecords(file)
                      /\ \A i, j \in read : i < j => file[i].rec < file[j].rec
    BY DEF ReadsABeginning
  <2>1. file \in Seq(Unit) /\ InPlace(file, 0) /\ Len(file) \in Nat
    BY LenProperties DEF HandleInv, StreamInv, Stream
  <2>2. /\ ReadRecords(file) = 1..Cardinality(ReadPositions(file))
        /\ ReadRecords(file) = 1..Complete(Len(file))
        /\ \A i \in ReadPositions(file) : i = 3 * file[i].rec - 2 /\ file[i].rec \in Nat
    BY <2>1, ReadCount
  <2>3. ASSUME NEW i \in DOMAIN file, file[i].part = "tail" PROVE file[i].rec \in ReadRecords(file)
    <3>1. i \in 1..Len(file)
      BY <2>1, LenProperties
    <3>2. i = 3 * file[i].rec - 1 /\ file[i].rec \in Nat
      BY <2>1, <2>3, <3>1, ReadInPlace DEF At, Unit
    <3>3. file[i].rec \in 1..Complete(Len(file))
      BY <2>1, <3>1, <3>2, CompleteRange
    <3> QED  BY <2>2, <3>3
  <2>4. \A i, j \in ReadPositions(file) : i < j => file[i].rec < file[j].rec
    BY <2>2
  <2> QED  BY <2>2, <2>3, <2>4
<1> QED  BY <1>1, JsonlInvariant, PTL

\* A record whose write() returned is on disk, or was returned less than a flush
\* interval before the last one that returned, with any number of writers, any
\* buffer, and after any crash.
THEOREM LossBounded == Spec => []LossIsBounded
<1>1. LossInv /\ ThreadInv => LossIsBounded
  <2> SUFFICES ASSUME LossInv, ThreadInv, NEW r \in Records, NEW q \in Records,
                      returnedAt[r] # NotReturned, returnedAt[q] # NotReturned
               PROVE  \/ \E i \in 1..synced : file[i] = [rec |-> r, part |-> "nl"]
                      \/ returnedAt[q] - returnedAt[r] < Interval
    BY DEF LossIsBounded
  <2>1. CASE In(Nl(r), file, synced)
    BY <2>1 DEF In, Nl
  <2>2. CASE Young(r)
    <3>1. /\ returnedAt[r] \in Int /\ returnedAt[q] \in Int /\ lastFlush \in Int /\ Interval \in Int
      BY NumbersAssumption DEF ThreadInv, Interval
    <3>2. lastFlush <= returnedAt[r] /\ returnedAt[r] - lastFlush < Interval /\ target = "take"
      BY <2>2 DEF Young
    <3>3. returnedAt[q] <= lastFlush \/ returnedAt[q] - lastFlush < Interval
      BY <3>2 DEF LossInv, Recent
    <3> QED  BY <3>1, <3>2, <3>3
  <2> QED  BY <2>1, <2>2 DEF LossInv, Safe
<1> QED  BY <1>1, JsonlInvariant, PTL

\* After close() the take file has every record whose write() returned, readable.
THEOREM ClosedComplete == Spec => []ClosedIsComplete
<1>1. HandleInv /\ StreamInv /\ ThreadInv => ClosedIsComplete
  <2> SUFFICES ASSUME HandleInv, StreamInv, ThreadInv, target = "take",
                      NEW w \in Writers, pc[w] = "closed",
                      NEW r \in Records, returnedAt[r] # NotReturned
               PROVE  r \in ReadRecords(file)
    BY DEF ClosedIsComplete
  <2>1. /\ file \in Seq(Unit) /\ InPlace(file, 0) /\ Len(file) \in Nat
        /\ Len(file) = 3 * stamped /\ r <= stamped /\ stamped \in Nat
        /\ r \in Int /\ r >= 1
    BY LenProperties, NumbersAssumption
       DEF HandleInv, StreamInv, ThreadInv, Stream, Owing, Records
  <2>2. r \in 1..Complete(Len(file))
    BY <2>1, CompleteRange
  <2> QED  BY <2>1, <2>2, ReadCount
<1> QED  BY <1>1, JsonlInvariant, PTL
=============================================================================

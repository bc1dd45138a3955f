---------------------------- MODULE HealthProofs ----------------------------
(***************************************************************************)
(* The loss counter never understates, for any sender, link and sizes; the *)
(* counters and intervals of an entry agree with each other; and over a    *)
(* faultless link a sender that batches is recognised, and one that does   *)
(* not passes.                                                             *)
(*                                                                         *)
(* The first alone is not inductive: that a message which raises the       *)
(* highest number seen adds at least the numbers it passes over rests on   *)
(* the last number being no higher than the highest; that the count is     *)
(* exact while nothing is late, on the two being equal.  The last rests on *)
(* the whole stream: FaithfulInv says what is queued, under way and in the *)
(* entry, number by number, from when each sample was taken; then every    *)
(* s-th interval is one flush period and the others none, and the ranks of *)
(* the median and the maximum follow by counting.                          *)
(***************************************************************************)
EXTENDS Health, TLAPS, FiniteSetTheorems, FunctionTheorems, SequenceTheorems

Msg == [seq : Int, sent : Int]

Numbers == /\ queue \in Seq(Int) /\ seq \in Int
           /\ wire \in Seq(Msg)
           /\ now \in Int

\* What the take's tracker and the numbers seen have to do with each other.
Seen ==
    /\ first \in Int /\ highest \in Int /\ first <= highest
    /\ entry.lastSeq \in Int /\ entry.lastSeq <= highest
    /\ \A n \in got : n \in Int /\ n <= highest
    /\ highest \in got

Counted ==
    /\ entry.count \in Nat /\ entry.lost \in Nat /\ entry.outOfOrder \in Nat
    /\ entry.lost >= Cardinality(Missing)
    /\ entry.outOfOrder = 0 => entry.lost = Cardinality(Missing) /\ entry.lastSeq = highest

HealthInv ==
    /\ Numbers
    /\ link.numbered =>
          \/ entry = NewEntry /\ first = None /\ highest = None /\ got = {}
          \/ Seen /\ Counted

-----------------------------------------------------------------------------
(* Finite intervals *)

LEMMA MissingIsFinite ==
    ASSUME Seen
    PROVE  /\ IsFiniteSet(Missing) /\ Cardinality(Missing) \in Nat
           /\ Missing = {n \in first..highest : n \notin got}
  <1>0. first # None
    BY NoneAssumption DEF Seen
  <1>1. Missing \subseteq first..highest
    BY <1>0 DEF Missing
  <1>2. IsFiniteSet(first..highest)
    BY FS_Interval DEF Seen
  <1> QED BY <1>0, <1>1, <1>2, FS_Subset, FS_CardinalityType DEF Missing

\* The numbers a message passes over, when it raises the highest.
LEMMA PassedOver ==
    ASSUME NEW a \in Int, NEW b \in Int, a < b
    PROVE  IsFiniteSet((a + 1)..(b - 1)) /\ Cardinality((a + 1)..(b - 1)) = b - a - 1
  BY FS_Interval

-----------------------------------------------------------------------------
(* One message *)

\* What Observe does to the counters of a numbered message.
LEMMA ObserveCounts ==
    ASSUME NEW e, NEW t, NEW s \in Int, NEW d, e.lastSeq \in Int, e.lost \in Nat,
           e.count \in Nat, e.outOfOrder \in Nat
    PROVE  LET o == Observe(e, t, s, d) IN
           /\ o.count = e.count + 1 /\ o.lastSeq = s
           /\ s <= e.lastSeq => o.lost = e.lost /\ o.outOfOrder = e.outOfOrder + 1
           /\ s > e.lastSeq  => o.lost = e.lost + (s - e.lastSeq - 1) /\ o.outOfOrder = e.outOfOrder
  BY NoneAssumption DEF Observe, Late, Skipped

\* The first message of a take.
LEMMA FirstSeen ==
    ASSUME NEW b \in Int, NEW d, entry = NewEntry,
           entry' = Observe(entry, now, b, d),
           got' = {b}, first' = b, highest' = b
    PROVE  Seen' /\ Counted'
  <1>1. entry'.count = 1 /\ entry'.lastSeq = b /\ entry'.lost = 0 /\ entry'.outOfOrder = 0
    BY NoneAssumption DEF Observe, Late, Skipped, NewEntry
  <1>2. Missing' = {}
    BY NoneAssumption DEF Missing
  <1>3. Cardinality(Missing') = 0
    BY <1>2, FS_EmptySet
  <1> QED BY <1>1, <1>3 DEF Seen, Counted

\* A message that raises the highest number.
LEMMA HigherSeen ==
    ASSUME NEW b \in Int, NEW d, Seen, Counted, b > highest,
           entry' = Observe(entry, now, b, d),
           got' = got \cup {b}, first' = first, highest' = b
    PROVE  Seen' /\ Counted'
  <1> DEFINE over == (highest + 1)..(b - 1)
  <1>1. /\ entry'.count = entry.count + 1 /\ entry'.lastSeq = b
        /\ entry'.lost = entry.lost + (b - entry.lastSeq - 1) /\ entry'.outOfOrder = entry.outOfOrder
    BY ObserveCounts DEF Seen, Counted
  <1>2. IsFiniteSet(Missing) /\ Cardinality(Missing) \in Nat
        /\ Missing = {n \in first..highest : n \notin got}
    BY MissingIsFinite
  <1>3. first' # None
    BY NoneAssumption DEF Seen
  <1>4. Missing' = Missing \cup over
    <2>1. Missing' = {n \in first..b : n \notin got \cup {b}}
      BY <1>3 DEF Missing
    <2> QED BY <2>1, <1>2 DEF Seen
  <1>5. Missing \cap over = {}
    BY <1>2 DEF Seen
  <1>6. IsFiniteSet(over) /\ Cardinality(over) = b - highest - 1
    BY PassedOver DEF Seen
  <1>7. Cardinality(Missing') = Cardinality(Missing) + (b - highest - 1)
    <2>1. Cardinality(Missing \cup over) =
              Cardinality(Missing) + Cardinality(over) - Cardinality(Missing \cap over)
      BY <1>2, <1>6, FS_Union
    <2>2. Cardinality(Missing \cap over) = 0
      BY <1>5, FS_EmptySet
    <2>3. highest \in Int
      BY DEF Seen
    <2> HIDE DEF over
    <2>4. Cardinality(Missing') = Cardinality(Missing) + Cardinality(over)
      BY <2>1, <2>2, <1>2, <1>4, <1>6, <2>3
    <2> QED BY <2>4, <1>6
  <1>8. Seen'
    BY <1>1 DEF Seen
  <1>9. entry'.lost \in Nat /\ entry'.count \in Nat /\ entry'.outOfOrder \in Nat
    BY <1>1 DEF Seen, Counted
  <1>10. entry'.lost >= Cardinality(Missing')
    BY <1>1, <1>2, <1>7 DEF Seen, Counted
  <1>11. entry'.outOfOrder = 0 => entry'.lost = Cardinality(Missing')
    BY <1>1, <1>2, <1>7 DEF Seen, Counted
  <1> QED BY <1>1, <1>8, <1>9, <1>10, <1>11 DEF Counted

\* A message that fills a hole, repeats one or comes from before the first.
LEMMA LowerSeen ==
    ASSUME NEW b \in Int, NEW d, Seen, Counted, b <= highest,
           entry' = Observe(entry, now, b, d),
           got' = got \cup {b}, first' = first, highest' = highest
    PROVE  Seen' /\ Counted'
  <1>1. /\ entry'.count = entry.count + 1 /\ entry'.lastSeq = b
        /\ entry'.lost >= entry.lost /\ entry'.lost \in Nat
        /\ entry'.outOfOrder >= entry.outOfOrder /\ entry'.outOfOrder \in Nat
        /\ entry.lastSeq = highest => entry'.outOfOrder = entry.outOfOrder + 1
    BY ObserveCounts DEF Seen, Counted
  <1>2. IsFiniteSet(Missing) /\ Cardinality(Missing) \in Nat
        /\ Missing = {n \in first..highest : n \notin got}
    BY MissingIsFinite
  <1>3. Missing' \subseteq Missing
    <2>1. first' # None
      BY NoneAssumption DEF Seen
    <2>2. Missing' = {n \in first..highest : n \notin got \cup {b}}
      BY <2>1 DEF Missing
    <2> QED BY <2>2, <1>2
  <1>4. Cardinality(Missing') <= Cardinality(Missing) /\ Cardinality(Missing') \in Nat
    BY <1>2, <1>3, FS_Subset, FS_CardinalityType
  <1>5. Seen'
    BY <1>1 DEF Seen
  <1>6. entry'.outOfOrder # 0
    BY <1>1 DEF Counted
  <1>7. entry'.count \in Nat /\ entry'.lost >= Cardinality(Missing')
    BY <1>1, <1>2, <1>4 DEF Counted
  <1> QED BY <1>1, <1>5, <1>6, <1>7 DEF Counted

-----------------------------------------------------------------------------
(* Every step *)

LEMMA InitHolds == Init => HealthInv
  BY DEF Init, HealthInv, Numbers

LEMMA MessageType ==
    ASSUME Numbers, NEW i \in DOMAIN wire
    PROVE  wire[i] \in Msg /\ wire[i].seq \in Int
  <1>1. wire[i] \in Msg
    BY ElementOfSeq DEF Numbers
  <1> QED BY <1>1 DEF Msg

LEMMA WithoutType ==
    ASSUME Numbers, NEW i \in DOMAIN wire
    PROVE  Without(i) \in Seq(Msg)
  <1>1. wire \in Seq(Msg)
    BY DEF Numbers
  <1>2. i \in 1..Len(wire) /\ Len(wire) \in Nat
    BY <1>1, LenProperties
  <1>3. \A j \in 1..(i - 1) : j \in 1..Len(wire)
    BY <1>2
  <1>4. SubSeq(wire, 1, i - 1) \in Seq(Msg)
    BY <1>1, <1>2, <1>3, SubSeqProperties
  <1>5. SubSeq(wire, i + 1, Len(wire)) \in Seq(Msg)
    BY <1>1, <1>2, SubSeqProperties
  <1> QED BY <1>4, <1>5, ConcatProperties DEF Without

LEMMA TrackerStays ==
    ASSUME HealthInv, Numbers', UNCHANGED <<link, entry, got, first, highest>>
    PROVE  HealthInv'
  BY DEF HealthInv, Seen, Counted, Missing

LEMMA TickNumbers ==
    ASSUME Numbers, Tick
    PROVE  Numbers'
  <1>1. now' \in Int
    BY DEF Numbers, Tick
  <1>2. seq' \in Int
    BY DEF Numbers, Tick
  <1> DEFINE sample  == alive /\ seq < SampleBound /\ now' % Period = 0
             samples == IF sample THEN Append(queue, seq + 1) ELSE queue
             flush   == ~ link.burst \/ now' % (Burst * Period) = 0
  <1>3. samples \in Seq(Int)
    BY DEF Numbers
  <1>4. queue' \in Seq(Int)
    <2>1. queue' = IF flush THEN <<>> ELSE samples
      BY DEF Tick
    <2> HIDE DEF samples, flush
    <2> QED BY <2>1, <1>3
  <1>5. wire' \in Seq(Msg)
    <2>1. wire' = IF flush THEN wire \o [i \in DOMAIN samples |-> Message(samples[i])] ELSE wire
      BY DEF Tick
    <2> HIDE DEF samples, flush
    <2>2. \A i \in DOMAIN samples : Message(samples[i]) \in Msg
      <3>1. \A i \in DOMAIN samples : samples[i] \in Int
        BY <1>3, ElementOfSeq
      <3>2. now + 1 \in Int
        BY DEF Numbers
      <3> QED BY <3>1, <3>2 DEF Message, Msg
    <2>3. [i \in DOMAIN samples |-> Message(samples[i])] \in Seq(Msg)
      <3>1. Len(samples) \in Nat /\ DOMAIN samples = 1..Len(samples)
        BY <1>3, LenProperties
      <3> DEFINE n == Len(samples)
                 sent == [i \in 1..n |-> Message(samples[i])]
      <3>2. \A i \in 1..n : Message(samples[i]) \in Msg
        BY <2>2, <3>1
      <3>3. sent \in [1..n -> Msg]
        BY <3>2
      <3>4. sent \in Seq(Msg)
        BY <3>1, <3>3
      <3> QED BY <3>1, <3>4
    <2> QED BY <2>1, <2>3, ConcatProperties DEF Numbers
  <1> QED BY <1>1, <1>2, <1>4, <1>5 DEF Numbers

LEMMA ReceiveHolds ==
    ASSUME HealthInv, NEW i \in DOMAIN wire, Receive(i)
    PROVE  HealthInv'
  <1> DEFINE b == wire[i].seq
  <1>1. Numbers'
    BY WithoutType DEF Receive, Number, HealthInv, Numbers, streamVars
  <1>2. b \in Int
    BY MessageType DEF HealthInv
  <1>3. link' = link
    BY DEF Receive, Number, streamVars
  <1>4. CASE ~ recording
    BY <1>1, <1>3, <1>4, TrackerStays DEF Receive, Number
  <1>5. CASE recording /\ ~ link.numbered
    BY <1>1, <1>3, <1>5 DEF HealthInv
  <1>6. CASE recording /\ link.numbered
    <2>1. /\ entry' = Observe(entry, now, b, link.deviceTime)
          /\ got' = got \cup {b}
          /\ first' = IF first = None THEN b ELSE first
          /\ highest' = IF highest = None \/ b > highest THEN b ELSE highest
      BY <1>6 DEF Receive, Number
    <2> HIDE DEF b
    <2>2. CASE entry = NewEntry /\ first = None /\ highest = None /\ got = {}
      <3>1. got' = {b} /\ first' = b /\ highest' = b
        BY <2>1, <2>2
      <3>2. Seen' /\ Counted'
        BY <1>2, <2>1, <2>2, <3>1, FirstSeen
      <3> QED BY <1>1, <3>2 DEF HealthInv
    <2>3. CASE Seen /\ Counted
      <3>1. first # None /\ highest # None
        BY <2>3, NoneAssumption DEF Seen
      <3>2. first' = first
        BY <2>1, <3>1
      <3>3. CASE b > highest
        <4>1. highest' = b
          BY <2>1, <3>3
        <4>2. Seen' /\ Counted'
          BY <1>2, <2>1, <2>3, <3>2, <3>3, <4>1, HigherSeen
        <4> QED BY <1>1, <4>2 DEF HealthInv
      <3>4. CASE ~ (b > highest)
        <4>1. b <= highest /\ highest' = highest
          BY <1>2, <2>1, <2>3, <3>1, <3>4 DEF Seen
        <4>2. Seen' /\ Counted'
          BY <1>2, <2>1, <2>3, <3>2, <4>1, LowerSeen
        <4> QED BY <1>1, <4>2 DEF HealthInv
      <3> QED BY <3>3, <3>4
    <2> QED BY <1>6, <2>2, <2>3 DEF HealthInv
  <1> QED BY <1>4, <1>5, <1>6

LEMMA StepHolds == HealthInv /\ [Next]_vars => HealthInv'
  <1> SUFFICES ASSUME HealthInv, [Next]_vars PROVE HealthInv'
    OBVIOUS
  <1>1. CASE Tick
    <2>1. Numbers'
      BY <1>1, TickNumbers DEF HealthInv
    <2> QED BY <1>1, <2>1, TrackerStays DEF Tick, takeVars
  <1>2. CASE Die
    <2>1. Numbers'
      BY <1>2 DEF Die, HealthInv, Numbers
    <2> QED BY <1>2, <2>1, TrackerStays DEF Die, takeVars
  <1>3. CASE StartTake
    <2>1. Numbers'
      BY <1>3 DEF StartTake, streamVars, HealthInv, Numbers
    <2> QED BY <1>3, <2>1, TrackerStays DEF StartTake, takeVars, streamVars
  <1>4. CASE ReceiveMalformed
    <2>1. Numbers'
      BY <1>4 DEF ReceiveMalformed, streamVars, HealthInv, Numbers
    <2> QED BY <1>4, <2>1, TrackerStays DEF ReceiveMalformed, streamVars
  <1>5. ASSUME NEW i \in DOMAIN wire, Lose(i) PROVE HealthInv'
    <2>1. Numbers'
      BY <1>5, WithoutType DEF Lose, streamVars, HealthInv, Numbers
    <2> QED BY <1>5, <2>1, TrackerStays DEF Lose, takeVars, streamVars
  <1>6. ASSUME NEW i \in DOMAIN wire, Repeat(i) PROVE HealthInv'
    <2>1. wire' \in Seq(Msg)
      <3>1. wire \in Seq(Msg) /\ wire[i] \in Msg
        BY MessageType DEF HealthInv, Numbers
      <3> QED BY <1>6, <3>1, AppendProperties DEF Repeat
    <2>2. Numbers'
      BY <1>6, <2>1 DEF Repeat, streamVars, HealthInv, Numbers
    <2> QED BY <1>6, <2>2, TrackerStays DEF Repeat, takeVars, streamVars
  <1>7. ASSUME NEW i \in DOMAIN wire, Receive(i) PROVE HealthInv'
    BY <1>7, ReceiveHolds
  <1>8. CASE UNCHANGED vars
    <2>1. Numbers'
      BY <1>8 DEF vars, streamVars, HealthInv, Numbers
    <2> QED BY <1>8, <2>1, TrackerStays DEF vars, takeVars, streamVars
  <1> QED BY <1>1, <1>2, <1>3, <1>4, <1>5, <1>6, <1>7, <1>8 DEF Next

\* A loss rate grows with the losses counted.
LEMMA RateGrows ==
    ASSUME NEW per \in Nat \ {0}, NEW count \in Nat, NEW m \in Nat, NEW lost \in Nat,
           lost >= m, per * m >= count + m
    PROVE  per * lost >= count + lost
  <1>1. PICK d \in Nat : lost = m + d
    <2>1. lost - m \in Nat /\ lost = m + (lost - m)
      OBVIOUS
    <2> QED BY <2>1
  <1>2. per * lost = per * m + per * d
    BY <1>1
  <1>3. per * d >= d
    BY <1>1
  <1> QED BY <1>1, <1>2, <1>3

LEMMA InvSuffices == HealthInv => LossIsNeverUnderstated
  <1> SUFFICES ASSUME HealthInv, link.numbered, entry.count > 0 PROVE LossIsNeverUnderstated
    BY DEF LossIsNeverUnderstated
  <1>1. Seen /\ Counted
    BY DEF HealthInv, NewEntry
  <1>2. Cardinality(Missing) \in Nat
    BY <1>1, MissingIsFinite
  <1>3. ASSUME Cardinality(Missing) > 0,
               LossPer * Cardinality(Missing) >= entry.count + Cardinality(Missing)
        PROVE  Verdict = "fail"
    <2>1. LossPer \in Nat \ {0}
      BY SizesAssumption
    <2>2. LossPer * entry.lost >= entry.count + entry.lost
      BY <1>1, <1>2, <1>3, <2>1, RateGrows DEF Counted
    <2>3. entry.lost > 0
      BY <1>1, <1>2, <1>3 DEF Counted
    <2>4. 1 * entry.lost * LossPer >= entry.count + entry.lost
      BY <1>1, <2>1, <2>2 DEF Counted
    <2>5. Reaches(entry, 1)
      BY <2>3, <2>4 DEF Reaches
    <2> QED BY <2>5 DEF Verdict, AddressVerdict
  <1> QED BY <1>1, <1>3 DEF LossIsNeverUnderstated, Counted

\* health.py:77-84: however messages are lost, repeated, delayed and reordered, what has not
\* arrived is counted as lost, exactly so while nothing is late, and fails a take at a
\* hundredth of it.
THEOREM LossIsCounted == Spec => []LossIsNeverUnderstated
  BY InitHolds, StepHolds, InvSuffices, PTL DEF Spec

-----------------------------------------------------------------------------
(* Types *)

\* The tracker of a take that has heard something.
Heard ==
    /\ entry.count \in Nat \ {0} /\ entry.lost \in Nat /\ entry.outOfOrder \in 0..(entry.count - 1)
    /\ entry.lastT \in 0..now /\ entry.firstT \in 0..entry.lastT
    /\ entry.intervals \in Seq(Int) /\ Len(entry.intervals) = entry.count - 1
    /\ \A i \in DOMAIN entry.intervals : entry.intervals[i] \in 0..Duration(entry)
    /\ entry.lastSeq \in IF link.numbered THEN got ELSE {None}
    /\ got \subseteq Int

TypeInv ==
    /\ Numbers
    /\ link \in Links /\ now \in 0..TimeBound /\ seq \in 0..SampleBound
    /\ (entry = NewEntry /\ got = {}) \/ Heard

LEMMA HeardFirst ==
    ASSUME NEW s \in Int \cup {None}, NEW b \in Int, NEW d, now \in Nat, entry = NewEntry,
           entry' = Observe(entry, now, s, d), got' = got \cup {b}, got = {}, UNCHANGED <<now, link>>,
           s = IF link.numbered THEN b ELSE None
    PROVE  Heard'
<1>1. /\ entry'.count = 1 /\ entry'.firstT = now /\ entry'.lastT = now /\ entry'.outOfOrder = 0
      /\ entry'.lost = 0 /\ entry'.intervals = <<>> /\ entry'.lastSeq = s
  BY NoneAssumption DEF Observe, NewEntry, Late, Skipped, Intervals
<1>2. <<>> \in Seq(Int) /\ Len(<<>>) = 0 /\ DOMAIN <<>> = {}
  OBVIOUS
<1>3. entry'.lastSeq \in (IF link'.numbered THEN got' ELSE {None}) /\ got' \subseteq Int
  BY <1>1
<1>4. /\ entry'.lastT \in 0..now' /\ entry'.firstT \in 0..entry'.lastT
      /\ entry'.outOfOrder \in 0..(entry'.count - 1)
  BY <1>1
<1>5. /\ entry'.intervals \in Seq(Int) /\ Len(entry'.intervals) = entry'.count - 1
      /\ DOMAIN entry'.intervals = {}
  <2>1. PICK iv : iv = <<>>
    OBVIOUS
  <2>2. iv \in Seq(Int) /\ Len(iv) = 0 /\ DOMAIN iv = {}
    BY <1>2, <2>1
  <2>3. entry'.intervals = iv /\ entry'.count - 1 = 0
    BY <1>1, <2>1
  <2> QED BY <2>2, <2>3
<1> QED BY <1>1, <1>3, <1>4, <1>5 DEF Heard

LEMMA HeardNext ==
    ASSUME NEW s \in Int \cup {None}, NEW b \in Int, NEW d, now \in Nat, Heard,
           entry' = Observe(entry, now, s, d), got' = got \cup {b}, UNCHANGED <<now, link>>,
           s = IF link.numbered THEN b ELSE None
    PROVE  Heard'
<1>1. PICK c \in Nat, l \in Nat, f \in Nat, iv \in Seq(Int) :
         /\ entry.count = c /\ c # 0 /\ entry.lastT = l /\ l <= now /\ entry.firstT = f /\ f <= l
         /\ entry.intervals = iv /\ Len(iv) = c - 1 /\ \A i \in DOMAIN iv : iv[i] \in 0..(l - f)
  <2>1. /\ entry.count \in Nat /\ entry.count # 0 /\ entry.lastT \in Nat /\ entry.lastT <= now
        /\ entry.firstT \in Nat /\ entry.firstT <= entry.lastT
        /\ entry.intervals \in Seq(Int) /\ Len(entry.intervals) = entry.count - 1
    BY DEF Heard
  <2>2. entry.firstT # None
    BY <2>1, NoneAssumption
  <2>3. \A i \in DOMAIN entry.intervals : entry.intervals[i] \in 0..(entry.lastT - entry.firstT)
    BY <2>2 DEF Heard, Duration
  <2> QED BY <2>1, <2>3
<1>2. l # None /\ f # None
  BY NoneAssumption
<1>3. /\ entry'.count = c + 1 /\ entry'.firstT = f /\ entry'.lastT = now
      /\ entry'.intervals = Append(iv, now - l)
  BY <1>1, <1>2 DEF Observe, Intervals
<1>4. entry'.lost \in Nat /\ entry'.outOfOrder \in 0..c
  <2>1. entry.lost \in Nat /\ entry.outOfOrder \in 0..(c - 1)
    BY <1>1 DEF Heard
  <2>2. Skipped(entry, s) \in Nat \/ s = None
    <3>1. entry.lastSeq = None \/ entry.lastSeq \in Int
      BY DEF Heard
    <3> QED BY <3>1, NoneAssumption DEF Skipped
  <2> QED BY <2>1, <2>2 DEF Observe
<1>5. entry'.lastSeq = IF s # None THEN s ELSE entry.lastSeq
  BY DEF Observe
<1>6. entry'.lastSeq \in IF link.numbered THEN got' ELSE {None}
  BY <1>5, NoneAssumption DEF Heard
<1>7. PICK jv \in Seq(Int) : jv = Append(iv, now - l)
  <2>1. now - l \in Int
    OBVIOUS
  <2>2. Append(iv, now - l) \in Seq(Int)
    BY <2>1, AppendProperties
  <2> QED BY <2>2
<1>8. Len(jv) = c /\ \A i \in DOMAIN jv : jv[i] \in 0..(now - f)
  <2>1. Len(jv) = c /\ DOMAIN iv = 1..(c - 1) /\ DOMAIN jv = 1..c
    BY <1>1, <1>7, AppendProperties, LenProperties
  <2>2. \A i \in 1..(c - 1) : jv[i] = iv[i]
    BY <1>1, <1>7, <2>1, AppendProperties
  <2>3. jv[c] = now - l
    BY <1>1, <1>7, <2>1, AppendProperties
  <2>4. \A i \in 1..c : i = c \/ i \in 1..(c - 1)
    OBVIOUS
  <2>5. \A i \in 1..(c - 1) : jv[i] \in 0..(now - f)
    BY <1>1, <2>1, <2>2
  <2>6. jv[c] \in 0..(now - f)
    BY <1>1, <2>3
  <2> QED BY <2>1, <2>4, <2>5, <2>6
<1>9. Duration(entry') = now - f
  BY <1>2, <1>3 DEF Duration
<1>10. got' \subseteq Int
  BY DEF Heard
<1>11. /\ entry'.count \in Nat \ {0} /\ entry'.lost \in Nat /\ entry'.outOfOrder \in 0..(entry'.count - 1)
       /\ entry'.lastT \in 0..now' /\ entry'.firstT \in 0..entry'.lastT
  BY <1>1, <1>3, <1>4
<1>12. /\ entry'.intervals = jv /\ Len(entry'.intervals) = entry'.count - 1
       /\ \A i \in DOMAIN entry'.intervals : entry'.intervals[i] \in 0..Duration(entry')
  <2>1. entry'.intervals = jv /\ entry'.count - 1 = c
    BY <1>3, <1>7
  <2>2. \A i \in DOMAIN jv : jv[i] \in 0..Duration(entry')
    BY <1>8, <1>9
  <2> QED BY <1>8, <2>1, <2>2
<1>13. entry'.lastSeq \in IF link'.numbered THEN got' ELSE {None}
  BY <1>6
<1> QED BY <1>7, <1>10, <1>11, <1>12, <1>13 DEF Heard

LEMMA TypeInvStep == TypeInv /\ HealthInv' /\ [Next]_vars => TypeInv'
<1> SUFFICES ASSUME TypeInv, HealthInv', [Next]_vars PROVE TypeInv'
  OBVIOUS
<1>0. Numbers' /\ TimeBound \in Nat /\ SampleBound \in Nat /\ now \in Nat
  BY BoundsAssumption DEF HealthInv, TypeInv, TimeBound, SampleBound
<1>1. CASE Tick
  <2>1. /\ now' = now + 1 /\ now < TimeBound /\ UNCHANGED <<link, entry, got>>
        /\ seq' = seq \/ (seq' = seq + 1 /\ seq < SampleBound)
    BY <1>1 DEF Tick, takeVars
  <2>2. now' \in 0..TimeBound' /\ seq' \in 0..SampleBound'
    BY <1>0, <2>1 DEF TypeInv, TimeBound, SampleBound
  <2>3. Heard => Heard'
    BY <1>0, <2>1 DEF Heard
  <2> QED BY <1>0, <2>1, <2>2, <2>3 DEF TypeInv
<1>2. ASSUME NEW i \in DOMAIN wire, Receive(i), recording PROVE TypeInv'
  <2>1. wire[i].seq \in Int
    BY MessageType DEF TypeInv
  <2>2. /\ entry' = Observe(entry, now, Number(wire[i]), link.deviceTime)
        /\ got' = got \cup {wire[i].seq} /\ UNCHANGED <<now, link, seq>>
    BY <1>2 DEF Receive, streamVars
  <2>3. Number(wire[i]) = IF link.numbered THEN wire[i].seq ELSE None
    BY DEF Number
  <2>4. Heard'
    <3>1. PICK b \in Int : b = wire[i].seq
      BY <2>1
    <3>2. PICK s \in Int \cup {None} : s = Number(wire[i])
      BY <2>1, <2>3
    <3> QED BY <1>0, <2>2, <2>3, <3>1, <3>2, HeardFirst, HeardNext DEF TypeInv
  <2> QED BY <1>0, <2>2, <2>4 DEF TypeInv, TimeBound, SampleBound
<1>3. ASSUME UNCHANGED <<link, now, seq, entry, got>> PROVE TypeInv'
  BY <1>0, <1>3 DEF TypeInv, TimeBound, SampleBound, Heard
<1>4. CASE Die \/ StartTake \/ ReceiveMalformed \/ UNCHANGED vars
  BY <1>3, <1>4 DEF Die, StartTake, ReceiveMalformed, vars, streamVars, takeVars
<1>5. ASSUME NEW i \in DOMAIN wire, Lose(i) \/ Repeat(i) \/ (Receive(i) /\ ~ recording) PROVE TypeInv'
  BY <1>3, <1>5 DEF Lose, Repeat, Receive, streamVars, takeVars
<1> QED BY <1>1, <1>2, <1>4, <1>5 DEF Next

\* The tracker's counters agree with each other and with the clock, on any link: an interval
\* for every message but the first, none longer than the take, at most all but one late.
THEOREM HealthTypeCorrect == Spec => []TypeOK
<1>1. Init => TypeInv
  BY InitHolds, BoundsAssumption DEF Init, TypeInv, HealthInv, TimeBound, SampleBound
<1>2. TypeInv => TypeOK
  <2> SUFFICES ASSUME TypeInv PROVE TypeOK
    OBVIOUS
  <2>1. Verdict \in {"pass", "warn", "fail"}
    BY DEF Verdict
  <2>2. entry.count > 0 => Heard
    BY DEF TypeInv, NewEntry
  <2> QED BY <2>1, <2>2 DEF TypeInv, TypeOK, Heard
<1> QED BY <1>1, <1>2, InitHolds, StepHolds, TypeInvStep, PTL DEF Spec

-----------------------------------------------------------------------------
(* Over a faultless link: when a sample arrives, if a flush has s of them *)

\* Samples in one flush; when sample n arrives if a flush has s; the interval that follows it.
Size == IF link.burst THEN Burst ELSE 1
Arrival(s, n) == ((n + s - 1) \div s) * (s * Period)
Gap(s, n) == IF n % s = 0 THEN s * Period ELSE 0

LEMMA SizeType == link \in Links => Size \in Nat \ {0} /\ Period \in Nat \ {0}
BY SizesAssumption DEF Size

\* A flush carries the samples taken since the one before.
LEMMA ArrivalAt ==
    ASSUME NEW s \in Nat \ {0}, NEW g \in Nat, NEW n \in Nat, (g - 1) * s < n, n <= g * s
    PROVE  Arrival(s, n) = g * (s * Period)
<1>1. PICK r \in Int : r = n - (g - 1) * s /\ r >= 1 /\ r <= s
  BY DEF Arrival
<1>2. n + s - 1 = g * s + (r - 1)
  BY <1>1
<1>3. (g * s + (r - 1)) \div s = g
  BY <1>1
<1> QED BY <1>2, <1>3 DEF Arrival

LEMMA ArrivalGap ==
    ASSUME NEW s \in Nat \ {0}, NEW n \in Nat
    PROVE  Arrival(s, n) \in Int /\ Gap(s, n) \in Int /\ Arrival(s, n + 1) - Arrival(s, n) = Gap(s, n)
<1>1. PICK q \in Int, r \in Int : n = q * s + r /\ 0 <= r /\ r < s /\ r = n % s
  <2>1. n = s * (n \div s) + (n % s)
    OBVIOUS
  <2> QED BY <2>1
<1>2. Period \in Nat \ {0}
  BY SizesAssumption
<1>3. (n + s) \div s = q + 1
  BY <1>1
<1>4. (n + s - 1) \div s = IF r = 0 THEN q ELSE q + 1
  <2>1. CASE r = 0
    <3>1. n + s - 1 = q * s + (s - 1)
      BY <1>1, <2>1
    <3> QED BY <2>1, <3>1
  <2>2. CASE r # 0
    <3>1. n + s - 1 = (q + 1) * s + (r - 1)
      BY <1>1, <2>2
    <3>2. 0 <= r - 1 /\ r - 1 < s
      BY <1>1, <2>2
    <3> QED BY <2>2, <3>1, <3>2
  <2> QED BY <2>1, <2>2
<1>5. Arrival(s, n + 1) = (q + 1) * (s * Period)
  <2>1. n + 1 + s - 1 = n + s
    OBVIOUS
  <2> QED BY <1>3, <2>1 DEF Arrival
<1>6. Arrival(s, n) = IF r = 0 THEN q * (s * Period) ELSE (q + 1) * (s * Period)
  BY <1>4 DEF Arrival
<1>7. s * Period \in Int /\ (q + 1) * (s * Period) = q * (s * Period) + s * Period
  BY <1>2
<1>8. q * (s * Period) \in Int
  BY <1>2
<1> QED BY <1>1, <1>5, <1>6, <1>7, <1>8 DEF Gap

\* A sample is taken when a period ends: the next one period after the last.
LEMMA NextSample ==
    ASSUME NEW n \in Nat, NEW t \in Nat, n * Period < t, t <= (n + 1) * Period
    PROVE  t % Period = 0 <=> t = (n + 1) * Period
<1>0. Period \in Nat \ {0}
  BY SizesAssumption
<1>1. ((n + 1) * Period) % Period = 0
  BY <1>0
<1>2. ASSUME t % Period = 0 PROVE t = (n + 1) * Period
  <2>1. PICK q \in Int : t = Period * q
    <3>1. t = Period * (t \div Period) + (t % Period)
      BY <1>0
    <3> QED BY <1>0, <1>2, <3>1
  <2>2. ASSUME q <= n PROVE FALSE
    <3>1. (n - q) * Period >= 0
      BY <1>0, <2>2
    <3> QED BY <1>0, <2>1, <3>1
  <2>3. ASSUME q >= n + 2 PROVE FALSE
    <3>1. (q - (n + 1)) * Period > 0
      BY <1>0, <2>3
    <3> QED BY <1>0, <2>1, <3>1
  <2>4. q = n + 1
    BY <2>2, <2>3
  <2> QED BY <1>0, <2>1, <2>4
<1> QED BY <1>1, <1>2

\* Samples that are due have been taken.
LEMMA DueSamples ==
    ASSUME NEW s \in Nat \ {0}, NEW g \in Nat, NEW n \in Nat, g * (s * Period) < (n + 1) * Period
    PROVE  g * s <= n
<1>0. Period \in Nat \ {0}
  BY SizesAssumption
<1>1. (g * s) * Period < (n + 1) * Period
  BY <1>0
<1>2. ASSUME g * s >= n + 1 PROVE FALSE
  <2>1. (g * s - (n + 1)) * Period >= 0
    BY <1>0, <1>2
  <2> QED BY <1>0, <1>1, <2>1
<1> QED BY <1>2

\* A sample taken by then counts at most that many.
LEMMA TakenSamples ==
    ASSUME NEW s \in Nat \ {0}, NEW g \in Nat, NEW n \in Nat, n * Period <= g * (s * Period)
    PROVE  n <= g * s
<1>0. Period \in Nat \ {0}
  BY SizesAssumption
<1>1. n * Period <= (g * s) * Period
  BY <1>0
<1>2. ASSUME n >= g * s + 1 PROVE FALSE
  <2>1. (n - g * s) * Period > 0
    BY <1>0, <1>2
  <2> QED BY <1>0, <1>1, <2>1
<1> QED BY <1>2

LEMMA Multiple ==
    ASSUME NEW k \in Nat \ {0}, NEW t \in Nat, t % k = 0
    PROVE  \E g \in Nat : t = g * k
<1>1. t = k * (t \div k) + (t % k) /\ t \div k \in Nat
  OBVIOUS
<1> QED BY <1>1

-----------------------------------------------------------------------------
(* Over a faultless link: what is queued, under way and in the entry *)

\* Samples flushed, and messages that have arrived.
Sent == seq - Len(queue)
Came == Sent - Len(wire)

\* Samples are taken on time while the sender lives.
Sampled ==
    /\ seq \in Nat /\ now \in Nat /\ seq * Period <= now
    /\ alive /\ seq < SampleBound => now < (seq + 1) * Period

\* Whatever was due for a flush has been flushed.
FlushedBy(s, sent, t) == \A g \in Nat : g * (s * Period) <= t => g * s <= sent
Flushed == FlushedBy(Size, Sent, now)

\* The queue holds the samples after those.
Queued ==
    /\ queue \in Seq(Int) /\ Sent \in Nat
    /\ \A i \in 1..Len(queue) : queue[i] = Sent + i
    /\ queue # <<>> => link.burst /\ Flushed

\* What is under way is what was flushed last, and is due now.
OnWire ==
    /\ wire \in Seq(Msg) /\ Came \in Nat
    /\ \A i \in 1..Len(wire) : wire[i].seq = Came + i /\ Arrival(Size, Came + i) = now

\* The entry of a take that has heard c messages, the last of them number k.
Followed(l, s, c, k) ==
    [count |-> c, firstT |-> Arrival(s, k - c + 1), lastT |-> Arrival(s, k), outOfOrder |-> 0,
     lost |-> 0, deviceTime |-> l.deviceTime, intervals |-> [i \in 1..(c - 1) |-> Gap(s, k - c + i)],
     lastSeq |-> IF l.numbered THEN k ELSE None]

\* The take has heard every message since its first.
Following == recording /\ \E c \in Nat \ {0} : c <= Came /\ entry = Followed(link, Size, c, Came)

\* The whole stream, number by number.
FaithfulInv ==
    /\ link \in Links
    /\ ~ link.faulty =>
          Sampled /\ Queued /\ OnWire /\ ~ malformed /\ (entry = NewEntry \/ Following)

LEMMA FaithfulInit == Init => FaithfulInv
<1> SUFFICES ASSUME Init PROVE FaithfulInv
  OBVIOUS
<1>1. seq = 0 /\ now = 0 /\ queue = <<>> /\ wire = <<>> /\ link \in Links
      /\ entry = NewEntry /\ malformed = FALSE
  BY DEF Init
<1>2. Len(queue) = 0 /\ Len(wire) = 0 /\ queue \in Seq(Int) /\ wire \in Seq(Msg)
  BY <1>1, EmptySeq
<1>3. Period \in Nat \ {0}
  BY SizesAssumption
<1>4. Sampled
  BY <1>1, <1>3 DEF Sampled
<1>5. Queued
  BY <1>1, <1>2 DEF Queued, Sent
<1>6. OnWire
  BY <1>1, <1>2 DEF OnWire, Came, Sent
<1> QED BY <1>1, <1>4, <1>5, <1>6 DEF FaithfulInv

\* What a flush or a sample finds behind it.
LEMMA FlushedBefore ==
    ASSUME link \in Links, Sampled, Queued, queue # <<>> \/ (alive /\ seq < SampleBound)
    PROVE  Flushed
<1>1. CASE queue # <<>>
  BY <1>1 DEF Queued
<1>2. CASE queue = <<>> /\ alive /\ seq < SampleBound
  <2>1. Sent = seq /\ now < (seq + 1) * Period /\ seq \in Nat /\ now \in Nat
    BY <1>2 DEF Sent, Sampled
  <2>2. Size \in Nat \ {0} /\ Period \in Nat \ {0}
    BY SizeType
  <2>3. ASSUME NEW g \in Nat, g * (Size * Period) <= now PROVE g * Size <= Sent
    <3>1. PICK s \in Nat \ {0} : s = Size
      BY <2>2
    <3>2. PICK a \in Int, b \in Int : a = g * (s * Period) /\ b = (seq + 1) * Period
      BY <2>1, <2>2
    <3>3. a < b
      BY <2>1, <2>3, <3>1, <3>2
    <3>4. g * s <= seq
      BY <2>1, <3>2, <3>3, DueSamples
    <3> QED BY <2>1, <3>1, <3>4
  <2> QED BY <2>3 DEF Flushed, FlushedBy
<1> QED BY <1>1, <1>2

LEMMA AppendOne ==
    ASSUME NEW q \in Seq(Int), NEW x \in Int
    PROVE  /\ Append(q, x) \in Seq(Int) /\ Append(q, x) # <<>> /\ Len(Append(q, x)) = Len(q) + 1
           /\ \A i \in 1..Len(q) : Append(q, x)[i] = q[i]
           /\ Append(q, x)[Len(q) + 1] = x
<1>1. Append(q, x) \in Seq(Int) /\ Append(q, x) # <<>> /\ Len(Append(q, x)) = Len(q) + 1
  BY AppendProperties
<1>2. \A i \in 1..Len(q) : Append(q, x)[i] = q[i]
  BY AppendProperties
<1>3. Append(q, x)[Len(q) + 1] = x
  BY AppendProperties
<1> QED BY <1>1, <1>2, <1>3

\* The samples a tick finds in the queue, its own included.
Samples == IF alive /\ seq < SampleBound /\ now' % Period = 0 THEN Append(queue, seq + 1) ELSE queue

LEMMA SamplesHold ==
    ASSUME Sampled, Queued, now' = now + 1,
           seq' = IF alive /\ seq < SampleBound /\ now' % Period = 0 THEN seq + 1 ELSE seq
    PROVE  /\ Samples \in Seq(Int) /\ seq' \in Nat /\ Sent = seq' - Len(Samples)
           /\ \A i \in 1..Len(Samples) : Samples[i] = Sent + i
           /\ Samples = <<>> => seq' = seq /\ queue = <<>>
           /\ Samples # <<>> => queue # <<>> \/ (alive /\ seq < SampleBound /\ now' % Period = 0)
<1>1. queue \in Seq(Int) /\ Len(queue) \in Nat /\ seq \in Nat /\ Sent \in Nat /\ Sent = seq - Len(queue)
  BY LenProperties DEF Queued, Sampled, Sent
<1>2. CASE alive /\ seq < SampleBound /\ now' % Period = 0
  <2>1. Samples = Append(queue, seq + 1) /\ seq' = seq + 1
    BY <1>2 DEF Samples
  <2>2. /\ Append(queue, seq + 1) \in Seq(Int) /\ Append(queue, seq + 1) # <<>>
        /\ Len(Append(queue, seq + 1)) = Len(queue) + 1
        /\ \A i \in 1..Len(queue) : Append(queue, seq + 1)[i] = queue[i]
        /\ Append(queue, seq + 1)[Len(queue) + 1] = seq + 1
    <3>1. seq + 1 \in Int
      BY <1>1
    <3> QED BY <1>1, <3>1, AppendOne
  <2>3. \A i \in 1..(Len(queue) + 1) : Append(queue, seq + 1)[i] = Sent + i
    <3>1. \A i \in 1..(Len(queue) + 1) : i \in 1..Len(queue) \/ i = Len(queue) + 1
      BY <1>1
    <3> QED BY <1>1, <2>2, <3>1 DEF Queued
  <2> QED BY <1>1, <1>2, <2>1, <2>2, <2>3
<1>3. CASE ~ (alive /\ seq < SampleBound /\ now' % Period = 0)
  <2>1. Samples = queue /\ seq' = seq
    BY <1>3 DEF Samples
  <2> QED BY <1>1, <2>1 DEF Queued
<1> QED BY <1>2, <1>3

-----------------------------------------------------------------------------
(* Ticks *)

\* A flush delivers its samples on time.
LEMMA FlushOnTime ==
    ASSUME NEW s \in Nat \ {0}, NEW g \in Nat, NEW sent \in Nat, NEW n \in Nat, NEW t \in Nat,
           NEW m \in Nat,
           t + 1 = g * (s * Period), FlushedBy(s, sent, t),
           sent < n, n <= m, m * Period <= t + 1
    PROVE  Arrival(s, n) = t + 1
<1>0. Period \in Nat \ {0}
  BY SizesAssumption
<1>1. g # 0
  BY <1>0
<1>2. g - 1 \in Nat /\ (g - 1) * (s * Period) <= t
  <2>1. (g - 1) * (s * Period) = g * (s * Period) - s * Period /\ s * Period > 0 /\ s * Period \in Nat
    BY <1>0
  <2> QED BY <1>1, <2>1
<1>3. (g - 1) * s < n
  <2>1. (g - 1) * s <= sent
    BY <1>2 DEF FlushedBy
  <2>2. (g - 1) * s \in Int
    BY <1>1
  <2> QED BY <2>1, <2>2
<1>4. m <= g * s
  BY TakenSamples
<1>5. n <= g * s
  BY <1>4
<1> QED BY <1>3, <1>5, ArrivalAt

\* A tick takes at most the sample that is due.
LEMMA SampledStays ==
    ASSUME Sampled, now' = now + 1, alive' = alive, SampleBound' = SampleBound,
           seq' = IF alive /\ seq < SampleBound /\ now' % Period = 0 THEN seq + 1 ELSE seq
    PROVE  Sampled' /\ (alive /\ seq < SampleBound /\ now' % Period = 0 => now' = seq' * Period)
<1>0. Period \in Nat \ {0} /\ seq \in Nat /\ now \in Nat /\ seq * Period <= now /\ now' \in Nat
  BY SizesAssumption DEF Sampled
<1>1. CASE ~ (alive /\ seq < SampleBound)
  <2>1. seq' = seq
    BY <1>1
  <2> QED BY <1>0, <1>1, <2>1 DEF Sampled
<1>2. CASE alive /\ seq < SampleBound
  <2>1. PICK t \in Nat : t = now'
    BY <1>0
  <2>2. PICK a \in Nat, b \in Nat : a = seq * Period /\ b = (seq + 1) * Period /\ a + Period = b
    BY <1>0
  <2>3. a < t /\ t <= b
    BY <1>0, <1>2, <2>1, <2>2 DEF Sampled
  <2>4. t % Period = 0 <=> t = b
    BY <1>0, <2>2, <2>3, NextSample
  <2>5. CASE t = b
    <3>1. seq' = seq + 1
      BY <1>2, <2>1, <2>4, <2>5
    <3>2. (seq' + 1) * Period = b + Period /\ seq' * Period = b
      BY <1>0, <2>2, <3>1
    <3> QED BY <1>0, <2>1, <2>5, <3>1, <3>2 DEF Sampled
  <2>6. CASE t # b
    <3>1. seq' = seq /\ ~(now' % Period = 0)
      BY <1>2, <2>1, <2>4, <2>6
    <3>2. (seq' + 1) * Period = b /\ seq' * Period = a
      BY <2>2, <3>1
    <3> QED BY <1>0, <2>1, <2>3, <2>6, <3>1, <3>2 DEF Sampled
  <2> QED BY <2>5, <2>6
<1> QED BY <1>1, <1>2

\* What Tick does over a faultless link.
LEMMA TickSays ==
    ASSUME ~ link.faulty, Tick
    PROVE  /\ wire = <<>> /\ now' = now + 1 /\ alive' = alive /\ link' = link
           /\ SampleBound' = SampleBound /\ Size' = Size
           /\ entry' = entry /\ recording' = recording /\ malformed' = malformed
           /\ seq' = IF alive /\ seq < SampleBound /\ now' % Period = 0 THEN seq + 1 ELSE seq
           /\ \/ /\ ~ link.burst \/ now' % (Burst * Period) = 0
                 /\ queue' = <<>>
                 /\ wire' = wire \o [i \in DOMAIN Samples |-> Message(Samples[i])]
              \/ /\ link.burst /\ ~ (now' % (Burst * Period) = 0)
                 /\ queue' = Samples /\ wire' = wire
BY DEF Tick, SampleBound, Size, Samples, takeVars

\* The messages of a flush.
LEMMA FlushSends ==
    ASSUME Samples \in Seq(Int), now \in Nat, wire = <<>>,
           wire' = wire \o [i \in DOMAIN Samples |-> Message(Samples[i])]
    PROVE  /\ wire' \in Seq(Msg) /\ Len(wire') = Len(Samples) /\ Len(Samples) \in Nat
           /\ \A i \in 1..Len(Samples) : wire'[i].seq = Samples[i]
<1>1. PICK n \in Nat : n = Len(Samples) /\ DOMAIN Samples = 1..n
  BY LenProperties
<1>2. PICK w : w = [i \in 1..n |-> Message(Samples[i])]
  OBVIOUS
<1>3. \A i \in 1..n : Message(Samples[i]) \in Msg /\ Message(Samples[i]).seq = Samples[i]
  <2>1. \A i \in 1..n : Samples[i] \in Int
    BY <1>1, ElementOfSeq
  <2>2. now + 1 \in Int
    OBVIOUS
  <2> QED BY <2>1, <2>2 DEF Message, Msg
<1>4. w \in [1..n -> Msg] /\ \A i \in 1..n : w[i].seq = Samples[i]
  BY <1>2, <1>3
<1>5. w \in Seq(Msg) /\ Len(w) = n
  BY <1>4
<1>6. wire' = <<>> \o w
  BY <1>1, <1>2
<1>7. <<>> \o w = w
  BY <1>5, ConcatEmptySeq
<1> QED BY <1>1, <1>4, <1>5, <1>6, <1>7

\* A tick delivers what is flushed at its own time, and leaves the rest queued.
LEMMA TickFaithful ==
    ASSUME FaithfulInv, ~ link.faulty, Tick
    PROVE  Sampled' /\ Queued' /\ OnWire' /\ Came' = Came
<1>1. Sampled /\ Queued /\ OnWire /\ link \in Links
  BY DEF FaithfulInv
<1>2. /\ wire = <<>> /\ now' = now + 1 /\ alive' = alive /\ link' = link
      /\ SampleBound' = SampleBound /\ Size' = Size
      /\ seq' = IF alive /\ seq < SampleBound /\ now' % Period = 0 THEN seq + 1 ELSE seq
  BY TickSays
<1>3. Sampled' /\ (alive /\ seq < SampleBound /\ now' % Period = 0 => now' = seq' * Period)
  BY <1>1, <1>2, SampledStays
<1>4. /\ Samples \in Seq(Int) /\ seq' \in Nat /\ Sent = seq' - Len(Samples)
      /\ \A i \in 1..Len(Samples) : Samples[i] = Sent + i
      /\ Samples = <<>> => seq' = seq /\ queue = <<>>
      /\ Samples # <<>> => queue # <<>> \/ (alive /\ seq < SampleBound /\ now' % Period = 0)
  BY <1>1, <1>2, SamplesHold
<1>5. Samples # <<>> => Flushed
  BY <1>1, <1>4, FlushedBefore
<1>6. Size \in Nat \ {0} /\ Period \in Nat \ {0} /\ Size * Period \in Nat \ {0}
      /\ now \in Nat /\ now' \in Nat /\ Sent \in Nat /\ Len(Samples) \in Nat
  BY <1>1, <1>2, <1>4, SizeType, LenProperties DEF Sampled, Queued
<1>7. Len(<<>>) = 0 /\ Came = Sent
  <2>1. Len(wire) = 0
    BY <1>2, EmptySeq
  <2> QED BY <1>2, <1>6, <2>1, EmptySeq DEF Came
<1>8. CASE /\ ~ link.burst \/ now' % (Burst * Period) = 0
           /\ queue' = <<>>
           /\ wire' = wire \o [i \in DOMAIN Samples |-> Message(Samples[i])]
  <2>1. Len(queue') = 0 /\ queue' \in Seq(Int)
    BY <1>8, EmptySeq
  <2>2. Sent' = seq'
    <3>1. seq' \in Nat
      BY <1>4
    <3>2. Sent' = seq' - Len(queue')
      BY DEF Sent
    <3>3. PICK a \in Int : a = seq' /\ a - 0 = a
      BY <3>1
    <3> QED BY <2>1, <3>2, <3>3
  <2>3. Queued'
    BY <1>4, <1>8, <2>1, <2>2 DEF Queued
  <2>4. /\ wire' \in Seq(Msg) /\ Len(wire') = Len(Samples)
        /\ \A i \in 1..Len(Samples) : wire'[i].seq = Samples[i]
    BY <1>2, <1>4, <1>6, <1>8, FlushSends
  <2>5. Came' = Came
    BY <1>4, <1>6, <1>7, <2>2, <2>4 DEF Came
  <2>6. ASSUME NEW i \in 1..Len(Samples) PROVE Arrival(Size, Sent + i) = now'
    <3>1. Samples # <<>>
      BY <1>6, EmptySeq
    <3>2. Flushed
      BY <1>5, <3>1
    <3>3. \E g \in Nat : now' = g * (Size * Period)
      <4>1. CASE link.burst
        <5>1. now' % (Size * Period) = 0
          BY <1>8, <4>1 DEF Size
        <5>2. PICK k \in Nat \ {0}, t \in Nat : k = Size * Period /\ t = now'
          BY <1>6
        <5> QED BY <5>1, <5>2, Multiple
      <4>2. CASE ~ link.burst
        <5>1. queue = <<>>
          BY <1>1, <4>2 DEF Queued
        <5>2. now' = seq' * Period
          BY <1>3, <1>4, <3>1, <5>1
        <5>3. Size = 1
          BY <4>2 DEF Size
        <5>4. Size * Period = Period /\ seq' \in Nat
          BY <1>4, <1>6, <5>3
        <5>5. now' = seq' * (Size * Period)
          BY <5>2, <5>4
        <5> QED BY <5>4, <5>5
      <4> QED BY <4>1, <4>2
    <3>4. PICK g \in Nat : now' = g * (Size * Period)
      BY <3>3
    <3>5. PICK s \in Nat \ {0} : s = Size
      BY <1>6
    <3>6. PICK sent \in Nat : sent = Sent
      BY <1>6
    <3>7. PICK t \in Nat : t = now
      BY <1>6
    <3>8. PICK m \in Nat : m = seq'
      BY <1>4
    <3>9. PICK n \in Nat : n = sent + i
      BY <1>6
    <3>10. t + 1 = g * (s * Period)
      BY <1>2, <3>4, <3>5, <3>7
    <3>11. FlushedBy(s, sent, t)
      BY <3>2, <3>5, <3>6, <3>7 DEF Flushed
    <3>12. sent < n /\ n <= m
      BY <1>4, <1>6, <3>6, <3>8, <3>9
    <3>13. m * Period <= t + 1
      BY <1>2, <1>3, <3>7, <3>8 DEF Sampled
    <3>14. Arrival(s, n) = t + 1
      BY <3>10, <3>11, <3>12, <3>13, FlushOnTime
    <3> QED BY <1>2, <3>5, <3>6, <3>7, <3>9, <3>14
  <2>7. OnWire'
    <3>1. \A i \in 1..Len(wire') : wire'[i].seq = Came' + i /\ Arrival(Size', Came' + i) = now'
      BY <1>2, <1>4, <1>7, <2>4, <2>5, <2>6
    <3>2. Came' \in Nat
      BY <1>6, <1>7, <2>5
    <3> QED BY <2>4, <3>1, <3>2 DEF OnWire
  <2> QED BY <1>3, <2>3, <2>5, <2>7
<1>9. CASE /\ link.burst /\ ~ (now' % (Burst * Period) = 0)
           /\ queue' = Samples /\ wire' = wire
  <2>1. Sent' = Sent
    BY <1>4, <1>9 DEF Sent
  <2>2. Len(wire') = 0 /\ wire' \in Seq(Msg)
    BY <1>2, <1>9, EmptySeq
  <2>3. Came' = Came
    BY <1>6, <1>7, <2>1, <2>2 DEF Came
  <2>4. OnWire'
    BY <1>6, <1>7, <2>2, <2>3 DEF OnWire
  <2>5. Samples # <<>> => Flushed'
    <3> SUFFICES ASSUME Samples # <<>>, NEW g \in Nat, g * (Size' * Period) <= now'
                 PROVE  g * Size' <= Sent'
      BY DEF Flushed, FlushedBy
    <3>1. Flushed
      BY <1>5
    <3>2. PICK k \in Nat \ {0} : k = Size * Period /\ ~ (now' % k = 0)
      BY <1>6, <1>9 DEF Size
    <3>3. g * k <= now' /\ now' # g * k
      <4>1. (g * k) % k = 0
        OBVIOUS
      <4> QED BY <1>2, <3>2, <4>1
    <3>4. g * (Size * Period) <= now
      BY <1>2, <1>6, <3>2, <3>3
    <3> QED BY <1>2, <2>1, <3>1, <3>4 DEF Flushed, FlushedBy
  <2>6. Queued'
    BY <1>2, <1>4, <1>6, <1>9, <2>1, <2>5 DEF Queued
  <2> QED BY <1>3, <2>3, <2>4, <2>6
<1> QED BY <1>8, <1>9, TickSays

-----------------------------------------------------------------------------
(* Messages *)

\* The rest of the wire when its first message is received.
LEMMA RestOfWire ==
    ASSUME wire \in Seq(Msg), 1 \in DOMAIN wire
    PROVE  /\ Without(1) \in Seq(Msg) /\ Len(Without(1)) = Len(wire) - 1
           /\ Len(wire) \in Nat \ {0}
           /\ \A i \in 1..(Len(wire) - 1) : Without(1)[i] = wire[i + 1]
<1>1. Len(wire) \in Nat \ {0} /\ \A i \in 1..Len(wire) : wire[i] \in Msg
  BY LenProperties, ElementOfSeq
<1>2. PICK n \in Nat : n = Len(wire) - 1
  BY <1>1
<1>3. \A i \in 1..(1 - 1) : wire[i] \in Msg
  OBVIOUS
<1>4. SubSeq(wire, 1, 1 - 1) = <<>>
  BY SubSeqEmpty
<1>5. \A i \in 2..(n + 1) : wire[i] \in Msg
  BY <1>1, <1>2
<1>6. PICK rest : rest = SubSeq(wire, 2, n + 1)
  OBVIOUS
<1>7. rest \in Seq(Msg) /\ Len(rest) = n /\ \A i \in 1..n : rest[i] = wire[i + 1]
  <2>1. 2 \in Int /\ n + 1 \in Int /\ (n + 1) - 2 + 1 = n
    BY <1>2
  <2>2. rest \in Seq(Msg)
    BY <1>5, <1>6, <2>1, SubSeqProperties
  <2>3. Len(rest) = n
    <3>1. Len(rest) = IF 2 <= n + 1 THEN (n + 1) - 2 + 1 ELSE 0
      BY <1>5, <1>6, <2>1, SubSeqProperties
    <3> QED BY <1>2, <3>1
  <2>4. \A i \in 1..n : rest[i] = wire[i + 1]
    <3>1. \A i \in 1..((n + 1) - 2 + 1) : rest[i] = wire[2 + i - 1]
      BY <1>5, <1>6, <2>1, SubSeqProperties
    <3>2. \A i \in 1..n : 2 + i - 1 = i + 1
      OBVIOUS
    <3> QED BY <1>2, <2>1, <3>1, <3>2
  <2> QED BY <2>2, <2>3, <2>4
<1>8. Without(1) = <<>> \o rest
  <2>1. 1 + 1 = 2 /\ n + 1 = Len(wire)
    BY <1>1, <1>2
  <2>2. Without(1) = SubSeq(wire, 1, 1 - 1) \o SubSeq(wire, 1 + 1, Len(wire))
    BY DEF Without
  <2> QED BY <1>4, <1>6, <2>1, <2>2
<1>9. Without(1) = rest
  BY <1>7, <1>8, ConcatEmptySeq
<1> QED BY <1>1, <1>2, <1>7, <1>9

\* The first message of a take.
LEMMA FollowedFirst ==
    ASSUME NEW k \in Nat, NEW n, n = (IF link.numbered THEN k + 1 ELSE None), link \in Links,
           now = Arrival(Size, k + 1)
    PROVE  Observe(NewEntry, now, n, link.deviceTime) = Followed(link, Size, 1, k + 1)
<1>1. /\ Intervals(NewEntry, now) = <<>> /\ Skipped(NewEntry, n) = 0 /\ ~ Late(NewEntry, n)
  BY NoneAssumption DEF Intervals, NewEntry, Skipped, Late
<1>2. [i \in 1..(1 - 1) |-> Gap(Size, (k + 1) - 1 + i)] = <<>>
  OBVIOUS
<1>3. (k + 1) - 1 + 1 = k + 1
  OBVIOUS
<1>4. FALSE \/ link.deviceTime = link.deviceTime
  OBVIOUS
<1>5. link.deviceTime \in BOOLEAN /\ link.numbered \in BOOLEAN
  BY DEF Links
<1>6. (NewEntry.deviceTime \/ link.deviceTime) = link.deviceTime
  BY <1>5 DEF NewEntry
<1>7. /\ NewEntry.count + 1 = 1 /\ NewEntry.outOfOrder + 0 = 0 /\ NewEntry.lost + 0 = 0
      /\ NewEntry.firstT = None /\ NewEntry.lastSeq = None
  BY DEF NewEntry
<1>8. (IF n # None THEN n ELSE NewEntry.lastSeq) = IF link.numbered THEN k + 1 ELSE None
  BY <1>7, NoneAssumption
<1>9. /\ (IF n # None /\ Late(NewEntry, n) THEN 1 ELSE 0) = 0
      /\ (IF n # None THEN Skipped(NewEntry, n) ELSE 0) = 0
  BY <1>1
<1> HIDE DEF NewEntry
<1> QED BY <1>1, <1>2, <1>3, <1>6, <1>7, <1>8, <1>9 DEF Observe, Followed

\* Each message after it.
LEMMA FollowedNext ==
    ASSUME NEW c \in Nat \ {0}, NEW k \in Nat, c <= k, NEW n, link \in Links,
           n = (IF link.numbered THEN k + 1 ELSE None), now = Arrival(Size, k + 1)
    PROVE  Observe(Followed(link, Size, c, k), now, n, link.deviceTime) = Followed(link, Size, c + 1, k + 1)
<1> DEFINE e == Followed(link, Size, c, k)
<1>0. Size \in Nat \ {0}
  BY SizeType
<1>1. /\ e.count = c /\ e.firstT = Arrival(Size, k - c + 1) /\ e.lastT = Arrival(Size, k)
      /\ e.outOfOrder = 0 /\ e.lost = 0 /\ e.deviceTime = link.deviceTime
      /\ e.intervals = [i \in 1..(c - 1) |-> Gap(Size, k - c + i)]
      /\ e.lastSeq = IF link.numbered THEN k ELSE None
  BY DEF Followed
<1> HIDE DEF e
<1>2. /\ Arrival(Size, k) \in Int /\ Arrival(Size, k - c + 1) \in Int
      /\ Arrival(Size, k + 1) - Arrival(Size, k) = Gap(Size, k)
      /\ \A j \in Nat : Gap(Size, j) \in Int
  <2>1. k - c + 1 \in Nat
    OBVIOUS
  <2> QED BY <1>0, <2>1, ArrivalGap
<1>3. Intervals(e, now) = [i \in 1..c |-> Gap(Size, k - c + i)]
  <2>1. PICK iv : iv = [i \in 1..(c - 1) |-> Gap(Size, k - c + i)]
    OBVIOUS
  <2>2. iv \in Seq(Int) /\ Len(iv) = c - 1
    <3>1. iv \in [1..(c - 1) -> Int]
      BY <1>2, <2>1
    <3> QED BY <3>1
  <2>3. PICK x \in Int : x = Gap(Size, k)
    BY <1>2
  <2>4. PICK jv : jv = Append(iv, x)
    OBVIOUS
  <2>5. jv \in Seq(Int) /\ Len(jv) = c /\ (\A i \in 1..(c - 1) : jv[i] = iv[i]) /\ jv[c] = x
    BY <2>2, <2>4, AppendOne
  <2>6. jv \in [1..c -> Int]
    BY <2>5, LenProperties
  <2>7. PICK kv : kv = [i \in 1..c |-> Gap(Size, k - c + i)]
    OBVIOUS
  <2>8. ASSUME NEW i \in 1..c PROVE jv[i] = kv[i]
    <3>1. CASE i = c
      <4>1. k - c + c = k
        OBVIOUS
      <4> QED BY <2>3, <2>5, <2>7, <3>1, <4>1
    <3>2. CASE i # c
      <4>1. i \in 1..(c - 1)
        BY <3>2
      <4> QED BY <2>1, <2>5, <2>7, <4>1
    <3> QED BY <3>1, <3>2
  <2>9. jv = kv
    BY <2>6, <2>7, <2>8
  <2>10. Intervals(e, now) = Append(iv, now - e.lastT)
    BY <1>1, <1>2, <2>1, NoneAssumption DEF Intervals
  <2>11. now - e.lastT = x
    BY <1>1, <1>2, <2>3
  <2> QED BY <2>4, <2>7, <2>9, <2>10, <2>11
<1>4. /\ (IF n # None /\ Late(e, n) THEN 1 ELSE 0) = 0
      /\ (IF n # None THEN Skipped(e, n) ELSE 0) = 0
  <2>1. CASE link.numbered
    <3>1. n = k + 1 /\ e.lastSeq = k
      BY <1>1, <2>1
    <3>2. ~ (k + 1 <= k) /\ ~ (k + 1 > k + 1)
      OBVIOUS
    <3>3. ~ Late(e, n) /\ Skipped(e, n) = 0
      BY <3>1, <3>2 DEF Late, Skipped
    <3> QED BY <3>3
  <2>2. CASE ~ link.numbered
    BY <2>2
  <2> QED BY <2>1, <2>2
<1>5. (k + 1) - (c + 1) + 1 = k - c + 1 /\ (c + 1) - 1 = c
  OBVIOUS
<1>6. [i \in 1..((c + 1) - 1) |-> Gap(Size, (k + 1) - (c + 1) + i)] = [i \in 1..c |-> Gap(Size, k - c + i)]
  <2>1. \A i \in 1..c : (k + 1) - (c + 1) + i = k - c + i
    OBVIOUS
  <2> QED BY <1>5, <2>1
<1>7. (IF n # None THEN n ELSE e.lastSeq) = IF link.numbered THEN k + 1 ELSE None
  BY <1>1, NoneAssumption
<1>8. (e.deviceTime \/ link.deviceTime) = link.deviceTime
  <2>1. link.deviceTime \in BOOLEAN
    BY DEF Links
  <2> QED BY <1>1, <2>1
<1>9. (IF e.firstT = None THEN now ELSE e.firstT) = Arrival(Size, (k + 1) - (c + 1) + 1)
  BY <1>1, <1>2, <1>5, NoneAssumption
<1>10. e.count + 1 = c + 1 /\ e.outOfOrder + 0 = 0 /\ e.lost + 0 = 0
  BY <1>1
<1>11. Observe(e, now, n, link.deviceTime) =
          [count |-> c + 1, firstT |-> Arrival(Size, (k + 1) - (c + 1) + 1), lastT |-> Arrival(Size, k + 1),
           outOfOrder |-> 0, lost |-> 0, deviceTime |-> link.deviceTime,
           intervals |-> [i \in 1..((c + 1) - 1) |-> Gap(Size, (k + 1) - (c + 1) + i)],
           lastSeq |-> IF link.numbered THEN k + 1 ELSE None]
  BY <1>3, <1>4, <1>6, <1>7, <1>8, <1>9, <1>10 DEF Observe
<1> QED BY <1>11 DEF e, Followed

LEMMA ReceiveFaithful ==
    ASSUME FaithfulInv, ~ link.faulty, NEW i \in DOMAIN wire, Receive(i)
    PROVE  FaithfulInv'
<1>1. /\ Sampled /\ Queued /\ OnWire /\ link \in Links /\ ~ malformed
      /\ entry = NewEntry \/ Following
  BY DEF FaithfulInv
<1>2. /\ i = 1 /\ wire' = Without(1)
      /\ UNCHANGED <<link, alive, seq, queue, now, faults, recording, malformed>>
      /\ recording => entry' = Observe(entry, now, Number(wire[1]), link.deviceTime)
      /\ ~ recording => entry' = entry
  BY DEF Receive, streamVars
<1>3. SampleBound' = SampleBound /\ Size' = Size /\ Sent' = Sent
  BY <1>2 DEF SampleBound, Size, Sent
<1>4. Sampled'
  BY <1>1, <1>2, <1>3 DEF Sampled
<1>5. Queued'
  BY <1>1, <1>2, <1>3 DEF Queued, Flushed
<1>6. /\ wire' \in Seq(Msg) /\ Len(wire') = Len(wire) - 1 /\ Len(wire) \in Nat \ {0}
      /\ \A j \in 1..(Len(wire) - 1) : wire'[j] = wire[j + 1]
  <2>1. wire \in Seq(Msg)
    BY <1>1 DEF OnWire
  <2> QED BY <1>2, <2>1, RestOfWire
<1>7. Came \in Nat /\ Sent \in Nat /\ Came = Sent - Len(wire)
  BY <1>1 DEF OnWire, Queued, Came
<1>8. Came' = Came + 1
  <2>1. Came' = Sent' - Len(wire')
    BY DEF Came
  <2> QED BY <1>3, <1>6, <1>7, <2>1
<1>9. OnWire'
  <2>1. ASSUME NEW j \in 1..Len(wire')
        PROVE  wire'[j].seq = Came' + j /\ Arrival(Size', Came' + j) = now'
    <3>1. j \in 1..(Len(wire) - 1) /\ j + 1 \in 1..Len(wire) /\ Came' + j = Came + (j + 1)
      BY <1>6, <1>7, <1>8
    <3>2. wire[j + 1].seq = Came + (j + 1) /\ Arrival(Size, Came + (j + 1)) = now
      BY <1>1, <3>1 DEF OnWire
    <3> QED BY <1>2, <1>3, <1>6, <3>1, <3>2
  <2>2. Came' \in Nat
    BY <1>7, <1>8
  <2> QED BY <1>6, <2>1, <2>2 DEF OnWire
<1>10. entry' = NewEntry \/ Following'
  <2>1. CASE ~ recording
    BY <1>1, <1>2, <2>1 DEF Following
  <2>2. CASE recording
    <3>1. wire[1].seq = Came + 1 /\ now = Arrival(Size, Came + 1)
      BY <1>1, <1>6 DEF OnWire
    <3>2. PICK k \in Nat : k = Came
      BY <1>7
    <3>3. PICK n : n = Number(wire[1])
      OBVIOUS
    <3>4. n = (IF link.numbered THEN k + 1 ELSE None) /\ now = Arrival(Size, k + 1)
      BY <3>1, <3>2, <3>3 DEF Number
    <3>6. ASSUME NEW c \in Nat \ {0}, c <= k + 1, entry' = Followed(link, Size, c, k + 1) PROVE Following'
      <4>1. Came' = k + 1 /\ link' = link /\ Size' = Size /\ recording'
        BY <1>2, <1>3, <1>8, <2>2, <3>2
      <4>2. entry' = Followed(link', Size', c, Came') /\ c <= Came'
        BY <3>6, <4>1
      <4> QED BY <4>1, <4>2 DEF Following
    <3>7. CASE entry = NewEntry
      <4>1. entry' = Followed(link, Size, 1, k + 1)
        BY <1>1, <1>2, <2>2, <3>3, <3>4, <3>7, FollowedFirst
      <4>2. 1 <= k + 1 /\ 1 \in Nat \ {0}
        OBVIOUS
      <4> QED BY <3>6, <4>1, <4>2
    <3>8. CASE Following
      <4>1. PICK c \in Nat \ {0} : c <= k /\ entry = Followed(link, Size, c, k)
        BY <3>2, <3>8 DEF Following
      <4>2. entry' = Followed(link, Size, c + 1, k + 1)
        BY <1>1, <1>2, <2>2, <3>3, <3>4, <4>1, FollowedNext
      <4>3. c + 1 <= k + 1 /\ c + 1 \in Nat \ {0}
        BY <4>1
      <4> QED BY <3>6, <4>2, <4>3
    <3> QED BY <1>1, <3>7, <3>8
  <2> QED BY <2>1, <2>2
<1> QED BY <1>1, <1>2, <1>4, <1>5, <1>9, <1>10 DEF FaithfulInv

LEMMA FaithfulStep == FaithfulInv /\ [Next]_vars => FaithfulInv'
<1> SUFFICES ASSUME FaithfulInv, [Next]_vars PROVE FaithfulInv'
  OBVIOUS
<1>0. link' = link /\ link \in Links
  BY DEF FaithfulInv, Next, Tick, Die, StartTake, ReceiveMalformed, Lose, Repeat, Receive, vars, streamVars
<1>1. CASE link.faulty
  BY <1>0, <1>1 DEF FaithfulInv
<1>2. CASE ~ link.faulty
  <2>1. ASSUME UNCHANGED <<link, seq, queue, now, wire, malformed, entry>>,
               alive' => alive, recording => recording'
        PROVE  FaithfulInv'
    <3>1. SampleBound' = SampleBound /\ Size' = Size /\ Sent' = Sent /\ Came' = Came
      BY <2>1 DEF SampleBound, Size, Sent, Came
    <3>2. Sampled /\ Queued /\ OnWire /\ ~ malformed /\ (entry = NewEntry \/ Following)
      BY <1>2 DEF FaithfulInv
    <3>3. Sampled' /\ Queued' /\ OnWire'
      BY <2>1, <3>1, <3>2 DEF Sampled, Queued, Flushed, OnWire
    <3>4. Following => Following'
      BY <2>1, <3>1 DEF Following
    <3> QED BY <1>0, <2>1, <3>2, <3>3, <3>4 DEF FaithfulInv
  <2>2. CASE Tick
    <3>1. Sampled' /\ Queued' /\ OnWire' /\ Came' = Came
      BY <1>2, <2>2, TickFaithful
    <3>2. entry' = entry /\ recording' = recording /\ malformed' = malformed /\ Size' = Size
      BY <1>2, <2>2, TickSays
    <3>3. ~ malformed /\ (entry = NewEntry \/ Following)
      BY <1>2 DEF FaithfulInv
    <3>4. Following => Following'
      BY <1>0, <3>1, <3>2 DEF Following
    <3> QED BY <1>0, <3>1, <3>2, <3>3, <3>4 DEF FaithfulInv
  <2>3. CASE Die
    BY <2>1, <2>3 DEF Die, takeVars
  <2>4. CASE StartTake
    BY <2>1, <2>4 DEF StartTake, streamVars, takeVars
  <2>5. CASE UNCHANGED vars
    BY <2>1, <2>5 DEF vars, streamVars, takeVars
  <2>6. ASSUME NEW i \in DOMAIN wire, Receive(i) PROVE FaithfulInv'
    BY <1>2, <2>6, ReceiveFaithful
  <2>7. ~ ReceiveMalformed /\ \A i \in DOMAIN wire : ~ Lose(i) /\ ~ Repeat(i)
    BY <1>2 DEF ReceiveMalformed, Lose, Repeat
  <2> QED BY <2>2, <2>3, <2>4, <2>5, <2>6, <2>7 DEF Next
<1> QED BY <1>1, <1>2

-----------------------------------------------------------------------------
(* Medians and maxima *)

\* Only one value has a rank.
LEMMA RankedIs ==
    ASSUME NEW s \in Seq(Int), NEW j \in DOMAIN s, NEW r \in Int,
           Cardinality({i \in DOMAIN s : s[i] < s[j]}) <= r,
           Cardinality({i \in DOMAIN s : s[i] <= s[j]}) > r
    PROVE  Ranked(s, r) = s[j]
<1> DEFINE Below(v) == {i \in DOMAIN s : s[i] < v}
           UpTo(v)  == {i \in DOMAIN s : s[i] <= v}
           Ok(v)    == Cardinality(Below(v)) <= r /\ Cardinality(UpTo(v)) > r
           Values   == {s[i] : i \in DOMAIN s}
<1>1. DOMAIN s = 1..Len(s) /\ Len(s) \in Nat /\ \A i \in DOMAIN s : s[i] \in Int
  BY LenProperties, ElementOfSeq
<1>2. IsFiniteSet(DOMAIN s)
  BY <1>1, FS_Interval
<1>3. \A v : Cardinality(Below(v)) \in Nat /\ Cardinality(UpTo(v)) \in Nat
             /\ IsFiniteSet(Below(v)) /\ IsFiniteSet(UpTo(v))
  <2>1. \A v : Below(v) \in SUBSET DOMAIN s /\ UpTo(v) \in SUBSET DOMAIN s
    OBVIOUS
  <2> HIDE DEF Below, UpTo
  <2> QED BY <1>2, <2>1, FS_Subset, FS_CardinalityType
<1>4. ASSUME NEW v \in Int, NEW w \in Int, v < w, Ok(v), Ok(w) PROVE FALSE
  <2>1. UpTo(v) \in SUBSET Below(w)
    BY <1>1, <1>4
  <2> HIDE DEF Below, UpTo
  <2>2. Cardinality(UpTo(v)) <= Cardinality(Below(w))
    BY <1>3, <2>1, FS_Subset
  <2> QED BY <1>3, <1>4, <2>2
<1>5. s[j] \in Values /\ Ok(s[j])
  OBVIOUS
<1>6. Values \subseteq Int
  BY <1>1
<1>7. Ranked(s, r) = CHOOSE v \in Values : Ok(v)
  BY DEF Ranked
<1> HIDE DEF Ok, Values
<1>8. PICK v : v = CHOOSE x \in Values : Ok(x)
  OBVIOUS
<1>9. v \in Values /\ Ok(v)
  BY <1>5, <1>8
<1>10. v \in Int /\ s[j] \in Int
  BY <1>5, <1>6, <1>9
<1>11. v < s[j] \/ s[j] < v \/ v = s[j]
  BY <1>10
<1> QED BY <1>4, <1>5, <1>7, <1>8, <1>9, <1>10, <1>11

LEMMA HalfRank ==
    ASSUME NEW n \in Nat
    PROVE  RoundedHalf(n) \in Nat /\ RoundedHalf(n) <= n /\ 2 * RoundedHalf(n) <= n + 1
<1>1. PICK q \in Nat : q = n \div 2 /\ (n = 2 * q \/ n = 2 * q + 1) /\ (n % 2 = 0 <=> n = 2 * q)
  <2>1. n = 2 * (n \div 2) + (n % 2) /\ n \div 2 \in Nat /\ (n % 2 = 0 \/ n % 2 = 1)
    OBVIOUS
  <2>2. \E q \in Nat : q = n \div 2
    BY <2>1
  <2>3. PICK q \in Nat : q = n \div 2
    BY <2>2
  <2>4. (n = 2 * q \/ n = 2 * q + 1) /\ (n % 2 = 0 <=> n = 2 * q)
    BY <2>1, <2>3
  <2> QED BY <2>3, <2>4
<1>2. RoundedHalf(n) = q \/ (n = 2 * q + 1 /\ q % 2 # 0 /\ RoundedHalf(n) = q + 1)
  BY <1>1 DEF RoundedHalf
<1>3. q % 2 # 0 => q >= 1
  OBVIOUS
<1> QED BY <1>1, <1>2, <1>3

\* Every s-th interval is a long one: at most a third of them, and one in every s.
LEMMA LongAreFew ==
    ASSUME NEW s \in Nat \ {0}, s > 2, NEW a \in Nat, NEW l \in Nat \ {0}
    PROVE  LET long == {i \in 1..l : (a + i) % s = 0} IN
           /\ IsFiniteSet(long) /\ Cardinality(long) \in Nat
           /\ Cardinality(long) <= (l - 1) \div 3 + 1
<1> DEFINE long == {i \in 1..l : (a + i) % s = 0}
           T == 0..((l - 1) \div 3)
           f == [i \in long |-> (i - 1) \div 3]
<1>1. (l - 1) \div 3 \in Nat
  OBVIOUS
<1>2. IsFiniteSet(T) /\ Cardinality(T) = (l - 1) \div 3 + 1
  BY <1>1, FS_Interval
<1>3. \A i \in long : (i - 1) \div 3 \in T
  <2>1. ASSUME NEW i \in 1..l PROVE (i - 1) \div 3 \in Nat /\ (i - 1) \div 3 <= (l - 1) \div 3
    OBVIOUS
  <2> QED BY <1>1, <2>1
<1>4. ASSUME NEW i \in long, NEW j \in long, i < j PROVE (i - 1) \div 3 # (j - 1) \div 3
  <2>1. PICK p \in Int : a + i = s * p
    <3>1. a + i = s * ((a + i) \div s) + ((a + i) % s) /\ (a + i) % s = 0 /\ (a + i) \div s \in Int
      OBVIOUS
    <3> QED BY <3>1
  <2>2. PICK q \in Int : a + j = s * q
    <3>1. a + j = s * ((a + j) \div s) + ((a + j) % s) /\ (a + j) % s = 0 /\ (a + j) \div s \in Int
      OBVIOUS
    <3> QED BY <3>1
  <2>3. ASSUME q <= p PROVE FALSE
    <3>1. s * (p - q) >= 0
      BY <2>3
    <3>2. s * (p - q) = s * p - s * q
      OBVIOUS
    <3> QED BY <1>4, <2>1, <2>2, <3>1, <3>2
  <2>4. s * (q - p - 1) >= 0
    BY <2>3
  <2>5. s * (q - p - 1) = s * q - s * p - s
    OBVIOUS
  <2>6. j - i >= 3
    BY <2>1, <2>2, <2>4, <2>5
  <2>7. i \in Nat \ {0} /\ j \in Nat \ {0}
    OBVIOUS
  <2> HIDE DEF long
  <2> QED BY <2>6, <2>7
<1>5. f \in Injection(long, T)
  <2>1. f \in [long -> T]
    BY <1>3
  <2>2. ASSUME NEW i \in long, NEW j \in long, f[i] = f[j] PROVE i = j
    <3>1. (i - 1) \div 3 = (j - 1) \div 3
      BY <2>2
    <3>2. i < j \/ j < i \/ i = j
      OBVIOUS
    <3> QED BY <1>4, <3>1, <3>2
  <2> HIDE DEF f, long, T
  <2> QED BY <2>1, <2>2, Fun_IsInj
<1>6. IsFiniteSet(long) /\ Cardinality(long) <= Cardinality(T)
  <2> HIDE DEF f, long, T
  <2> QED BY <1>2, <1>5, FS_Injection
<1> QED BY <1>2, <1>6, FS_CardinalityType

LEMMA LongComes ==
    ASSUME NEW s \in Nat \ {0}, NEW a \in Nat
    PROVE  \E i \in 1..s : (a + i) % s = 0
<1>1. PICK q \in Int, r \in 0..(s - 1) : a = s * q + r
  <2>1. a = s * (a \div s) + (a % s) /\ a \div s \in Int /\ a % s \in 0..(s - 1)
    OBVIOUS
  <2> QED BY <2>1
<1>2. s - r \in 1..s /\ a + (s - r) = s * (q + 1)
  BY <1>1
<1>3. (s * (q + 1)) % s = 0
  BY <1>1
<1> QED BY <1>2, <1>3

\* The intervals of a followed entry.
LEMMA FollowedIntervals ==
    ASSUME NEW c \in Nat \ {0}, NEW k \in Nat, c <= k, NEW s \in Nat \ {0}, NEW l
    PROVE  LET iv == Followed(l, s, c, k).intervals IN
           /\ iv \in Seq(Int) /\ Len(iv) = c - 1 /\ DOMAIN iv = 1..(c - 1)
           /\ \A i \in 1..(c - 1) : iv[i] = IF ((k - c) + i) % s = 0 THEN s * Period ELSE 0
<1>1. PICK iv : iv = [i \in 1..(c - 1) |-> Gap(s, k - c + i)]
  OBVIOUS
<1>2. \A i \in 1..(c - 1) : k - c + i \in Nat /\ Gap(s, k - c + i) \in Int
  BY ArrivalGap
<1>3. iv \in [1..(c - 1) -> Int] /\ \A i \in 1..(c - 1) : iv[i] = Gap(s, k - c + i)
  BY <1>1, <1>2
<1>4. iv \in Seq(Int) /\ Len(iv) = c - 1 /\ DOMAIN iv = 1..(c - 1)
  BY <1>3
<1>5. Followed(l, s, c, k).intervals = iv
  BY <1>1 DEF Followed
<1> QED BY <1>3, <1>4, <1>5 DEF Gap

\* RankedIs, with the sets by name.
LEMMA RankedBy ==
    ASSUME NEW iv \in Seq(Int), NEW j \in DOMAIN iv, NEW r \in Int, NEW below, NEW upto,
           below = {i \in DOMAIN iv : iv[i] < iv[j]}, upto = {i \in DOMAIN iv : iv[i] <= iv[j]},
           Cardinality(below) <= r, Cardinality(upto) > r
    PROVE  Ranked(iv, r) = iv[j]
BY RankedIs

\* Intervals of two lengths, none and k, which is that of the long ones.
Lengths(iv, n, long, k) ==
    /\ DOMAIN iv = 1..n /\ long \subseteq 1..n
    /\ \A i \in 1..n : iv[i] = IF i \in long THEN k ELSE 0

\* None has every rank below their number, and k the last.
LEMMA TwoLengths ==
    ASSUME NEW iv \in Seq(Int), NEW n \in Nat \ {0}, NEW long, NEW k \in Nat \ {0},
           Lengths(iv, n, long, k)
    PROVE  /\ \A h \in Nat : h < n - Cardinality(long) => Ranked(iv, h) = 0
           /\ long # {} => Ranked(iv, n - 1) = k
<1>0. /\ DOMAIN iv = 1..n /\ long \subseteq 1..n
      /\ \A i \in 1..n : iv[i] = IF i \in long THEN k ELSE 0
  BY DEF Lengths
<1>1. IsFiniteSet(1..n) /\ Cardinality(1..n) = n
  BY FS_Interval
<1>2. PICK short : short = (1..n) \ long
  OBVIOUS
<1>3. Cardinality(short) = n - Cardinality(long)
  <2>1. (1..n) \cap long = long
    BY <1>0
  <2>2. Cardinality((1..n) \ long) = Cardinality(1..n) - Cardinality((1..n) \cap long)
    BY <1>1, FS_Difference
  <2> QED BY <1>1, <1>2, <2>1, <2>2
<1>4. ASSUME NEW h \in Nat, h < n - Cardinality(long) PROVE Ranked(iv, h) = 0
  <2>1. IsFiniteSet(short) /\ Cardinality(short) \in Nat
    <3>1. short \in SUBSET (1..n)
      BY <1>2
    <3> QED BY <1>1, <3>1, FS_Subset, FS_CardinalityType
  <2>2. short # {}
    <3>1. Cardinality(short) # 0
      BY <1>3, <1>4
    <3> QED BY <3>1, FS_EmptySet
  <2>3. PICK j : j \in short
    BY <2>2
  <2>4. j \in DOMAIN iv /\ iv[j] = 0
    BY <1>0, <1>2, <2>3
  <2>5. {} = {i \in DOMAIN iv : iv[i] < iv[j]}
    BY <1>0, <2>4
  <2>6. short = {i \in DOMAIN iv : iv[i] <= iv[j]}
    BY <1>0, <1>2, <2>4
  <2>7. Cardinality({}) <= h /\ Cardinality(short) > h
    <3>1. Cardinality({}) = 0
      BY FS_EmptySet
    <3>2. Cardinality(short) > h
      BY <1>3, <1>4, <2>1
    <3> QED BY <3>1, <3>2
  <2> QED BY <2>4, <2>5, <2>6, <2>7, RankedBy
<1>5. ASSUME NEW p \in long PROVE Ranked(iv, n - 1) = k
  <2>1. p \in DOMAIN iv /\ iv[p] = k
    BY <1>0
  <2>2. 1..n = {i \in DOMAIN iv : iv[i] <= iv[p]}
    BY <1>0, <2>1
  <2>3. PICK below : below = {i \in DOMAIN iv : iv[i] < iv[p]}
    OBVIOUS
  <2>4. below \in SUBSET ((1..n) \ {p})
    BY <1>0, <2>1, <2>3
  <2>5. IsFiniteSet((1..n) \ {p}) /\ Cardinality((1..n) \ {p}) = n - 1
    <3>1. p \in 1..n
      BY <1>0
    <3>2. /\ IsFiniteSet((1..n) \ {p})
          /\ Cardinality((1..n) \ {p}) = IF p \in 1..n THEN Cardinality(1..n) - 1 ELSE Cardinality(1..n)
      BY <1>1, FS_RemoveElement
    <3> QED BY <1>1, <3>1, <3>2
  <2>6. Cardinality(below) <= n - 1
    <3>1. Cardinality(below) <= Cardinality((1..n) \ {p})
      BY <2>4, <2>5, FS_Subset
    <3> QED BY <2>5, <3>1
  <2>7. Cardinality(1..n) > n - 1 /\ n - 1 \in Int
    BY <1>1
  <2> QED BY <2>1, <2>2, <2>3, <2>6, <2>7, RankedBy
<1> QED BY <1>4, <1>5

\* A sender that sends at once: every interval is a period, whatever its rank.
LEMMA SteadyRanks ==
    ASSUME NEW c \in Nat \ {0}, NEW k \in Nat, c <= k, NEW l, NEW r \in Nat, r <= c - 2
    PROVE  Ranked(Followed(l, 1, c, k).intervals, r) = Period
<1>0. Period \in Nat \ {0}
  BY SizesAssumption
<1>1. PICK iv \in Seq(Int) : /\ iv = Followed(l, 1, c, k).intervals /\ DOMAIN iv = 1..(c - 1)
                             /\ \A i \in 1..(c - 1) : iv[i] = Period
  <2>1. PICK iv : iv = Followed(l, 1, c, k).intervals
    OBVIOUS
  <2>2. /\ iv \in Seq(Int) /\ DOMAIN iv = 1..(c - 1)
        /\ \A i \in 1..(c - 1) : iv[i] = IF ((k - c) + i) % 1 = 0 THEN 1 * Period ELSE 0
    BY <2>1, FollowedIntervals
  <2>3. \A i \in 1..(c - 1) : ((k - c) + i) % 1 = 0
    OBVIOUS
  <2>4. 1 * Period = Period
    BY <1>0
  <2> QED BY <2>1, <2>2, <2>3, <2>4
<1>2. 1 \in DOMAIN iv /\ iv[1] = Period
  BY <1>1
<1>3. {} = {i \in DOMAIN iv : iv[i] < iv[1]} /\ 1..(c - 1) = {i \in DOMAIN iv : iv[i] <= iv[1]}
  BY <1>0, <1>1, <1>2
<1>4. Cardinality({}) <= r /\ Cardinality(1..(c - 1)) > r
  <2>1. Cardinality({}) = 0
    BY FS_EmptySet
  <2>2. PICK n \in Nat \ {0} : n = c - 1
    OBVIOUS
  <2>3. Cardinality(1..n) = n
    BY FS_Interval
  <2> QED BY <2>1, <2>2, <2>3
<1>5. Ranked(iv, r) = iv[1]
  BY <1>2, <1>3, <1>4, RankedBy
<1> QED BY <1>1, <1>2, <1>5

\* A sender that flushes s samples at a time: the median interval is none, the longest is the
\* time between two flushes.
LEMMA BurstRanks ==
    ASSUME NEW c \in Nat \ {0}, NEW k \in Nat, c <= k, NEW s \in Nat \ {0}, NEW l,
           s > 2, c >= 6, c > s
    PROVE  /\ Ranked(Followed(l, s, c, k).intervals, RoundedHalf(c - 2)) = 0
           /\ Ranked(Followed(l, s, c, k).intervals, c - 2) = s * Period
<1>1. PICK n \in Nat \ {0} : n = c - 1 /\ n - 1 = c - 2 /\ n >= 5 /\ n >= s
  OBVIOUS
<1>2. PICK a \in Nat : a = k - c
  OBVIOUS
<1>3. PICK m \in Nat \ {0} : m = s * Period
  BY SizesAssumption
<1>4. PICK long : long = {i \in 1..n : (a + i) % s = 0}
  OBVIOUS
<1>5. PICK iv : iv = Followed(l, s, c, k).intervals
  OBVIOUS
<1>6. /\ iv \in Seq(Int) /\ DOMAIN iv = 1..n
      /\ \A i \in 1..n : iv[i] = IF i \in long THEN m ELSE 0
  <2>1. /\ iv \in Seq(Int) /\ DOMAIN iv = 1..(c - 1)
        /\ \A i \in 1..(c - 1) : iv[i] = IF ((k - c) + i) % s = 0 THEN s * Period ELSE 0
    BY <1>5, FollowedIntervals
  <2> QED BY <1>1, <1>2, <1>3, <1>4, <2>1
<1>7. Cardinality(long) \in Nat /\ Cardinality(long) <= (n - 1) \div 3 + 1
  BY <1>4, LongAreFew
<1>8. long # {} /\ long \subseteq 1..n
  <2>1. PICK i \in 1..s : (a + i) % s = 0
    BY LongComes
  <2>2. i \in 1..n
    BY <1>1
  <2> QED BY <1>4, <2>1, <2>2
<1>9. PICK h \in Nat : h = RoundedHalf(c - 2) /\ 2 * h <= n
  <2>1. PICK q \in Nat : q = c - 2
    OBVIOUS
  <2>2. RoundedHalf(q) \in Nat /\ 2 * RoundedHalf(q) <= q + 1
    BY HalfRank
  <2>3. q + 1 = n
    BY <1>1, <2>1
  <2> QED BY <2>1, <2>2, <2>3
<1>10. h < n - Cardinality(long)
  <2>1. PICK z \in Nat : z = Cardinality(long)
    BY <1>7
  <2>2. z <= (n - 1) \div 3 + 1
    BY <1>7, <2>1
  <2>3. h < n - z
    BY <1>1, <1>9, <2>2
  <2> QED BY <2>1, <2>3
<1>11. /\ \A g \in Nat : g < n - Cardinality(long) => Ranked(iv, g) = 0
       /\ long # {} => Ranked(iv, n - 1) = m
  <2>1. Lengths(iv, n, long, m)
    BY <1>6, <1>8 DEF Lengths
  <2> QED BY <1>6, <2>1, TwoLengths
<1>12. Ranked(iv, h) = 0
  BY <1>10, <1>11
<1>13. Ranked(iv, n - 1) = m
  BY <1>8, <1>11
<1> QED BY <1>1, <1>3, <1>5, <1>9, <1>12, <1>13

-----------------------------------------------------------------------------
(* What the operator is told *)

\* The longest and the median interval of a followed entry.
LEMMA FollowedRanks ==
    ASSUME NEW c \in Nat, c >= 2, NEW k \in Nat, c <= k, NEW s \in Nat \ {0}, NEW l
    PROVE  LET e == Followed(l, s, c, k) IN
           /\ MaxInterval(e) = Ranked(e.intervals, c - 2)
           /\ MedianInterval(e) = Ranked(e.intervals, RoundedHalf(c - 2))
<1>1. PICK e : e = Followed(l, s, c, k)
  OBVIOUS
<1>2. PICK iv \in Seq(Int) : iv = e.intervals /\ Len(iv) = c - 1
  <2>1. c \in Nat \ {0}
    OBVIOUS
  <2> QED BY <1>1, <2>1, FollowedIntervals
<1>3. iv # <<>>
  BY <1>2, EmptySeq
<1>4. (c - 1) - 1 = c - 2
  OBVIOUS
<1> QED BY <1>1, <1>2, <1>3, <1>4 DEF MaxInterval, MedianInterval

\* A steady stream over a faultless link passes, and is no batch.
LEMMA SteadyPasses ==
    ASSUME NEW c \in Nat \ {0}, NEW k \in Nat, c <= k, link \in Links, ~ link.burst, ~ malformed,
           entry = Followed(link, 1, c, k)
    PROVE  ~ Batched(entry) /\ Verdict = "pass"
<1>0. /\ Period \in Nat \ {0} /\ RatePer \in Nat \ {0} /\ LossPer \in Nat \ {0}
      /\ OrderPer \in Nat \ {0} /\ MaxGapPeriods \in Nat /\ MaxGapPeriods > 2
  BY SizesAssumption, GapAssumption
<1>1. entry.count = c /\ entry.lost = 0 /\ entry.outOfOrder = 0
      /\ entry.firstT = Arrival(1, k - c + 1) /\ entry.lastT = Arrival(1, k)
  BY DEF Followed
<1>2. Arrival(1, k) = k * Period /\ Arrival(1, k - c + 1) = (k - c + 1) * Period
  <2>1. (k + 1 - 1) \div 1 = k /\ ((k - c + 1) + 1 - 1) \div 1 = k - c + 1
    OBVIOUS
  <2>2. 1 * Period = Period
    BY <1>0
  <2> QED BY <2>1, <2>2 DEF Arrival
<1>3. Duration(entry) = (c - 1) * Period
  <2>1. (k - c + 1) * Period \in Int /\ k * Period - (k - c + 1) * Period = (c - 1) * Period
    BY <1>0
  <2>2. entry.firstT # None
    BY <1>1, <1>2, <2>1, NoneAssumption
  <2> QED BY <1>1, <1>2, <2>1, <2>2 DEF Duration
<1>4. c >= 2 => MaxInterval(entry) = Period /\ MedianInterval(entry) = Period
  <2> SUFFICES ASSUME c >= 2 PROVE MaxInterval(entry) = Period /\ MedianInterval(entry) = Period
    OBVIOUS
  <2>1. PICK q \in Nat : q = c - 2
    OBVIOUS
  <2>2. RoundedHalf(q) \in Nat /\ RoundedHalf(q) <= q
    BY HalfRank
  <2>3. Ranked(entry.intervals, q) = Period
    BY <2>1, SteadyRanks
  <2>4. Ranked(entry.intervals, RoundedHalf(q)) = Period
    BY <2>1, <2>2, SteadyRanks
  <2>5. 1 \in Nat \ {0} /\ c \in Nat
    OBVIOUS
  <2>6. MaxInterval(entry) = Ranked(entry.intervals, c - 2)
        /\ MedianInterval(entry) = Ranked(entry.intervals, RoundedHalf(c - 2))
    BY <2>5, FollowedRanks
  <2> QED BY <2>1, <2>3, <2>4, <2>6
<1>5. ~ Batched(entry)
  BY <1>0, <1>1, <1>4 DEF Batched
<1>6. ASSUME NEW h \in {1, 2} PROVE ~ Reaches(entry, h)
  <2>1. ~ (entry.lost > 0)
    BY <1>1
  <2>2. ~ (h * entry.outOfOrder * OrderPer >= entry.count)
    <3>1. h * 0 * OrderPer = 0
      BY <1>0
    <3> QED BY <1>1, <3>1
  <2>3. c >= 2 => ~ (h * MaxInterval(entry) >= MaxGapPeriods * Period)
    <3>1. h * Period < MaxGapPeriods * Period
      <4>1. (MaxGapPeriods - h) * Period > 0
        BY <1>0
      <4>2. (MaxGapPeriods - h) * Period = MaxGapPeriods * Period - h * Period
        BY <1>0
      <4>3. MaxGapPeriods * Period \in Int /\ h * Period \in Int
        BY <1>0
      <4> QED BY <4>1, <4>2, <4>3
    <3>2. MaxGapPeriods * Period \in Int /\ h * Period \in Int
      BY <1>0
    <3> QED BY <1>4, <3>1, <3>2
  <2>4. c >= 2 => Duration(entry) # 0 /\ ~ (h * RatePer * (Duration(entry) - (entry.count - 1) * Period) >= Duration(entry))
    <3>1. PICK d \in Int : d = (c - 1) * Period /\ (c >= 2 => d > 0)
      BY <1>0
    <3>2. Duration(entry) - (entry.count - 1) * Period = 0
      BY <1>1, <1>3, <3>1
    <3>3. h * RatePer * 0 = 0
      BY <1>0
    <3> QED BY <1>3, <3>1, <3>2, <3>3
  <2>5. entry.count > 1 => c >= 2
    BY <1>1
  <2> QED BY <2>1, <2>2, <2>3, <2>4, <2>5 DEF Reaches
<1>7. AddressVerdict(entry) = "pass"
  BY <1>5, <1>6 DEF AddressVerdict
<1> QED BY <1>5, <1>7 DEF Verdict

\* A stream in bursts is recognised.
LEMMA BurstRecognised ==
    ASSUME NEW c \in Nat \ {0}, NEW k \in Nat, c <= k, link \in Links, link.rated,
           Burst > 2, c >= 6, c > Burst, entry = Followed(link, Burst, c, k)
    PROVE  Batched(entry) /\ (Verdict = "pass" => entry.deviceTime)
<1>0. Period \in Nat \ {0} /\ Burst \in Nat \ {0}
  BY SizesAssumption
<1>1. entry.count = c
  BY DEF Followed
<1>2. c \in Nat /\ c >= 2
  OBVIOUS
<1>3. MaxInterval(entry) = Ranked(entry.intervals, c - 2)
      /\ MedianInterval(entry) = Ranked(entry.intervals, RoundedHalf(c - 2))
  BY <1>0, <1>2, FollowedRanks
<1>4. MaxInterval(entry) = Burst * Period /\ MedianInterval(entry) = 0
  BY <1>0, <1>3, BurstRanks
<1>5. Burst * Period > 2 * Period
  <2>1. (Burst - 2) * Period > 0 /\ (Burst - 2) * Period = Burst * Period - 2 * Period
    BY <1>0
  <2>2. Burst * Period \in Int /\ 2 * Period \in Int
    BY <1>0
  <2> QED BY <2>1, <2>2
<1>6. Batched(entry)
  BY <1>0, <1>1, <1>4, <1>5 DEF Batched
<1> QED BY <1>6 DEF Verdict, AddressVerdict

LEMMA FaithfulSuffices == FaithfulInv => BatchingIsSeen
<1> SUFFICES ASSUME FaithfulInv, ~ link.faulty, link.rated, entry.count > 0
             PROVE  IF link.burst
                    THEN Burst > 2 /\ entry.count >= 6 /\ entry.count > Burst =>
                            Batched(entry) /\ (Verdict = "pass" => entry.deviceTime)
                    ELSE ~ Batched(entry) /\ Verdict = "pass"
  BY DEF BatchingIsSeen
<1>1. link \in Links /\ ~ malformed /\ OnWire
  BY DEF FaithfulInv
<1>2. entry # NewEntry
  BY DEF NewEntry
<1>3. PICK k \in Nat : k = Came
  BY <1>1 DEF OnWire
<1>4. PICK c \in Nat \ {0} : c <= k /\ entry = Followed(link, Size, c, k)
  BY <1>2, <1>3 DEF FaithfulInv, Following
<1>5. entry.count = c
  BY <1>4 DEF Followed
<1>6. CASE link.burst
  <2>1. Size = Burst
    BY <1>6 DEF Size
  <2>2. entry = Followed(link, Burst, c, k)
    BY <1>4, <2>1
  <2> QED BY <1>1, <1>4, <1>5, <1>6, <2>2, BurstRecognised
<1>7. CASE ~ link.burst
  <2>1. Size = 1
    BY <1>7 DEF Size
  <2>2. entry = Followed(link, 1, c, k)
    BY <1>4, <2>1
  <2> QED BY <1>1, <1>4, <1>7, <2>2, SteadyPasses
<1> QED BY <1>6, <1>7

\* docs/SPEC_V1.md 6.1: over a link that loses nothing, a sender that flushes more than two
\* samples at a time is recognised from its sixth message on, whatever the period, the size of
\* a flush, and where in one the take began; a sender that sends at once never is, and passes.
THEOREM BatchesRecognised == Spec => []BatchingIsSeen
  BY FaithfulInit, FaithfulStep, FaithfulSuffices, PTL DEF Spec
=============================================================================

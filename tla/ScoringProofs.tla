--------------------------- MODULE ScoringProofs ---------------------------
(***************************************************************************)
(* What run_score does in every run, whatever the descriptor answers and   *)
(* whenever the listener's thread reads it: match_take is started with one *)
(* take at a time and otherwise left alone; a detection is in one place at *)
(* a time (under way, heard, scored), and leaves the first two before its  *)
(* take is over if the descriptor is prompt; and the mapping into corpus   *)
(* time is that of the take at hand.                                       *)
(***************************************************************************)
EXTENDS Scoring, Inductions, SequenceTheorems, TLAPS

-----------------------------------------------------------------------------
(* match_take: its pairs are the nearest-first ones, for every list of references and      *)
(* detections, tolerance and settling period.  NearestFirst says nothing of the pairs still *)
(* to visit, so it is not inductive: that a pair refused now conflicts with an earlier one  *)
(* rests on every pair made being earlier than every pair left.                             *)

All == Candidates(refs, dets, takeStart)

OneToOne    == \A p, q \in pairs : Conflict(p, q) => p = q
RefusedLost == \A c \in All \ (cand \cup pairs) : \E p \in pairs : Conflict(p, c) /\ Earlier(p, c)
MadeFirst   == \A p \in pairs : \A q \in cand : Earlier(p, q)

MatchInv ==
    /\ cand \subseteq All
    /\ pairs \subseteq All
    /\ OneToOne
    /\ RefusedLost
    /\ MadeFirst

\* While a take is matched, what the order and the candidates depend on stays.
LEMMA OrderStays ==
    ASSUME UNCHANGED <<refs, dets, takeStart>>
    PROVE  /\ All' = All
           /\ \A p, q : Earlier(p, q)' <=> Earlier(p, q)
           /\ \A p, q : Conflict(p, q)' <=> Conflict(p, q)
  BY DEF All, Candidates, Settling, Earlier, Distance, Conflict

LEMMA ConflictSymmetric == \A p, q : Conflict(p, q) <=> Conflict(q, p)
  BY DEF Conflict

LEMMA InitHolds == MatchInit => MatchInv
  <1> SUFFICES ASSUME MatchInit PROVE MatchInv
    OBVIOUS
  <1>1. All = {}
    <2>1. DOMAIN refs = {}
      BY DEF MatchInit
    <2> QED BY <2>1 DEF All, Candidates
  <1> QED BY <1>1 DEF MatchInit, MatchInv, OneToOne, RefusedLost, MadeFirst

LEMMA TakeHolds ==
    ASSUME NEW rs, NEW ds, NEW a, NEW start, MatchTake(rs, ds, a, start)
    PROVE  MatchInv'
  <1>1. cand' = All' /\ pairs' = {}
    BY DEF MatchTake, All, Candidates, Settling
  <1> QED BY <1>1 DEF MatchInv, OneToOne, RefusedLost, MadeFirst

\* The step that visits the nearest pair left: it is made, or an earlier pair of those
\* made stands in its way.
LEMMA PairHolds == MatchInv /\ PairNearest => MatchInv'
  <1> SUFFICES ASSUME MatchInv, PairNearest PROVE MatchInv'
    OBVIOUS
  <1>1. PICK p \in cand : /\ \A q \in cand \ {p} : Earlier(p, q)
                          /\ cand' = cand \ {p}
                          /\ pairs' = IF Free(p) THEN pairs \cup {p} ELSE pairs
    BY DEF PairNearest
  <1>2. UNCHANGED <<refs, dets, takeStart>>
    BY DEF PairNearest
  <1>3. /\ All' = All
        /\ \A q, r : Earlier(q, r)' <=> Earlier(q, r)
        /\ \A q, r : Conflict(q, r)' <=> Conflict(q, r)
    BY <1>2, OrderStays
  <1>4. p \in All /\ cand \subseteq All /\ pairs \subseteq All
    BY <1>1 DEF MatchInv
  <1>5. CASE Free(p)
    <2>1. pairs' = pairs \cup {p}
      BY <1>1, <1>5
    <2>2. cand' \subseteq All' /\ pairs' \subseteq All'
      BY <1>1, <1>3, <1>4, <2>1
    <2>3. OneToOne'
      BY <1>3, <1>5, <2>1, ConflictSymmetric DEF MatchInv, OneToOne, Free
    <2>4. RefusedLost'
      BY <1>1, <1>3, <2>1 DEF MatchInv, RefusedLost
    <2>5. MadeFirst'
      BY <1>1, <1>3, <2>1 DEF MatchInv, MadeFirst
    <2> QED BY <2>2, <2>3, <2>4, <2>5 DEF MatchInv
  <1>6. CASE ~ Free(p)
    <2>1. pairs' = pairs
      BY <1>1, <1>6
    <2>2. cand' \subseteq All' /\ pairs' \subseteq All'
      BY <1>1, <1>3, <1>4, <2>1
    <2>3. OneToOne'
      BY <1>3, <2>1 DEF MatchInv, OneToOne
    <2>4. PICK q \in pairs : Conflict(p, q)
      BY <1>6 DEF Free
    <2>5. Conflict(q, p) /\ Earlier(q, p)
      BY <1>1, <2>4, ConflictSymmetric DEF MatchInv, MadeFirst
    <2>6. RefusedLost'
      BY <1>1, <1>3, <2>1, <2>4, <2>5 DEF MatchInv, RefusedLost
    <2>7. MadeFirst'
      BY <1>1, <1>3, <2>1 DEF MatchInv, MadeFirst
    <2> QED BY <2>2, <2>3, <2>6, <2>7 DEF MatchInv
  <1> QED BY <1>5, <1>6

LEMMA SameStays ==
    ASSUME MatchInv, UNCHANGED <<refs, dets, takeStart, cand, pairs>>
    PROVE  MatchInv'
  <1>1. /\ All' = All
        /\ \A q, r : Earlier(q, r)' <=> Earlier(q, r)
        /\ \A q, r : Conflict(q, r)' <=> Conflict(q, r)
    BY OrderStays
  <1> QED BY <1>1 DEF MatchInv, OneToOne, RefusedLost, MadeFirst

LEMMA StepHolds == MatchInv /\ [MatchNext]_matchVars => MatchInv'
  <1> SUFFICES ASSUME MatchInv, [MatchNext]_matchVars PROVE MatchInv'
    OBVIOUS
  <1>1. CASE \E rs, ds \in Seq(Int), a \in BOOLEAN, start \in Int \cup {None} :
                 MatchTake(rs, ds, a, start)
    BY <1>1, TakeHolds
  <1>2. CASE PairNearest
    BY <1>2, PairHolds
  <1>3. CASE CountOutcomes
    BY <1>3, SameStays DEF CountOutcomes
  <1>4. CASE UNCHANGED matchVars
    BY <1>4, SameStays DEF matchVars
  <1> QED BY <1>1, <1>2, <1>3, <1>4 DEF MatchNext, Matches

\* docs/EVALUATION.md 2.1, metrics.match_take: the pairs are one to one, and a pair within
\* tolerance is refused only for an earlier one that uses its reference or its detection.
THEOREM PairsAreNearestFirst == MatchSpec => []NearestFirst
  <1>1. MatchInv => NearestFirst
    BY DEF MatchInv, NearestFirst, OneToOne, RefusedLost, All
  <1> QED BY InitHolds, StepHolds, <1>1, PTL DEF MatchSpec

\* The same of any specification whose steps, seen by match_take, are its own: in
\* particular of the runs of run_score, which only calls it.
THEOREM StepsKeepPairs == MatchInv /\ (\/ \E rs, ds, a, start : MatchTake(rs, ds, a, start)
                                       \/ Matches \/ UNCHANGED matchVars) => MatchInv'
  <1>1. ASSUME MatchInv, \E rs, ds, a, start : MatchTake(rs, ds, a, start) PROVE MatchInv'
    BY <1>1, TakeHolds
  <1>2. ASSUME MatchInv, Matches PROVE MatchInv'
    BY <1>2, PairHolds, SameStays DEF Matches, CountOutcomes
  <1>3. ASSUME MatchInv, UNCHANGED matchVars PROVE MatchInv'
    BY <1>3, SameStays DEF matchVars
  <1> QED BY <1>1, <1>2, <1>3

-----------------------------------------------------------------------------
(* run_score and match_take *)

\* Seen by match_take, a step of a run is one of its own or none.
LEMMA RunsCallMatching ==
    ASSUME Next
    PROVE  \/ \E rs, ds, a, start : MatchTake(rs, ds, a, start)
           \/ Matches
           \/ UNCHANGED matchVars
  <1>1. CASE Collect
    BY <1>1 DEF Collect
  <1>2. CASE Match
    BY <1>2 DEF Match
  <1>3. CASE Check \/ Listen \/ Calibrate \/ SkipTake \/ Clear \/ BeginPlay \/ EndPlay
    BY <1>3 DEF Check, Listen, Calibrate, SkipTake, Clear, BeginPlay, EndPlay
  <1>4. CASE SendRecord
    BY <1>4 DEF SendRecord
  <1>5. CASE Merge \/ LastTake \/ Close \/ LogHoldout
    BY <1>5 DEF Merge, LastTake, Close, LogHoldout
  <1>6. CASE Fail \/ Hear \/ Raise \/ Tick
    BY <1>6 DEF Fail, Hear, Raise, Tick
  <1> QED BY <1>1, <1>2, <1>3, <1>4, <1>5, <1>6 DEF Next, Run

\* So every step of a run keeps what match_take's steps keep.
LEMMA MatchInvStep == MatchInv /\ [Next]_vars => MatchInv'
<1>1. MatchInv /\ Next => MatchInv'
  BY RunsCallMatching, StepsKeepPairs
<1>2. MatchInv /\ UNCHANGED vars => MatchInv'
  BY StepsKeepPairs DEF vars
<1> QED BY <1>1, <1>2

\* scoring.py:305: whatever the descriptor answers and whenever its answers are read, the
\* pairs of every take scored are one to one and nearest first.
THEOREM RunsPairNearestFirst == Spec => []NearestFirst
<1>1. Init => MatchInv
  BY InitHolds DEF Init
<1>2. MatchInv => NearestFirst
  BY DEF MatchInv, NearestFirst, OneToOne, RefusedLost, All
<1> QED BY <1>1, <1>2, MatchInvStep, PTL DEF Spec


-----------------------------------------------------------------------------
(* Types *)

\* run_score is at a take.
InTake == spc \in {"begin", "play", "drain", "match"}

\* Its messages are being sent, or have been.
Replaying == spc \in {"play", "drain", "match"}

\* Of one take, the references, the detections and its counts, and what the run adds up.
MatchTypes ==
    /\ refs \in Seq(Int) /\ dets \in Seq(Int)
    /\ counts \in [DOMAIN NoCounts -> Nat] /\ overall \in [DOMAIN NoCounts -> Nat]
    /\ mpc \in {"idle", "pair", "counted"}

\* Of the run and of the detections under way.
RunTypes ==
    /\ takes \in Corpora /\ k \in 1..(Len(takes) + 1) /\ (InTake => k <= Len(takes))
    /\ thread \in {"none", "runs", "raised", "stopped"} /\ (flight # <<>> => thread = "runs")
    /\ spc \in {"check", "listen"} => thread = "none"
    /\ spc \in {"calibrate", "take", "begin", "play", "drain", "match", "close"} => thread \in {"runs", "raised"}
    /\ spc \in {"check", "listen", "calibrate", "take", "begin", "play", "drain", "match", "close", "log",
               "done", "refused", "failed"}
    /\ now \in Nat /\ until \in Nat /\ sent \in Nat /\ slow \in BOOLEAN
    /\ consultations \in 0..1 /\ (consultations = 1 => spc = "done")
    /\ origin \in Int \cup {None} /\ wallOrigin \in Nat \cup {None} /\ transport \in {None, Lag}
    /\ flight \in Seq([cause : Detection, at : Nat])
    /\ detections \in Seq([cause : Detection, t : Nat])
    /\ scored \in Seq([cause : Detection, take : Nat, t : Int])
    /\ caused \subseteq Detection

\* The clock of the take at hand, and how far its replay is.
TakeClock ==
    Replaying =>
        /\ wallOrigin \in Nat /\ sent <= Len(Take.records)
        /\ sent = 0 => origin = None
        /\ sent > 0 => origin = Take.records[1].t

-----------------------------------------------------------------------------
(* Attribution *)

Causes(f) == {f[i].cause : i \in DOMAIN f}
Once(f)   == \A i, j \in DOMAIN f : f[i].cause = f[j].cause => i = j

\* A detection caused is in one place at most, and its take and message have begun.
IdentityInv ==
    /\ Once(flight) /\ Once(detections) /\ Once(scored)
    /\ Causes(flight) \cap Causes(detections) = {}
    /\ (Causes(flight) \cup Causes(detections)) \cap Causes(scored) = {}
    /\ Causes(flight) \cup Causes(detections) \cup Causes(scored) \subseteq caused
    /\ \A c \in caused :
          /\ c.record >= 1
          /\ \/ c.take < k
             \/ /\ c.take = k /\ c.record <= sent
                /\ spc \notin {"check", "listen", "calibrate", "take", "begin", "refused"}

\* When the answers under way were caused, and how long they may still be.
FlightInv ==
    /\ \A i, j \in DOMAIN flight : i < j => flight[i].at <= flight[j].at
    /\ \A i \in DOMAIN flight : flight[i].at <= now /\ now <= flight[i].at + MaxLag
    /\ \A i \in DOMAIN detections : detections[i].t <= now

\* A prompt descriptor's answers stay within their take: they have all been read when the
\* drain is over.
PromptInv ==
    ~ slow =>
    /\ \A i \in DOMAIN flight : flight[i].cause.take = k
    /\ \A i \in DOMAIN detections : detections[i].cause.take = k
    /\ spc \in {"check", "listen", "calibrate", "take", "begin", "match"} => flight = <<>> /\ detections = <<>>
    /\ spc = "drain" => \A i \in DOMAIN flight : flight[i].at + Drain <= until
    /\ \A i \in DOMAIN scored : scored[i].cause.take = scored[i].take
    /\ \A c \in caused : c.class = Class =>
          \/ thread = "raised"
          \/ c \in Causes(scored)
          \/ c.take = k /\ (c \in Causes(flight) \cup Causes(detections)
                            \/ spc \in {"close", "log", "done", "failed"})

-----------------------------------------------------------------------------
(* Corpus time *)

\* When the r-th message of the take at hand is due, on the wall clock.
DueAt(r) == wallOrigin + (Take.records[r].t - Take.records[1].t)

\* If messages up to c's were in order, c came at the time c's was due, or within `late` of it.
Timely(c, at, late) ==
    c.take = k /\ InOrder(Take, c.record) => DueAt(c.record) <= at /\ at <= DueAt(c.record) + late

\* Messages in order are sent when they are due or a little later, and heard of a little later.
HonestInv ==
    /\ Replaying =>
          /\ wallOrigin <= now
          /\ spc = "play" /\ Len(Take.records) > 0 =>
                \E j \in 1..Len(Take.records) : j <= sent + 1 /\ now <= DueAt(j) + MaxLate
          /\ \A i \in DOMAIN flight : Timely(flight[i].cause, flight[i].at, MaxLate)
          /\ \A i \in DOMAIN detections : Timely(detections[i].cause, detections[i].t, MaxLate + MaxLag)
    /\ CorpusTimeIsHonest

-----------------------------------------------------------------------------
(* What the three steps that touch the lists of detections do to them. *)

Flying == [cause : Detection, at : Nat]
Heard  == [cause : Detection, t : Nat]
Attributed == [cause : Detection, take : Nat, t : Int]

LEMMA TakeTyped ==
    ASSUME RunTypes, InTake
    PROVE  /\ takes \in Corpora /\ k \in DOMAIN takes /\ k \in Nat
           /\ Take.records \in Seq([t : Int, gesture : BOOLEAN]) /\ Len(Take.records) \in Nat
           /\ \A r \in 1..Len(Take.records) : Take.records[r].t \in Int
           /\ Take.labels \in Seq(Range(Take.labels))
           /\ \A i \in DOMAIN Take.labels : Take.labels[i].t \in Int
<1>1. takes \in Corpora /\ takes \in Seq(Range(takes))
  BY ScoringAssumption DEF RunTypes
<1>2. Len(takes) \in Nat /\ DOMAIN takes = 1..Len(takes)
  BY <1>1, LenProperties
<1>3. k \in DOMAIN takes /\ k \in Nat
  BY <1>2 DEF RunTypes
<1>4. /\ Take.records \in Seq([t : Int, gesture : BOOLEAN])
      /\ Take.labels \in Seq(Range(Take.labels))
      /\ \A i \in DOMAIN Take.labels : Take.labels[i].t \in Int
  BY <1>1, <1>3, ScoringAssumption DEF Take
<1>5. Len(Take.records) \in Nat
  BY <1>4, LenProperties
<1>6. ASSUME NEW r \in 1..Len(Take.records) PROVE Take.records[r].t \in Int
  <2>1. Take.records[r] \in [t : Int, gesture : BOOLEAN]
    BY <1>4, ElementOfSeq
  <2> QED BY <2>1
<1> QED BY <1>1, <1>3, <1>4, <1>5, <1>6

LEMMA ReferencesTyped ==
    ASSUME RunTypes, InTake
    PROVE  References(Take) \in Seq(Int)
<1>1. PICK labels : labels = Take.labels
  OBVIOUS
<1>2. labels \in Seq(Range(labels)) /\ \A i \in DOMAIN labels : labels[i].t \in Int
  BY <1>1, TakeTyped
<1>3. Len(labels) \in Nat /\ DOMAIN labels = 1..Len(labels)
  BY <1>2, LenProperties
<1>4. PICK S : S = {i \in Labels(Take, Source) : Take.labels[i].class = Class}
  OBVIOUS
<1>5. S \subseteq 1..Len(labels)
  BY <1>1, <1>3, <1>4 DEF Labels
<1>6. PICK n \in Nat : Ascending(S) \in [1..n -> S] /\ DOMAIN Ascending(S) = 1..n
  BY <1>3, <1>5, AscendingLists
<1>7. References(Take) = [i \in 1..n |-> labels[Ascending(S)[i]].t]
  BY <1>1, <1>4, <1>6 DEF References
<1>8. ASSUME NEW i \in 1..n PROVE labels[Ascending(S)[i]].t \in Int
  <2>1. Ascending(S)[i] \in DOMAIN labels
    BY <1>3, <1>5, <1>6
  <2> QED BY <1>2, <2>1
<1>9. [i \in 1..n |-> labels[Ascending(S)[i]].t] \in Seq(Int)
  BY <1>8, SeqDef
<1> QED BY <1>7, <1>9

\* SendRecord puts answers at the end of the flight, each a detection not caused before.
LEMMA Sends ==
    ASSUME RunTypes, SendRecord
    PROVE  \E f \in Seq(Flying), g \in Seq(Flying) :
              /\ flight' = flight \o f /\ caused' = caused \cup Causes(g)
              /\ f = IF thread = "runs" THEN g ELSE <<>>
              /\ \A i \in DOMAIN f : /\ f[i].at = now /\ f[i].cause.take = k
                                     /\ f[i].cause.record = sent + 1 /\ f[i].cause.n = i
              /\ \A i \in DOMAIN g : /\ g[i].at = now /\ g[i].cause.take = k
                                     /\ g[i].cause.record = sent + 1 /\ g[i].cause.n = i
<1>1. PICK answer \in {<<>>, <<Class>>, <<Class, Class>>, <<"other">>} :
         LET new == [i \in DOMAIN answer |-> [take |-> k, record |-> sent + 1, n |-> i, class |-> answer[i]]] IN
          /\ flight' = IF thread = "runs" THEN flight \o [i \in DOMAIN new |-> [cause |-> new[i], at |-> now]]
                       ELSE flight
          /\ caused' = caused \cup Range(new)
  BY DEF SendRecord
<1>2. PICK n \in 0..2 : DOMAIN answer = 1..n /\ \A i \in 1..n : answer[i] \in {Class, "other"}
  <2>1. CASE answer = <<>>
    <3>1. DOMAIN answer = 1..0
      BY <2>1
    <3> QED BY <3>1
  <2>2. CASE answer = <<Class>>
    <3>1. DOMAIN answer = 1..1 /\ answer[1] = Class
      BY <2>2
    <3> QED BY <3>1
  <2>3. CASE answer = <<Class, Class>>
    <3>1. DOMAIN answer = 1..2 /\ answer[1] = Class /\ answer[2] = Class
      BY <2>3
    <3>2. \A i \in 1..2 : i = 1 \/ i = 2
      OBVIOUS
    <3> QED BY <3>1, <3>2
  <2>4. CASE answer = <<"other">>
    <3>1. DOMAIN answer = 1..1 /\ answer[1] = "other"
      BY <2>4
    <3> QED BY <3>1
  <2> QED BY <2>1, <2>2, <2>3, <2>4
<1>3. PICK new : new = [i \in 1..n |-> [take |-> k, record |-> sent + 1, n |-> i, class |-> answer[i]]]
  OBVIOUS
<1>4. PICK g : g = [i \in 1..n |-> [cause |-> new[i], at |-> now]]
  OBVIOUS
<1>5. DOMAIN new = 1..n /\ DOMAIN g = 1..n
  BY <1>3, <1>4
<1>6. /\ flight' = IF thread = "runs" THEN flight \o g ELSE flight
      /\ caused' = caused \cup Range(new)
  BY <1>1, <1>2, <1>3, <1>4, <1>5
<1>7. k \in Nat /\ sent + 1 \in Nat /\ now \in Nat
  <2>1. takes \in Seq(Range(takes))
    BY ScoringAssumption DEF RunTypes
  <2>2. Len(takes) \in Nat
    BY <2>1, LenProperties
  <2> QED BY <2>2 DEF RunTypes
<1>8. ASSUME NEW i \in 1..n
      PROVE  /\ new[i] \in Detection /\ new[i].take = k /\ new[i].record = sent + 1 /\ new[i].n = i
             /\ g[i].cause = new[i] /\ g[i].at = now
  <2>1. i \in 1..2
    OBVIOUS
  <2> QED BY <1>2, <1>3, <1>4, <1>7, <2>1 DEF Detection
<1>9. g \in Seq(Flying)
  <2>1. \A i \in 1..n : g[i] \in Flying
    BY <1>4, <1>7, <1>8 DEF Flying
  <2>2. g \in [1..n -> Flying] /\ n \in Nat
    BY <1>4, <2>1
  <2> QED BY <2>2, SeqDef
<1>10. Causes(g) = Range(new)
  BY <1>5, <1>8 DEF Causes, Range
<1>11. flight \in Seq(Flying) /\ <<>> \in Seq(Flying) /\ DOMAIN <<>> = {}
  BY DEF RunTypes, Flying
<1>12. flight \o <<>> = flight
  BY <1>11, ConcatEmptySeq
<1>13. PICK f \in Seq(Flying) : f = IF thread = "runs" THEN g ELSE <<>>
  BY <1>9, <1>11
<1>14. flight' = flight \o f /\ caused' = caused \cup Causes(g)
  BY <1>6, <1>10, <1>12, <1>13
<1>15. \A i \in DOMAIN g : /\ g[i].at = now /\ g[i].cause.take = k
                          /\ g[i].cause.record = sent + 1 /\ g[i].cause.n = i
  BY <1>5, <1>8
<1>16. \A i \in DOMAIN f : /\ f[i].at = now /\ f[i].cause.take = k
                          /\ f[i].cause.record = sent + 1 /\ f[i].cause.n = i
  BY <1>11, <1>13, <1>15
<1> QED BY <1>9, <1>13, <1>14, <1>15, <1>16

Increasing(a, n) == \A i, j \in 1..n : i < j => a[i] < a[j]

\* Collect scores the n detections heard that are of the class, a lists where, as g.
Collected(n, a, g) ==
    /\ scored' = scored \o g /\ DOMAIN g = 1..n
    /\ dets' \in Seq(Int) /\ dets' = [i \in 1..n |-> g[i].t]
    /\ \A i, j \in 1..n : a[i] = a[j] => i = j
    /\ Increasing(a, n)
    /\ \A i \in DOMAIN detections : detections[i].cause.class = Class =>
          \E j \in 1..n : a[j] = i
    /\ \A i \in 1..n : /\ g[i].cause = detections[a[i]].cause /\ g[i].take = k
                       /\ g[i].cause.class = Class
                       /\ g[i].t = ToCorpusTime(detections[a[i]].t)

\* Collect scores each detection heard that is of the class, once.
LEMMA Collects ==
    ASSUME RunTypes, Collect
    PROVE  \E n \in Nat : \E a \in [1..n -> DOMAIN detections], g \in Seq(Attributed) : Collected(n, a, g)
<1>1. detections \in Seq(Heard) /\ Len(detections) \in Nat /\ DOMAIN detections = 1..Len(detections)
  BY LenProperties DEF RunTypes, Heard
<1>2. PICK S : S = {i \in DOMAIN detections : detections[i].cause.class = Class}
  OBVIOUS
<1>3. S \subseteq 1..Len(detections)
  BY <1>1, <1>2
<1>4. PICK n \in Nat :
              /\ Ascending(S) \in [1..n -> S] /\ DOMAIN Ascending(S) = 1..n
              /\ \A i, j \in 1..n : i < j => Ascending(S)[i] < Ascending(S)[j]
              /\ \A i, j \in 1..n : Ascending(S)[i] = Ascending(S)[j] => i = j
              /\ \A x \in S : \E i \in 1..n : Ascending(S)[i] = x
  BY <1>1, <1>3, AscendingLists
<1>5. PICK a : a = Ascending(S)
  OBVIOUS
<1>6. a \in [1..n -> DOMAIN detections] /\ DOMAIN a = 1..n
  BY <1>1, <1>3, <1>4, <1>5
<1>7. PICK times : times = [i \in 1..n |-> ToCorpusTime(detections[a[i]].t)]
  OBVIOUS
<1>8. PICK g : g = [i \in 1..n |-> [cause |-> detections[a[i]].cause, take |-> k, t |-> times[i]]]
  OBVIOUS
<1>9. scored' = scored \o g /\ dets' = times
  <2>1. LET ours == a
            corpusTimes == [i \in DOMAIN ours |-> ToCorpusTime(detections[ours[i]].t)]
        IN /\ MatchTake(References(Take), corpusTimes, Take.ambient, origin)
           /\ scored' = scored \o [i \in DOMAIN ours |->
                                     [cause |-> detections[ours[i]].cause, take |-> k, t |-> corpusTimes[i]]]
    BY <1>2, <1>5 DEF Collect
  <2> QED BY <1>6, <1>7, <1>8, <2>1 DEF MatchTake
<1>10. ASSUME NEW i \in 1..n
       PROVE  /\ detections[a[i]] \in Heard
              /\ times[i] = ToCorpusTime(detections[a[i]].t) /\ times[i] \in Int
  <2>1. a[i] \in 1..Len(detections)
    BY <1>1, <1>6
  <2>2. detections[a[i]] \in Heard
    BY <1>1, <2>1, ElementOfSeq
  <2>3. detections[a[i]].t \in Int
    BY <2>2 DEF Heard
  <2>4. ToCorpusTime(detections[a[i]].t) \in Int
    <3>1. (origin = None \/ origin \in Int) /\ (wallOrigin = None \/ wallOrigin \in Int)
      BY DEF RunTypes
    <3>2. PICK t \in Int : t = detections[a[i]].t
      BY <2>3
    <3>3. ToCorpusTime(t) \in Int
      BY <3>1, <3>2 DEF ToCorpusTime
    <3> QED BY <3>2, <3>3 DEF ToCorpusTime
  <2> QED BY <1>7, <2>2, <2>4
<1>11. k \in Nat
  BY TakeTyped DEF InTake, Collect
<1>12. g \in Seq(Attributed)
  <2>1. \A i \in 1..n : g[i] \in Attributed
    BY <1>8, <1>10, <1>11 DEF Attributed, Heard
  <2>2. g \in [1..n -> Attributed]
    BY <1>8, <2>1
  <2> QED BY <2>2, SeqDef
<1>13. times \in Seq(Int) /\ times = [i \in 1..n |-> g[i].t] /\ DOMAIN g = 1..n
  BY <1>7, <1>8, <1>10, SeqDef
<1>14. \A i \in 1..n : /\ g[i].cause = detections[a[i]].cause /\ g[i].take = k
                       /\ g[i].cause.class = Class
                       /\ g[i].t = ToCorpusTime(detections[a[i]].t)
  <2>1. \A i \in 1..n : a[i] \in S
    BY <1>4, <1>5
  <2> QED BY <1>2, <1>8, <1>10, <2>1
<1>15. /\ \A i, j \in 1..n : a[i] = a[j] => i = j
       /\ Increasing(a, n)
       /\ \A i \in DOMAIN detections : detections[i].cause.class = Class => \E j \in 1..n : a[j] = i
  BY <1>2, <1>4, <1>5 DEF Increasing
<1>16. Collected(n, a, g)
  BY <1>9, <1>13, <1>14, <1>15 DEF Collected
<1> QED BY <1>6, <1>12, <1>16

-----------------------------------------------------------------------------
(* Every step keeps the types. *)

LEMMA ScoringInitTypes == Init => MatchTypes /\ RunTypes
<1> SUFFICES ASSUME Init PROVE MatchTypes /\ RunTypes
  OBVIOUS
<1>1. <<>> \in Seq(Int) /\ NoCounts \in [DOMAIN NoCounts -> Nat]
  BY DEF NoCounts
<1>2. MatchTypes
  BY <1>1 DEF Init, MatchInit, MatchTypes
<1>3. Len(takes) \in Nat
  <2>1. takes \in Seq(Range(takes))
    BY ScoringAssumption DEF Init
  <2> QED BY <2>1, LenProperties
<1>4. 1 \in 1..(Len(takes) + 1) /\ 0 \in 0..1
  BY <1>3
<1>5. \A S : <<>> \in Seq(S)
  OBVIOUS
<1> QED BY <1>2, <1>4, <1>5 DEF Init, RunTypes, InTake

LEMMA RunTypesStep == RunTypes /\ [Next]_vars => RunTypes'
<1> SUFFICES ASSUME RunTypes, [Next]_vars PROVE RunTypes'
  OBVIOUS
<1>n. Len(takes) \in Nat /\ k \in Nat
  <2>1. takes \in Seq(Range(takes))
    BY ScoringAssumption DEF RunTypes
  <2>2. Len(takes) \in Nat
    BY <2>1, LenProperties
  <2> QED BY <2>2 DEF RunTypes
<1>1. CASE Check
  BY <1>1 DEF Check, Goto, inputs, RunTypes, InTake
<1>l. CASE Listen
  BY <1>l DEF Listen, inputs, RunTypes, InTake
<1>2. CASE Calibrate
  BY <1>2 DEF Calibrate, Goto, inputs, RunTypes, InTake
<1>3. CASE SkipTake
  <2>1. k' = k + 1 /\ k <= Len(takes) /\ spc = "take"
    BY <1>3 DEF SkipTake
  <2>2. k' \in 1..(Len(takes) + 1)
    BY <1>n, <2>1 DEF RunTypes
  <2> QED BY <1>3, <2>2 DEF SkipTake, inputs, RunTypes, InTake
<1>4. CASE Clear
  <2>1. \A S : <<>> \in Seq(S)
    OBVIOUS
  <2> QED BY <1>4, <2>1 DEF Clear, Goto, inputs, RunTypes, InTake
<1>5. CASE BeginPlay
  BY <1>5 DEF BeginPlay, Goto, inputs, RunTypes, InTake
<1>6. CASE SendRecord
  <2>1. spc = "play" /\ InTake /\ sent < Len(Take.records)
    BY <1>6 DEF SendRecord, InTake
  <2>2. Upcoming.t \in Int
    <3>1. sent + 1 \in 1..Len(Take.records)
      BY <2>1, TakeTyped DEF RunTypes
    <3> QED BY <2>1, <3>1, TakeTyped DEF Upcoming
  <2>3. sent' \in Nat /\ origin' \in Int \cup {None}
    BY <1>6, <2>2 DEF SendRecord, RunTypes
  <2>4. PICK f \in Seq(Flying), g \in Seq(Flying) :
              /\ flight' = flight \o f /\ caused' = caused \cup Causes(g)
              /\ f = IF thread = "runs" THEN g ELSE <<>>
    BY <1>6, Sends
  <2>5. flight' \in Seq(Flying) /\ (flight' # <<>> => thread = "runs")
    <3>1. flight \in Seq(Flying) /\ <<>> \o <<>> = <<>>
      BY DEF RunTypes, Flying
    <3>2. CASE thread = "runs"
      BY <2>4, <3>1, <3>2, ConcatProperties
    <3>3. CASE thread # "runs"
      BY <2>4, <3>1, <3>3, ConcatProperties DEF RunTypes
    <3> QED BY <3>2, <3>3
  <2>6. caused' \subseteq Detection
    <3>1. \A i \in DOMAIN g : g[i] \in Flying
      BY <2>4, LenProperties, ElementOfSeq
    <3>2. Causes(g) \subseteq Detection
      BY <3>1 DEF Causes, Flying
    <3> QED BY <2>4, <3>2 DEF RunTypes
  <2>7. UNCHANGED <<takes, slow, thread, k, spc, now, until, consultations, wallOrigin, transport, detections, scored>>
    BY <1>6 DEF SendRecord, inputs
  <2> QED BY <2>1, <2>3, <2>5, <2>6, <2>7 DEF RunTypes, InTake, Flying
<1>7. CASE EndPlay
  <2>1. until' \in Nat
    BY <1>7, ScoringAssumption DEF EndPlay, DrainEnds, RunTypes
  <2> QED BY <1>7, <2>1 DEF EndPlay, Goto, inputs, RunTypes, InTake
<1>8. CASE Collect
  <2>1. PICK g \in Seq(Attributed) : scored' = scored \o g
    BY <1>8, Collects DEF Collected
  <2>2. scored' \in Seq(Attributed)
    BY <2>1, ConcatProperties DEF RunTypes, Attributed
  <2>3. \A S : <<>> \in Seq(S)
    OBVIOUS
  <2>4. /\ UNCHANGED <<takes, slow, thread, k, now, until, consultations, origin, wallOrigin, transport, sent,
                       flight, caused>>
        /\ detections' = <<>> /\ spc = "drain" /\ spc' = "match"
    BY <1>8 DEF Collect, inputs, Goto
  <2> QED BY <2>2, <2>3, <2>4 DEF RunTypes, InTake, Attributed
<1>9. CASE Match
  BY <1>9 DEF Match, inputs, runVars, RunTypes, InTake
<1>10. CASE Merge
  <2>1. k' = k + 1 /\ k <= Len(takes)
    BY <1>10 DEF Merge, RunTypes, InTake
  <2>2. k' \in 1..(Len(takes) + 1)
    BY <1>n, <2>1 DEF RunTypes
  <2> QED BY <1>10, <2>2 DEF Merge, Goto, inputs, RunTypes, InTake
<1>11. CASE LastTake
  BY <1>11 DEF LastTake, Goto, inputs, RunTypes, InTake
<1>12. CASE Close
  <2>1. \A S : <<>> \in Seq(S)
    OBVIOUS
  <2> QED BY <1>12, <2>1 DEF Close, Goto, inputs, RunTypes, InTake
<1>13. CASE LogHoldout
  <2>1. consultations = 0 /\ consultations' = 1 /\ spc' = "done"
    BY <1>13 DEF LogHoldout, Goto, RunTypes
  <2> QED BY <1>13, <2>1 DEF LogHoldout, inputs, RunTypes, InTake
<1>14. CASE Fail
  BY <1>14 DEF Fail, Goto, inputs, RunTypes, InTake
<1>15. CASE Hear
  <2>1. /\ flight # <<>> /\ flight' = Tail(flight)
        /\ detections' = Append(detections, [cause |-> Head(flight).cause, t |-> now])
    BY <1>15 DEF Hear
  <2>2. Head(flight) \in Flying /\ Tail(flight) \in Seq(Flying)
    BY <2>1, HeadTailProperties DEF RunTypes, Flying
  <2>3. [cause |-> Head(flight).cause, t |-> now] \in Heard
    BY <2>2 DEF Flying, Heard, RunTypes
  <2>4. detections' \in Seq(Heard)
    BY <2>1, <2>3, AppendProperties DEF RunTypes, Heard
  <2> QED BY <1>15, <2>1, <2>2, <2>4 DEF Hear, inputs, runVars, RunTypes, InTake, Flying, Heard
<1>16. CASE Tick
  <2>1. now' \in Nat
    BY <1>16 DEF Tick, RunTypes
  <2> QED BY <1>16, <2>1 DEF Tick, inputs, runVars, RunTypes, InTake
<1>17. CASE Raise
  <2>1. <<>> \in Seq([cause : Detection, at : Nat])
    OBVIOUS
  <2>2. spc \notin {"check", "listen"} /\ thread' = "raised" /\ flight' = <<>>
    BY <1>17 DEF Raise, RunTypes
  <2> QED BY <1>17, <2>1, <2>2 DEF Raise, inputs, runVars, RunTypes, InTake
<1>18. CASE UNCHANGED vars
  BY <1>18 DEF vars, inputs, runVars, RunTypes, InTake
<1> QED BY <1>l, <1>1, <1>2, <1>3, <1>4, <1>5, <1>6, <1>7, <1>8, <1>9, <1>10, <1>11, <1>12, <1>13, <1>14,
           <1>15, <1>16, <1>17, <1>18 DEF Next, Run

\* The outcomes match_take counts are finitely many.
LEMMA CountsAreNumbers ==
    ASSUME MatchTypes, MatchInv, CountOutcomes
    PROVE  counts' \in [DOMAIN NoCounts -> Nat]
<1>1. /\ IsFiniteSet(DOMAIN refs) /\ Len(refs) \in Nat
      /\ IsFiniteSet(DOMAIN dets)
  <2>1. Len(refs) \in Nat /\ DOMAIN refs = 1..Len(refs) /\ Len(dets) \in Nat /\ DOMAIN dets = 1..Len(dets)
    BY LenProperties DEF MatchTypes
  <2> QED BY <2>1, FS_Interval
<1>2. UsedRefs \subseteq DOMAIN refs
  BY DEF UsedRefs, MatchInv, All, Candidates
<1>3. /\ Usable \subseteq DOMAIN dets /\ FalsePositives \subseteq DOMAIN dets
      /\ DoubleFires \subseteq DOMAIN dets /\ Settling(dets, takeStart) \subseteq DOMAIN dets
  BY DEF Usable, FalsePositives, DoubleFires, Settling
<1>4. /\ Cardinality(UsedRefs) \in Nat /\ Cardinality(Usable) \in Nat
      /\ Cardinality(FalsePositives) \in Nat /\ Cardinality(DoubleFires) \in Nat
      /\ Cardinality(Settling(dets, takeStart)) \in Nat
  BY <1>1, <1>2, <1>3, FS_Subset, FS_CardinalityType
<1>5. counts' = [references            |-> Len(refs),
                  matched               |-> Cardinality(UsedRefs),
                  detections            |-> Cardinality(Usable),
                  falsePositives        |-> Cardinality(FalsePositives),
                  ambientFalsePositives |-> IF ambient THEN Cardinality(FalsePositives) ELSE 0,
                  doubleFires           |-> Cardinality(DoubleFires),
                  settling              |-> Cardinality(Settling(dets, takeStart))]
  BY DEF CountOutcomes
<1>6. DOMAIN NoCounts = {"references", "matched", "detections", "falsePositives",
                         "ambientFalsePositives", "doubleFires", "settling"}
  BY DEF NoCounts
<1>7. (IF ambient THEN Cardinality(FalsePositives) ELSE 0) \in Nat
  BY <1>4
<1> HIDE DEF All
<1> QED BY <1>1, <1>4, <1>5, <1>6, <1>7

LEMMA MatchTypesStep == MatchTypes /\ MatchInv /\ RunTypes /\ [Next]_vars => MatchTypes'
<1> SUFFICES ASSUME MatchTypes, MatchInv, RunTypes, [Next]_vars PROVE MatchTypes'
  OBVIOUS
<1>1. CASE Collect
  <2>1. References(Take) \in Seq(Int)
    BY <1>1, ReferencesTyped DEF Collect, InTake
  <2>2. dets' \in Seq(Int)
    BY <1>1, Collects DEF Collected
  <2>3. refs' = References(Take) /\ mpc' = "pair" /\ UNCHANGED <<counts, overall>>
    BY <1>1 DEF Collect, MatchTake
  <2> QED BY <2>1, <2>2, <2>3 DEF MatchTypes
<1>2. CASE Match
  <2>1. overall' = overall
    BY <1>2 DEF Match, runVars
  <2>2. CASE PairNearest
    BY <2>1, <2>2 DEF PairNearest, MatchTypes
  <2>3. CASE CountOutcomes
    BY <2>1, <2>3, CountsAreNumbers DEF CountOutcomes, MatchTypes
  <2> QED BY <1>2, <2>2, <2>3 DEF Match, Matches
<1>3. CASE Merge
  <2>1. overall' = [f \in DOMAIN overall |-> overall[f] + counts[f]] /\ UNCHANGED matchVars
    BY <1>3 DEF Merge
  <2> QED BY <2>1 DEF MatchTypes, matchVars
<1>4. CASE Check \/ Listen \/ Calibrate \/ SkipTake \/ Clear \/ BeginPlay \/ SendRecord \/ EndPlay \/ LastTake
           \/ Close \/ LogHoldout \/ Fail \/ Hear \/ Raise \/ Tick \/ UNCHANGED vars
  <2>1. UNCHANGED <<matchVars, overall>>
    BY <1>4 DEF Check, Listen, Calibrate, SkipTake, Clear, BeginPlay, SendRecord, EndPlay, LastTake,
                Close, LogHoldout, Fail, Hear, Raise, Tick, runVars, vars
  <2> QED BY <2>1 DEF matchVars, MatchTypes
<1> QED BY <1>1, <1>2, <1>3, <1>4 DEF Next, Run

LEMMA TakeClockStep == RunTypes /\ TakeClock /\ [Next]_vars => TakeClock'
<1> SUFFICES ASSUME RunTypes, TakeClock, [Next]_vars PROVE TakeClock'
  OBVIOUS
<1>1. CASE BeginPlay
  <2>1. spc = "begin" /\ wallOrigin' = now /\ origin' = None /\ sent' = 0 /\ UNCHANGED <<takes, k>>
    BY <1>1 DEF BeginPlay, inputs
  <2>2. InTake /\ now \in Nat
    BY <2>1 DEF InTake, RunTypes
  <2>3. Len(Take.records) \in Nat
    BY <2>2, TakeTyped
  <2> QED BY <2>1, <2>2, <2>3 DEF TakeClock, Replaying, Take
<1>2. CASE SendRecord
  <2>1. /\ spc = "play" /\ sent < Len(Take.records) /\ sent' = sent + 1
        /\ origin' = (IF origin = None THEN Upcoming.t ELSE origin)
        /\ UNCHANGED <<takes, k, spc, wallOrigin>>
    BY <1>2 DEF SendRecord, inputs
  <2>2. InTake /\ sent \in Nat
    BY <2>1 DEF InTake, RunTypes
  <2>3. Len(Take.records) \in Nat /\ Take.records[1].t \in Int
    BY <2>1, <2>2, TakeTyped
  <2>4. origin' = Take.records[1].t
    <3>1. CASE sent = 0
      BY <2>1, <3>1 DEF TakeClock, Replaying, Upcoming
    <3>2. CASE sent > 0
      <4>1. origin = Take.records[1].t /\ origin # None
        BY <2>1, <2>3, <3>2, NoneAssumption DEF TakeClock, Replaying
      <4> QED BY <2>1, <4>1
    <3> QED BY <2>2, <3>1, <3>2
  <2>5. Take' = Take
    BY <2>1 DEF Take
  <2> QED BY <2>1, <2>2, <2>3, <2>4, <2>5 DEF TakeClock, Replaying
<1>3. CASE EndPlay \/ Collect \/ Match \/ Hear \/ Raise \/ Tick \/ UNCHANGED vars
  <2>1. UNCHANGED <<takes, k, sent, origin, wallOrigin>>
        /\ (spc' \in {"play", "drain", "match"} => spc \in {"play", "drain", "match"})
    BY <1>3 DEF EndPlay, Collect, Match, Hear, Raise, Tick, runVars, inputs, vars, Goto
  <2> QED BY <2>1 DEF TakeClock, Replaying, Take
<1>4. CASE Check \/ Listen \/ Calibrate \/ SkipTake \/ Clear \/ Merge \/ LastTake \/ Close \/ LogHoldout \/ Fail
  <2>1. spc' \notin {"play", "drain", "match"}
    BY <1>4 DEF Check, Listen, Calibrate, SkipTake, Clear, Merge, LastTake, Close, LogHoldout, Fail, Goto
  <2> QED BY <2>1 DEF TakeClock, Replaying
<1> QED BY <1>1, <1>2, <1>3, <1>4 DEF Next, Run

-----------------------------------------------------------------------------
(* Moving detections from list to list. *)

LEMMA CausesConcat ==
    ASSUME NEW S, NEW f \in Seq(S), NEW g \in Seq(S)
    PROVE  /\ Causes(f \o g) = Causes(f) \cup Causes(g)
           /\ Once(f) /\ Once(g) /\ Causes(f) \cap Causes(g) = {} => Once(f \o g)
<1>1. PICK h : h = f \o g
  OBVIOUS
<1>2. PICK m \in Nat, n \in Nat : m = Len(f) /\ n = Len(g)
  BY LenProperties
<1>3. DOMAIN f = 1..m /\ DOMAIN g = 1..n /\ h \in Seq(S) /\ Len(h) = m + n /\ DOMAIN h = 1..(m + n)
  BY <1>1, <1>2, ConcatProperties, LenProperties
<1>4. \A i \in 1..(m + n) : h[i] = IF i <= m THEN f[i] ELSE g[i - m]
  BY <1>1, <1>2, ConcatProperties
<1>5. /\ \A i \in 1..m : i \in 1..(m + n) /\ h[i] = f[i]
      /\ \A i \in 1..n : m + i \in 1..(m + n) /\ h[m + i] = g[i]
      /\ \A i \in 1..(m + n) : i \in 1..m \/ (i - m \in 1..n /\ h[i] = g[i - m])
  <2>1. ASSUME NEW i \in 1..m PROVE i \in 1..(m + n) /\ h[i] = f[i]
    BY <1>4
  <2>2. ASSUME NEW i \in 1..n PROVE m + i \in 1..(m + n) /\ h[m + i] = g[i]
    <3>1. m + i \in 1..(m + n) /\ ~(m + i <= m) /\ m + i - m = i
      OBVIOUS
    <3> QED BY <1>4, <3>1
  <2>3. ASSUME NEW i \in 1..(m + n) PROVE i \in 1..m \/ (i - m \in 1..n /\ h[i] = g[i - m])
    BY <1>4
  <2> QED BY <2>1, <2>2, <2>3
<1>6. Causes(h) = Causes(f) \cup Causes(g)
  <2>1. ASSUME NEW c \in Causes(h) PROVE c \in Causes(f) \cup Causes(g)
    <3>1. PICK i \in 1..(m + n) : h[i].cause = c
      BY <1>3 DEF Causes
    <3> QED BY <1>3, <1>5, <3>1 DEF Causes
  <2>2. ASSUME NEW c \in Causes(f) PROVE c \in Causes(h)
    BY <1>3, <1>5 DEF Causes
  <2>3. ASSUME NEW c \in Causes(g) PROVE c \in Causes(h)
    <3>1. PICK i \in 1..n : g[i].cause = c
      BY <1>3 DEF Causes
    <3>2. m + i \in 1..(m + n) /\ h[m + i].cause = c
      BY <1>5, <3>1
    <3> QED BY <1>3, <3>2 DEF Causes
  <2> QED BY <2>1, <2>2, <2>3
<1>7. ASSUME Once(f), Once(g), Causes(f) \cap Causes(g) = {} PROVE Once(h)
  <2> SUFFICES ASSUME NEW i \in 1..(m + n), NEW j \in 1..(m + n), h[i].cause = h[j].cause PROVE i = j
    BY <1>3 DEF Once
  <2>1. CASE i \in 1..m /\ j \in 1..m
    BY <1>3, <1>5, <1>7, <2>1 DEF Once
  <2>2. CASE i \in 1..m /\ j \notin 1..m
    <3>1. h[i].cause \in Causes(f) /\ h[j].cause \in Causes(g)
      BY <1>3, <1>5, <2>2 DEF Causes
    <3> QED BY <1>7, <3>1
  <2>3. CASE i \notin 1..m /\ j \in 1..m
    <3>1. h[i].cause \in Causes(g) /\ h[j].cause \in Causes(f)
      BY <1>3, <1>5, <2>3 DEF Causes
    <3> QED BY <1>7, <3>1
  <2>4. CASE i \notin 1..m /\ j \notin 1..m
    <3>1. i - m = j - m
      <4>1. PICK a \in 1..n, b \in 1..n : a = i - m /\ b = j - m
        BY <1>5, <2>4
      <4>2. g[a].cause = g[b].cause
        BY <1>5, <2>4, <4>1
      <4> QED BY <1>3, <1>7, <4>1, <4>2 DEF Once
    <3> QED BY <3>1
  <2> QED BY <2>1, <2>2, <2>3, <2>4
<1> QED BY <1>1, <1>6, <1>7

LEMMA CausesTail ==
    ASSUME NEW S, NEW f \in Seq(S), f # <<>>
    PROVE  /\ Causes(f) = {Head(f).cause} \cup Causes(Tail(f))
           /\ Once(f) => Once(Tail(f)) /\ Head(f).cause \notin Causes(Tail(f))
           /\ Head(f) = f[1] /\ 1 \in DOMAIN f
           /\ \A i \in DOMAIN Tail(f) : i \in Nat /\ i + 1 \in DOMAIN f /\ i >= 1 /\ Tail(f)[i] = f[i + 1]
<1>1. PICK t : t = Tail(f)
  OBVIOUS
<1>2. PICK n \in Nat : n = Len(f) /\ n >= 1
  <2>1. Len(f) \in Nat /\ (Len(f) = 0 => f = <<>>)
    BY LenProperties, EmptySeq
  <2> QED BY <2>1
<1>3. DOMAIN f = 1..n /\ t \in Seq(S) /\ Len(t) = n - 1 /\ DOMAIN t = 1..(n - 1) /\ Head(f) = f[1]
  BY <1>1, <1>2, HeadTailProperties, LenProperties
<1>4. \A i \in 1..(n - 1) : t[i] = f[i + 1] /\ i + 1 \in 1..n
  BY <1>1, <1>2, <1>3, HeadTailProperties
<1>5. 1 \in 1..n /\ \A i \in 1..n : i = 1 \/ (i - 1 \in 1..(n - 1) /\ t[i - 1] = f[i])
  <2>1. ASSUME NEW i \in 1..n, i # 1 PROVE i - 1 \in 1..(n - 1) /\ t[i - 1] = f[i]
    <3>1. i - 1 \in 1..(n - 1) /\ i - 1 + 1 = i
      BY <2>1
    <3> QED BY <1>4, <3>1
  <2> QED BY <1>2, <2>1
<1>6. Causes(f) = {f[1].cause} \cup Causes(t)
  <2>1. ASSUME NEW c \in Causes(f) PROVE c \in {f[1].cause} \cup Causes(t)
    <3>1. PICK i \in 1..n : f[i].cause = c
      BY <1>3 DEF Causes
    <3> QED BY <1>3, <1>5, <3>1 DEF Causes
  <2>2. f[1].cause \in Causes(f)
    BY <1>3, <1>5 DEF Causes
  <2>3. ASSUME NEW c \in Causes(t) PROVE c \in Causes(f)
    <3>1. PICK i \in 1..(n - 1) : t[i].cause = c
      BY <1>3 DEF Causes
    <3>2. PICK j \in 1..n : j = i + 1
      BY <1>4
    <3>3. f[j].cause = c
      BY <1>4, <3>1, <3>2
    <3> QED BY <1>3, <3>3 DEF Causes
  <2> QED BY <2>1, <2>2, <2>3
<1>7. ASSUME Once(f) PROVE Once(t) /\ f[1].cause \notin Causes(t)
  <2>1. ASSUME NEW i \in 1..(n - 1), NEW j \in 1..(n - 1), t[i].cause = t[j].cause PROVE i = j
    <3>1. PICK a \in 1..n, b \in 1..n : a = i + 1 /\ b = j + 1
      BY <1>4
    <3>2. f[a].cause = f[b].cause
      BY <1>4, <2>1, <3>1
    <3>3. a = b
      BY <1>3, <1>7, <3>2 DEF Once
    <3> QED BY <3>1, <3>3
  <2>2. ASSUME NEW i \in 1..(n - 1), t[i].cause = f[1].cause PROVE FALSE
    <3>1. PICK a \in 1..n : a = i + 1
      BY <1>4
    <3>2. f[a].cause = f[1].cause
      BY <1>4, <2>2, <3>1
    <3>3. a = 1
      BY <1>3, <1>5, <1>7, <3>2 DEF Once
    <3> QED BY <3>1, <3>3
  <2> QED BY <1>3, <2>1, <2>2 DEF Once, Causes
<1> QED BY <1>1, <1>3, <1>4, <1>5, <1>6, <1>7

LEMMA CausesAppend ==
    ASSUME NEW S, NEW f \in Seq(S), NEW e \in S
    PROVE  /\ Causes(Append(f, e)) = Causes(f) \cup {e.cause}
           /\ Once(f) /\ e.cause \notin Causes(f) => Once(Append(f, e))
           /\ \A i \in DOMAIN Append(f, e) : Append(f, e)[i] = e \/ (i \in DOMAIN f /\ Append(f, e)[i] = f[i])
<1>1. PICK g \in Seq(S) : g = <<e>> /\ DOMAIN g = 1..1 /\ g[1] = e
  <2>1. <<e>> \in Seq(S)
    OBVIOUS
  <2>2. DOMAIN <<e>> = 1..1
    OBVIOUS
  <2>3. <<e>>[1] = e
    OBVIOUS
  <2> QED BY <2>1, <2>2, <2>3, Zenon
<1>2. Append(f, e) = f \o g
  BY <1>1, AppendIsConcat
<1>3. \A i \in 1..1 : i = 1
  OBVIOUS
<1>4. Causes(g) = {e.cause} /\ Once(g)
  BY <1>1, <1>3 DEF Causes, Once
<1>5. \A i \in DOMAIN Append(f, e) : Append(f, e)[i] = e \/ (i \in DOMAIN f /\ Append(f, e)[i] = f[i])
  <2>1. Len(f) \in Nat /\ DOMAIN f = 1..Len(f) /\ DOMAIN Append(f, e) = 1..(Len(f) + 1)
    BY LenProperties, AppendProperties
  <2> QED BY <2>1, AppendProperties
<1> QED BY <1>2, <1>4, <1>5, CausesConcat

-----------------------------------------------------------------------------
(* Every step keeps attribution. *)

LEMMA IdentityStep ==
    RunTypes /\ IdentityInv /\ [Next]_vars => IdentityInv'
<1> SUFFICES ASSUME RunTypes, IdentityInv, [Next]_vars PROVE IdentityInv'
  OBVIOUS
<1> DEFINE Begun(c) == /\ c.record >= 1
                       /\ \/ c.take < k
                          \/ /\ c.take = k /\ c.record <= sent
                             /\ spc \notin {"check", "listen", "calibrate", "take", "begin", "refused"}
<1>a. /\ Once(flight) /\ Once(detections) /\ Once(scored)
      /\ Causes(flight) \cap Causes(detections) = {}
      /\ (Causes(flight) \cup Causes(detections)) \cap Causes(scored) = {}
      /\ Causes(flight) \cup Causes(detections) \cup Causes(scored) \subseteq caused
      /\ \A c \in caused : Begun(c)
  BY DEF IdentityInv
<1>t. /\ flight \in Seq(Flying) /\ detections \in Seq(Heard) /\ scored \in Seq(Attributed)
      /\ caused \subseteq Detection /\ sent \in Nat /\ k \in Nat
  <2>1. takes \in Seq(Range(takes))
    BY ScoringAssumption DEF RunTypes
  <2>2. Len(takes) \in Nat
    BY <2>1, LenProperties
  <2> QED BY <2>2 DEF RunTypes, Flying, Heard, Attributed
<1>c. \A c \in caused : c.take \in Nat /\ c.record \in Nat
  BY <1>t DEF Detection
<1>e. Causes(<<>>) = {} /\ Once(<<>>)
  BY DEF Causes, Once
<1>u. ASSUME UNCHANGED <<flight, detections, scored, caused>>, \A c \in caused : Begun(c)'
      PROVE  IdentityInv'
  BY <1>a, <1>u DEF IdentityInv
<1>1. CASE Check \/ Listen \/ Calibrate \/ EndPlay \/ LastTake \/ LogHoldout \/ Fail \/ Match \/ Tick \/ UNCHANGED vars
  <2>1. /\ UNCHANGED <<k, sent, flight, detections, scored, caused>>
        /\ (spc' = spc \/ (spc' \in {"take", "close", "done", "drain"}
                           /\ spc \in {"calibrate", "play", "take", "log", "begin", "drain", "match"}
                           /\ (spc' = "take" => spc = "calibrate"))
            \/ (spc = "check" /\ spc' \in {"refused", "listen"})
            \/ (spc = "listen" /\ spc' \in {"calibrate", "failed"}))
    BY <1>1 DEF Check, Listen, Calibrate, EndPlay, LastTake, LogHoldout, Fail, Match, Tick, Goto, runVars, vars
  <2>2. \A c \in caused : Begun(c)'
    BY <1>a, <2>1
  <2> QED BY <1>u, <2>1, <2>2
<1>2. CASE SkipTake \/ Merge
  <2>1. k' = k + 1 /\ UNCHANGED <<flight, detections, scored, caused>>
    BY <1>2 DEF SkipTake, Merge
  <2>2. \A c \in caused : Begun(c)'
    BY <1>a, <1>c, <1>t, <2>1
  <2> QED BY <1>u, <2>1, <2>2
<1>3. CASE BeginPlay
  <2>1. spc = "begin" /\ UNCHANGED <<k, flight, detections, scored, caused>>
    BY <1>3 DEF BeginPlay
  <2>2. \A c \in caused : Begun(c)'
    BY <1>a, <2>1
  <2> QED BY <1>u, <2>1, <2>2
<1>4. CASE Clear
  <2>1. /\ spc = "take" /\ UNCHANGED <<k, sent, flight, scored, caused>> /\ detections' = <<>>
    BY <1>4 DEF Clear
  <2>2. \A c \in caused : Begun(c)'
    BY <1>a, <2>1
  <2> QED BY <1>a, <1>e, <2>1, <2>2 DEF IdentityInv
<1>5. CASE SendRecord
  <2>1. /\ spc = "play" /\ sent' = sent + 1 /\ UNCHANGED <<k, spc, detections, scored>>
    BY <1>5 DEF SendRecord
  <2>2. PICK f \in Seq(Flying), g \in Seq(Flying) :
              /\ flight' = flight \o f /\ caused' = caused \cup Causes(g) /\ f \in {g, <<>>}
              /\ \A i \in DOMAIN g : /\ g[i].at = now /\ g[i].cause.take = k
                                     /\ g[i].cause.record = sent + 1 /\ g[i].cause.n = i
    BY <1>5, Sends
  <2>3. \A c \in Causes(g) : c.take = k /\ c.record = sent + 1
    BY <2>2 DEF Causes
  <2>4. Causes(g) \cap caused = {}
    BY <1>a, <1>c, <1>t, <2>3
  <2>5. Once(g)
    BY <2>2 DEF Once
  <2>f. Once(f) /\ Causes(f) \subseteq Causes(g)
    BY <1>e, <2>2, <2>5
  <2>6. Causes(flight') = Causes(flight) \cup Causes(f) /\ Once(flight')
    BY <1>a, <1>t, <2>2, <2>4, <2>f, CausesConcat
  <2>7. ASSUME NEW c \in caused' PROVE Begun(c)'
    <3>1. CASE c \in caused
      BY <1>a, <1>c, <1>t, <2>1, <3>1
    <3>2. CASE c \in Causes(g)
      BY <1>t, <2>1, <2>3, <3>2
    <3> QED BY <2>2, <3>1, <3>2
  <2> QED BY <1>a, <2>1, <2>2, <2>4, <2>f, <2>6, <2>7 DEF IdentityInv
<1>6. CASE Collect
  <2>1. /\ spc = "drain" /\ spc' = "match" /\ UNCHANGED <<k, sent, flight, caused>> /\ detections' = <<>>
    BY <1>6 DEF Collect, Goto
  <2>2. PICK n \in Nat : \E a \in [1..n -> DOMAIN detections], g \in Seq(Attributed) : Collected(n, a, g)
    BY <1>6, Collects
  <2>3. PICK a \in [1..n -> DOMAIN detections], g \in Seq(Attributed) : Collected(n, a, g)
    BY <2>2
  <2>4. Once(g)
    <3>1. SUFFICES ASSUME NEW i \in 1..n, NEW j \in 1..n, g[i].cause = g[j].cause PROVE i = j
      BY <2>3 DEF Once, Collected
    <3>2. a[i] \in DOMAIN detections /\ a[j] \in DOMAIN detections
      BY <2>3
    <3>3. detections[a[i]].cause = detections[a[j]].cause
      BY <2>3, <3>1 DEF Collected
    <3>4. a[i] = a[j]
      BY <1>a, <3>2, <3>3 DEF Once
    <3> QED BY <2>3, <3>4 DEF Collected
  <2>5. Causes(g) \subseteq Causes(detections)
    <3>1. SUFFICES ASSUME NEW i \in DOMAIN g PROVE g[i].cause \in Causes(detections)
      BY DEF Causes
    <3>2. i \in 1..n /\ a[i] \in DOMAIN detections
      BY <2>3 DEF Collected
    <3>3. g[i].cause = detections[a[i]].cause
      BY <2>3, <3>2 DEF Collected
    <3> QED BY <3>2, <3>3 DEF Causes
  <2>6. Causes(scored') = Causes(scored) \cup Causes(g) /\ Once(scored')
    BY <1>a, <1>t, <2>3, <2>4, <2>5, CausesConcat DEF Collected
  <2>7. \A c \in caused : Begun(c)'
    BY <1>a, <2>1
  <2> QED BY <1>a, <1>e, <2>1, <2>5, <2>6, <2>7 DEF IdentityInv
<1>7. CASE Close \/ Raise
  <2>1. /\ spc = spc' \/ (spc = "close" /\ spc' \in {"failed", "log", "done"})
        /\ UNCHANGED <<k, sent, detections, scored, caused>> /\ flight' = <<>>
    BY <1>7 DEF Close, Raise, runVars, Goto
  <2>2. \A c \in caused : Begun(c)'
    BY <1>a, <2>1
  <2> QED BY <1>a, <1>e, <2>1, <2>2 DEF IdentityInv
<1>8. CASE Hear
  <2>1. /\ flight # <<>> /\ flight' = Tail(flight)
        /\ detections' = Append(detections, [cause |-> Head(flight).cause, t |-> now])
        /\ UNCHANGED <<k, sent, spc, scored, caused>>
    BY <1>8 DEF Hear, runVars
  <2>2. PICK e \in Heard : e = [cause |-> Head(flight).cause, t |-> now]
    <3>1. Head(flight) \in Flying
      BY <1>t, <2>1, HeadTailProperties
    <3> QED BY <3>1 DEF Flying, Heard, RunTypes
  <2>3. Causes(flight) = {e.cause} \cup Causes(flight') /\ Once(flight') /\ e.cause \notin Causes(flight')
    BY <1>a, <1>t, <2>1, <2>2, CausesTail
  <2>4. Causes(detections') = Causes(detections) \cup {e.cause} /\ Once(detections')
    BY <1>a, <1>t, <2>1, <2>2, <2>3, CausesAppend
  <2>5. \A c \in caused : Begun(c)'
    BY <1>a, <2>1
  <2> QED BY <1>a, <2>1, <2>3, <2>4, <2>5 DEF IdentityInv
<1> QED BY <1>1, <1>2, <1>3, <1>4, <1>5, <1>6, <1>7, <1>8 DEF Next, Run

\* An element of f \o g is one of f or of g.
LEMMA ConcatElement ==
    ASSUME NEW S, NEW f \in Seq(S), NEW g \in Seq(S)
    PROVE  \A i \in DOMAIN (f \o g) :
              \/ i \in DOMAIN f /\ (f \o g)[i] = f[i]
              \/ i - Len(f) \in DOMAIN g /\ i > Len(f) /\ (f \o g)[i] = g[i - Len(f)]
<1>1. PICK m \in Nat, n \in Nat : m = Len(f) /\ n = Len(g)
  BY LenProperties
<1>2. DOMAIN f = 1..m /\ DOMAIN g = 1..n /\ DOMAIN (f \o g) = 1..(m + n)
  BY <1>1, ConcatProperties, LenProperties
<1>3. \A i \in 1..(m + n) : (f \o g)[i] = IF i <= m THEN f[i] ELSE g[i - m]
  BY <1>1, ConcatProperties
<1>4. \A i \in 1..(m + n) : i \in 1..m \/ (i - m \in 1..n /\ i > m)
  OBVIOUS
<1> QED BY <1>1, <1>2, <1>3, <1>4

LEMMA MayLag == RunTypes => MaxLag \in Nat
BY ScoringAssumption DEF MaxLag, RunTypes

LEMMA InputsKept == [Next]_vars => takes' = takes /\ slow' = slow /\ MaxLag' = MaxLag
<1>1. [Next]_vars => takes' = takes /\ slow' = slow
  BY DEF Next, Run, Check, Listen, Calibrate, SkipTake, Clear, BeginPlay, SendRecord, EndPlay, Collect, Match,
         Merge, LastTake, Close, LogHoldout, Fail, Hear, Raise, Tick, vars, inputs
<1> QED BY <1>1 DEF MaxLag

\* The answers under way were caused in order, and none is later than MaxLag.
LEMMA FlightStep == RunTypes /\ FlightInv /\ [Next]_vars => FlightInv'
<1> SUFFICES ASSUME RunTypes, FlightInv, [Next]_vars PROVE FlightInv'
  OBVIOUS
<1>t. /\ flight \in Seq(Flying) /\ detections \in Seq(Heard) /\ now \in Nat /\ MaxLag \in Nat
      /\ \A i \in DOMAIN flight : flight[i].at \in Nat
      /\ DOMAIN flight = 1..Len(flight) /\ Len(flight) \in Nat
  <2>1. flight \in Seq(Flying)
    BY DEF RunTypes, Flying
  <2>2. \A i \in DOMAIN flight : flight[i] \in Flying
    BY <2>1, LenProperties, ElementOfSeq
  <2> QED BY <2>1, <2>2, MayLag, LenProperties DEF RunTypes, Flying, Heard
<1>s. MaxLag' = MaxLag
  BY InputsKept
<1>f. /\ \A i, j \in DOMAIN flight : i < j => flight[i].at <= flight[j].at
      /\ \A i \in DOMAIN flight : flight[i].at <= now /\ now <= flight[i].at + MaxLag
      /\ \A i \in DOMAIN detections : detections[i].t <= now
  BY DEF FlightInv
<1>1. CASE SendRecord
  <2>1. UNCHANGED <<now, detections>>
    BY <1>1 DEF SendRecord
  <2>2. PICK g \in Seq(Flying) : flight' = flight \o g /\ \A i \in DOMAIN g : g[i].at = now
    BY <1>1, Sends
  <2>3. \A i \in DOMAIN flight' :
           \/ i \in DOMAIN flight /\ flight'[i] = flight[i]
           \/ i > Len(flight) /\ flight'[i].at = now
    BY <1>t, <2>2, ConcatElement
  <2>4. ASSUME NEW i \in DOMAIN flight' PROVE flight'[i].at <= now /\ now <= flight'[i].at + MaxLag
    BY <1>f, <1>t, <2>3
  <2>5. ASSUME NEW i \in DOMAIN flight', NEW j \in DOMAIN flight', i < j
        PROVE  flight'[i].at <= flight'[j].at
    <3>1. CASE j \in DOMAIN flight /\ flight'[j] = flight[j]
      <4>1. i \in DOMAIN flight /\ flight'[i] = flight[i]
        <5>1. i \in Nat /\ j \in 1..Len(flight) /\ DOMAIN flight' \subseteq Nat
          <6>1. flight' \in Seq(Flying)
            BY <1>t, <2>2, ConcatProperties
          <6>2. DOMAIN flight' = 1..Len(flight') /\ Len(flight') \in Nat
            BY <6>1, LenProperties
          <6> QED BY <1>t, <3>1, <6>2
        <5>2. ~ (i > Len(flight))
          BY <1>t, <2>5, <5>1
        <5> QED BY <2>3, <5>2
      <4> QED BY <1>f, <2>5, <3>1, <4>1
    <3>2. CASE flight'[j].at = now
      BY <2>4, <3>2
    <3> QED BY <2>3, <3>1, <3>2
  <2> QED BY <1>f, <1>s, <2>1, <2>4, <2>5 DEF FlightInv
<1>2. CASE Hear
  <2>1. /\ flight # <<>> /\ flight' = Tail(flight) /\ now' = now
        /\ detections' = Append(detections, [cause |-> Head(flight).cause, t |-> now])
    BY <1>2 DEF Hear
  <2>2. \A i \in DOMAIN flight' : i \in Nat /\ i + 1 \in DOMAIN flight /\ flight'[i] = flight[i + 1]
    BY <1>t, <2>1, CausesTail
  <2>3. ASSUME NEW i \in DOMAIN flight' PROVE flight'[i].at <= now /\ now <= flight'[i].at + MaxLag
    BY <1>f, <2>2
  <2>4. ASSUME NEW i \in DOMAIN flight', NEW j \in DOMAIN flight', i < j
        PROVE  flight'[i].at <= flight'[j].at
    <3>1. i + 1 < j + 1 /\ i + 1 \in DOMAIN flight /\ j + 1 \in DOMAIN flight
      BY <2>2, <2>4
    <3>2. flight[i + 1].at <= flight[j + 1].at
      BY <1>f, <3>1
    <3> QED BY <2>2, <3>2
  <2>5. PICK e \in Heard : e = [cause |-> Head(flight).cause, t |-> now]
    <3>1. Head(flight) \in Flying
      BY <1>t, <2>1, HeadTailProperties
    <3> QED BY <3>1, <1>t DEF Flying, Heard
  <2>6. ASSUME NEW i \in DOMAIN detections' PROVE detections'[i].t <= now
    <3>1. detections'[i] = e \/ (i \in DOMAIN detections /\ detections'[i] = detections[i])
      BY <1>t, <2>1, <2>5, CausesAppend
    <3> QED BY <1>f, <1>t, <2>5, <3>1
  <2> QED BY <1>s, <2>1, <2>3, <2>4, <2>6 DEF FlightInv
<1>3. CASE Tick
  <2>1. now' = now + 1 /\ (flight # <<>> => now < flight[1].at + MaxLag) /\ UNCHANGED <<flight, detections>>
    <3>1. flight # <<>> => Head(flight) = flight[1]
      BY <1>t, CausesTail
    <3> QED BY <1>3, <3>1 DEF Tick
  <2>2. ASSUME NEW i \in DOMAIN flight PROVE flight[i].at <= now + 1 /\ now + 1 <= flight[i].at + MaxLag
    <3>1. 1 \in DOMAIN flight /\ flight # <<>>
      BY <1>t
    <3>2. flight[1].at <= flight[i].at
      BY <1>f, <1>t, <3>1
    <3> QED BY <1>f, <1>t, <2>1, <3>1, <3>2
  <2>3. \A i \in DOMAIN detections : detections[i].t \in Nat
    <3>1. \A i \in DOMAIN detections : detections[i] \in Heard
      BY <1>t, LenProperties, ElementOfSeq
    <3> QED BY <3>1 DEF Heard
  <2> QED BY <1>f, <1>s, <1>t, <2>1, <2>2, <2>3 DEF FlightInv
<1>4. CASE Clear \/ Collect
  <2>1. UNCHANGED <<flight, now>> /\ detections' = <<>>
    BY <1>4 DEF Clear, Collect
  <2> QED BY <1>f, <1>s, <2>1 DEF FlightInv
<1>5. CASE Close \/ Raise
  <2>1. UNCHANGED <<detections, now>> /\ flight' = <<>>
    BY <1>5 DEF Close, Raise
  <2> QED BY <1>f, <1>s, <2>1 DEF FlightInv
<1>6. CASE Check \/ Listen \/ Calibrate \/ SkipTake \/ BeginPlay \/ EndPlay \/ Match \/ Merge \/ LastTake
           \/ LogHoldout \/ Fail \/ UNCHANGED vars
  <2>1. UNCHANGED <<flight, detections, now>>
    BY <1>6 DEF Check, Listen, Calibrate, SkipTake, BeginPlay, EndPlay, Match, Merge, LastTake, LogHoldout, Fail, vars
  <2> QED BY <1>f, <1>s, <2>1 DEF FlightInv
<1> QED BY <1>1, <1>2, <1>3, <1>4, <1>5, <1>6 DEF Next, Run

\* A prompt descriptor's answers are all read before the drain is over, and scored.
LEMMA PromptStep ==
    RunTypes /\ IdentityInv /\ FlightInv /\ PromptInv /\ [Next]_vars => PromptInv'
<1> SUFFICES ASSUME RunTypes, IdentityInv, FlightInv, PromptInv, [Next]_vars, ~ slow'
             PROVE  PromptInv'
  BY DEF PromptInv
<1>s. ~ slow
  BY InputsKept
<1> DEFINE Over == {"close", "log", "done", "failed"}
<1>p. /\ \A i \in DOMAIN flight : flight[i].cause.take = k
      /\ \A i \in DOMAIN detections : detections[i].cause.take = k
      /\ spc \in {"check", "listen", "calibrate", "take", "begin", "match"} => flight = <<>> /\ detections = <<>>
      /\ spc = "drain" => \A i \in DOMAIN flight : flight[i].at + Drain <= until
      /\ \A i \in DOMAIN scored : scored[i].cause.take = scored[i].take
      /\ \A c \in caused : c.class = Class =>
            \/ thread = "raised"
            \/ c \in Causes(scored)
            \/ c.take = k /\ (c \in Causes(flight) \cup Causes(detections) \/ spc \in Over)
  BY <1>s DEF PromptInv
<1>t. /\ flight \in Seq(Flying) /\ detections \in Seq(Heard) /\ scored \in Seq(Attributed)
      /\ now \in Nat /\ until \in Nat
      /\ \A i \in DOMAIN flight : flight[i].at \in Nat
      /\ Lag \in Nat /\ Drain \in Nat /\ MaxLag = Lag
      /\ DOMAIN flight = 1..Len(flight) /\ Len(flight) \in Nat
  <2>1. flight \in Seq(Flying)
    BY DEF RunTypes, Flying
  <2>2. \A i \in DOMAIN flight : flight[i] \in Flying
    BY <2>1, LenProperties, ElementOfSeq
  <2> QED BY <1>s, <2>1, <2>2, ScoringAssumption, LenProperties
          DEF RunTypes, Flying, Heard, Attributed, MaxLag
<1>e. Causes(<<>>) = {} /\ DOMAIN <<>> = {}
  BY DEF Causes
<1>1. CASE Check \/ Listen \/ Calibrate \/ Match \/ LastTake \/ LogHoldout \/ Fail \/ BeginPlay \/ UNCHANGED vars
  <2>1. /\ UNCHANGED <<k, flight, detections, scored, caused, until>>
        /\ (spc' = spc \/ (spc = "begin" /\ spc' = "play") \/ spc' = "refused" \/ spc' \in Over
            \/ (spc \in {"check", "listen", "calibrate"} /\ spc' \in {"listen", "calibrate", "take"}))
        /\ (spc \in Over => spc' \in Over) /\ (thread = "raised" => thread' = "raised")
    BY <1>1 DEF Check, Listen, Calibrate, Match, LastTake, LogHoldout, Fail, BeginPlay, Goto, runVars, vars,
                   RunTypes
  <2> QED BY <1>p, <2>1 DEF PromptInv
<1>2. CASE SkipTake \/ Merge
  <2>1. /\ k' = k + 1 /\ UNCHANGED <<thread, flight, detections, scored, caused>>
        /\ spc \in {"take", "match"} /\ spc' = "take"
    BY <1>2 DEF SkipTake, Merge, Goto
  <2>2. flight = <<>> /\ detections = <<>>
    BY <1>p, <2>1
  <2>3. \A c \in caused : c.class = Class => c \in Causes(scored) \/ thread = "raised"
    BY <1>e, <1>p, <2>1, <2>2
  <2> QED BY <1>e, <1>p, <2>1, <2>2, <2>3 DEF PromptInv
<1>3. CASE Clear
  <2>1. /\ spc = "take" /\ spc' = "begin" /\ UNCHANGED <<thread, k, flight, scored, caused>>
        /\ detections' = <<>>
    BY <1>3 DEF Clear, Goto
  <2> QED BY <1>p, <2>1 DEF PromptInv
<1>4. CASE SendRecord
  <2>1. /\ spc = "play" /\ spc' = "play" /\ UNCHANGED <<thread, k, detections, scored>>
    BY <1>4 DEF SendRecord
  <2>2. PICK f \in Seq(Flying), g \in Seq(Flying) :
              /\ flight' = flight \o f /\ caused' = caused \cup Causes(g)
              /\ f = IF thread = "runs" THEN g ELSE <<>>
              /\ \A i \in DOMAIN f : f[i].cause.take = k
              /\ \A i \in DOMAIN g : g[i].cause.take = k
    BY <1>4, Sends
  <2>3. Causes(flight') = Causes(flight) \cup Causes(f)
    BY <1>t, <2>2, CausesConcat
  <2>4. \A i \in DOMAIN flight' : flight'[i].cause.take = k
    BY <1>p, <1>t, <2>2, ConcatElement
  <2>5. \A c \in Causes(g) : c.take = k
    BY <2>2 DEF Causes
  <2>6. thread # "raised" => f = g
    BY <2>1, <2>2 DEF RunTypes
  <2> QED BY <1>p, <2>1, <2>2, <2>3, <2>4, <2>5, <2>6 DEF PromptInv
<1>5. CASE EndPlay
  <2>1. /\ spc = "play" /\ spc' = "drain" /\ until' = now + Drain
        /\ UNCHANGED <<thread, k, flight, detections, scored, caused>>
    BY <1>5 DEF EndPlay, DrainEnds, Goto
  <2>2. \A i \in DOMAIN flight : flight[i].at + Drain <= until'
    BY <1>t, <2>1 DEF FlightInv
  <2> QED BY <1>p, <2>1, <2>2 DEF PromptInv
<1>6. CASE Collect
  <2>1. /\ spc = "drain" /\ spc' = "match" /\ now >= until /\ UNCHANGED <<thread, k, flight, caused>>
        /\ detections' = <<>>
    BY <1>6 DEF Collect, Goto
  <2>2. flight = <<>>
    <3>1. ASSUME flight # <<>> PROVE FALSE
      <4>1. 1 \in DOMAIN flight
        BY <1>t, <3>1, EmptySeq
      <4>2. now <= flight[1].at + Lag /\ flight[1].at + Drain <= until
        BY <1>p, <1>t, <2>1, <4>1 DEF FlightInv
      <4> QED BY <1>t, <2>1, <4>1, <4>2, DrainAssumption
    <3> QED BY <3>1
  <2>3. PICK n \in Nat : \E a \in [1..n -> DOMAIN detections], g \in Seq(Attributed) : Collected(n, a, g)
    BY <1>6, Collects
  <2>4. PICK a \in [1..n -> DOMAIN detections], g \in Seq(Attributed) : Collected(n, a, g)
    BY <2>3
  <2>5. Causes(scored') = Causes(scored) \cup Causes(g)
    BY <1>t, <2>4, CausesConcat DEF Collected
  <2>6. ASSUME NEW i \in DOMAIN scored' PROVE scored'[i].cause.take = scored'[i].take
    <3>1. \A j \in DOMAIN g : g[j].cause.take = g[j].take
      <4>1. \A j \in 1..n : a[j] \in DOMAIN detections
        OBVIOUS
      <4>2. DOMAIN g = 1..n /\ \A j \in 1..n : g[j].cause = detections[a[j]].cause /\ g[j].take = k
        BY <2>4 DEF Collected
      <4> QED BY <1>p, <4>1, <4>2
    <3> QED BY <1>p, <1>t, <2>4, <3>1, ConcatElement DEF Collected
  <2>7. ASSUME NEW c \in Causes(detections), c.class = Class PROVE c \in Causes(g)
    <3>1. PICK i \in DOMAIN detections : detections[i].cause = c
      BY DEF Causes
    <3>2. PICK j \in 1..n : a[j] = i
      BY <2>4, <2>7, <3>1 DEF Collected
    <3> QED BY <2>4, <3>1, <3>2 DEF Causes, Collected
  <2>8. \A c \in caused : c.class = Class => c \in Causes(scored') \/ thread = "raised"
    BY <1>e, <1>p, <2>1, <2>2, <2>5, <2>7
  <2> QED BY <1>e, <2>1, <2>2, <2>6, <2>8 DEF PromptInv
<1>7. CASE Close
  <2>1. /\ spc' \in {"failed", "log", "done"} /\ UNCHANGED <<k, detections, scored, caused>> /\ flight' = <<>>
        /\ (thread = "raised" => thread' = "raised")
    BY <1>7 DEF Close, Goto
  <2> QED BY <1>e, <1>p, <2>1 DEF PromptInv
<1>8. CASE Hear
  <2>1. /\ flight # <<>> /\ flight' = Tail(flight)
        /\ detections' = Append(detections, [cause |-> Head(flight).cause, t |-> now])
        /\ UNCHANGED <<thread, k, spc, scored, caused, until>>
    BY <1>8 DEF Hear, runVars
  <2>2. PICK e \in Heard : e = [cause |-> Head(flight).cause, t |-> now]
    <3>1. Head(flight) \in Flying
      BY <1>t, <2>1, HeadTailProperties
    <3> QED BY <1>t, <3>1 DEF Flying, Heard
  <2>3. /\ Causes(flight) = {e.cause} \cup Causes(flight') /\ e.cause = flight[1].cause /\ 1 \in DOMAIN flight
        /\ \A i \in DOMAIN flight' : i + 1 \in DOMAIN flight /\ flight'[i] = flight[i + 1]
    BY <1>t, <2>1, <2>2, CausesTail
  <2>4. /\ Causes(detections') = Causes(detections) \cup {e.cause}
        /\ \A i \in DOMAIN detections' : detections'[i] = e
                                         \/ (i \in DOMAIN detections /\ detections'[i] = detections[i])
    BY <1>t, <2>1, <2>2, CausesAppend
  <2>5. \A i \in DOMAIN flight' : flight'[i].cause.take = k
    BY <1>p, <2>3
  <2>6. \A i \in DOMAIN detections' : detections'[i].cause.take = k
    BY <1>p, <2>3, <2>4
  <2>7. spc \notin {"check", "listen", "calibrate", "take", "begin", "match"}
    BY <1>p, <2>1
  <2>8. spc = "drain" => \A i \in DOMAIN flight' : flight'[i].at + Drain <= until
    BY <1>p, <2>3
  <2>9. \A c \in caused : c.class = Class =>
            \/ thread = "raised"
            \/ c \in Causes(scored)
            \/ c.take = k /\ (c \in Causes(flight') \cup Causes(detections') \/ spc \in Over)
    BY <1>p, <2>3, <2>4
  <2> QED BY <1>p, <2>1, <2>5, <2>6, <2>7, <2>8, <2>9 DEF PromptInv
<1>9. CASE Tick
  <2>1. UNCHANGED <<thread, k, spc, until, flight, detections, scored, caused>>
    BY <1>9 DEF Tick, runVars
  <2> QED BY <1>p, <2>1 DEF PromptInv
<1>10. CASE Raise
  <2>1. thread' = "raised" /\ flight' = <<>> /\ UNCHANGED <<k, spc, detections, scored, caused>>
    BY <1>10 DEF Raise, runVars
  <2> QED BY <1>e, <1>p, <2>1 DEF PromptInv
<1> QED BY <1>1, <1>2, <1>3, <1>4, <1>5, <1>6, <1>7, <1>8, <1>9, <1>10 DEF Next, Run

\* Of two moments in corpus time the earlier is due first, and to_corpus_time undoes Due.
LEMMA Clocks ==
    ASSUME NEW w \in Int, NEW t1 \in Int, NEW tr \in Int
    PROVE  /\ \A tj \in Int, x \in Int, m \in Nat :
                 tj <= tr /\ x <= w + (tj - t1) + m => x <= w + (tr - t1) + m
           /\ \A t \in Int, m \in Nat :
                 w + (tr - t1) <= t /\ t <= w + (tr - t1) + m => t1 + (t - w) - tr \in 0..m
OBVIOUS

\* Answers to messages in order come in time, and corpus time says so.
LEMMA HonestStep ==
    RunTypes /\ TakeClock /\ IdentityInv /\ FlightInv /\ HonestInv /\ [Next]_vars => HonestInv'
<1> SUFFICES ASSUME RunTypes, TakeClock, IdentityInv, FlightInv, HonestInv, [Next]_vars
             PROVE  HonestInv'
  OBVIOUS
<1>n. takes' = takes /\ slow' = slow /\ MaxLag' = MaxLag
  BY InputsKept
<1>t. /\ flight \in Seq(Flying) /\ detections \in Seq(Heard) /\ scored \in Seq(Attributed)
      /\ now \in Nat /\ sent \in Nat /\ MaxLag \in Nat /\ MaxLate \in Nat /\ caused \subseteq Detection
  BY MayLag, ScoringAssumption DEF RunTypes, Flying, Heard, Attributed
<1>d. /\ \A i \in DOMAIN flight : flight[i] \in Flying /\ flight[i].cause \in caused
      /\ \A i \in DOMAIN detections : detections[i] \in Heard /\ detections[i].cause \in caused
  <2>1. /\ \A i \in DOMAIN flight : flight[i] \in Flying
        /\ \A i \in DOMAIN detections : detections[i] \in Heard
    BY <1>t, LenProperties, ElementOfSeq
  <2>2. Causes(flight) \cup Causes(detections) \subseteq caused
    BY DEF IdentityInv
  <2> QED BY <2>1, <2>2 DEF Causes
<1>r. Replaying => /\ wallOrigin \in Nat /\ sent <= Len(Take.records) /\ Len(Take.records) \in Nat
                   /\ \A r \in 1..Len(Take.records) : Take.records[r].t \in Int /\ DueAt(r) \in Int
  <2>1. Replaying => InTake
    BY DEF Replaying, InTake
  <2> QED BY <2>1, TakeTyped DEF TakeClock, DueAt
<1>b. \A c \in caused : Replaying /\ c.take = k => c.record \in 1..Len(Take.records) /\ c.record <= sent
  <2>1. k \in Nat
    <3>1. takes \in Seq(Range(takes))
      BY ScoringAssumption DEF RunTypes
    <3> QED BY <3>1, LenProperties DEF RunTypes
  <2> QED BY <1>r, <1>t, <2>1 DEF IdentityInv, Detection
<1>h. /\ Replaying =>
          /\ wallOrigin <= now
          /\ spc = "play" /\ Len(Take.records) > 0 =>
                \E j \in 1..Len(Take.records) : j <= sent + 1 /\ now <= DueAt(j) + MaxLate
          /\ \A i \in DOMAIN flight : Timely(flight[i].cause, flight[i].at, MaxLate)
          /\ \A i \in DOMAIN detections : Timely(detections[i].cause, detections[i].t, MaxLate + MaxLag)
      /\ CorpusTimeIsHonest
  BY DEF HonestInv
<1>x. scored' = scored => CorpusTimeIsHonest'
  BY <1>h, <1>n DEF CorpusTimeIsHonest
<1>u. UNCHANGED <<k, wallOrigin>> =>
         /\ Take' = Take /\ (\A r : DueAt(r)' = DueAt(r))
         /\ (\A c, at, late : Timely(c, at, late) => Timely(c, at, late)')
  BY <1>n DEF Take, DueAt, Timely
<1>1. CASE BeginPlay
  <2>1. /\ spc = "begin" /\ spc' = "play" /\ wallOrigin' = now
        /\ UNCHANGED <<k, now, flight, detections, caused, scored>>
    BY <1>1 DEF BeginPlay, Goto
  <2>2. \A c \in caused : c.take # k'
    <3>1. k \in Nat /\ \A c \in caused : c.take \in Nat /\ c.take < k
      BY <1>t, <2>1, TakeTyped DEF IdentityInv, InTake, Detection
    <3> QED BY <2>1, <3>1
  <2>3. /\ \A i \in DOMAIN flight' : Timely(flight[i].cause, flight[i].at, MaxLate)'
        /\ \A i \in DOMAIN detections' : Timely(detections[i].cause, detections[i].t, MaxLate + MaxLag)'
    BY <1>d, <2>1, <2>2 DEF Timely
  <2>4. ASSUME Len(Take'.records) > 0
        PROVE  \E j \in 1..Len(Take'.records) : j <= sent' + 1 /\ now' <= DueAt(j)' + MaxLate
    <3>1. Take' = Take /\ InTake
      BY <1>n, <2>1 DEF Take, InTake
    <3>2. 1 \in 1..Len(Take'.records) /\ Take.records[1].t \in Int
      BY <2>4, <3>1, TakeTyped
    <3>3. DueAt(1)' = now
      BY <1>t, <2>1, <3>1, <3>2 DEF DueAt
    <3>4. sent' = 0
      BY <1>1 DEF BeginPlay
    <3>5. 1 <= sent' + 1 /\ now' <= DueAt(1)' + MaxLate
      BY <1>t, <2>1, <3>3, <3>4
    <3> QED BY <3>2, <3>5
  <2>5. wallOrigin' <= now'
    BY <1>t, <2>1
  <2> QED BY <1>x, <2>1, <2>3, <2>4, <2>5 DEF HonestInv
<1>2. CASE SendRecord
  <2>1. /\ spc = "play" /\ sent < Len(Take.records) /\ now >= Due /\ sent' = sent + 1
        /\ UNCHANGED <<k, spc, wallOrigin, now, detections, scored>>
    BY <1>2 DEF SendRecord
  <2>r. Replaying /\ Replaying'
    BY <2>1 DEF Replaying
  <2>2. PICK g \in Seq(Flying) : /\ flight' = flight \o g
                                 /\ \A i \in DOMAIN g : g[i].at = now /\ g[i].cause.record = sent + 1
    BY <1>2, Sends
  <2>3. PICK r \in 1..Len(Take.records) : r = sent + 1
    BY <1>r, <1>t, <2>1, <2>r
  <2>4. DueAt(r) <= now
    <3>1. CASE sent = 0
      <4>1. r = 1 /\ origin = None
        BY <2>3, <2>r, <3>1 DEF TakeClock
      <4>2. Due = wallOrigin /\ DueAt(r) = wallOrigin
        BY <1>r, <2>3, <2>r, <4>1 DEF Due, DueAt
      <4> QED BY <2>1, <4>2
    <3>2. CASE sent > 0
      <4>1. origin = Take.records[1].t /\ 1 \in 1..Len(Take.records)
        BY <1>r, <1>t, <2>1, <2>r, <3>2 DEF TakeClock
      <4>2. origin # None
        BY <1>r, <2>r, <4>1, NoneAssumption
      <4>3. Due = DueAt(r)
        BY <2>3, <4>1, <4>2 DEF Due, DueAt, Upcoming
      <4> QED BY <2>1, <4>3
    <3> QED BY <1>t, <3>1, <3>2
  <2>5. InOrder(Take, r) => now <= DueAt(r) + MaxLate
    <3>1. PICK j \in 1..Len(Take.records) : j <= sent + 1 /\ now <= DueAt(j) + MaxLate
      BY <1>h, <1>r, <2>1, <2>r, <2>3
    <3>2. j \in 1..r
      BY <2>3, <3>1
    <3>3. InOrder(Take, r) => Take.records[j].t <= Take.records[r].t
      BY <3>2 DEF InOrder
    <3>4. PICK tj \in Int, tr \in Int, t1 \in Int :
             tj = Take.records[j].t /\ tr = Take.records[r].t /\ t1 = Take.records[1].t
      <4>1. 1 \in 1..Len(Take.records)
        BY <2>3
      <4> QED BY <1>r, <2>r, <3>1, <4>1
    <3>5. DueAt(j) = wallOrigin + (tj - t1) /\ DueAt(r) = wallOrigin + (tr - t1)
      BY <3>4 DEF DueAt
    <3>6. PICK w \in Nat : w = wallOrigin
      BY <1>r, <2>r
    <3>7. now <= w + (tj - t1) + MaxLate /\ DueAt(r) = w + (tr - t1)
      BY <3>1, <3>5, <3>6
    <3>8. tj <= tr => now <= w + (tr - t1) + MaxLate
      <4>1. now \in Int /\ w \in Int
        BY <1>t
      <4> QED BY <1>t, <3>7, <4>1, Clocks
    <3> QED BY <3>3, <3>4, <3>7, <3>8
  <2>6. \A i \in DOMAIN g : Timely(g[i].cause, g[i].at, MaxLate)
    BY <2>2, <2>3, <2>4, <2>5 DEF Timely
  <2>7. ASSUME NEW i \in DOMAIN flight' PROVE Timely(flight[i].cause, flight[i].at, MaxLate)'
    <3>1. \/ i \in DOMAIN flight /\ flight'[i] = flight[i]
          \/ i - Len(flight) \in DOMAIN g /\ flight'[i] = g[i - Len(flight)]
      BY <1>t, <2>2, <2>7, ConcatElement
    <3>2. Timely(flight'[i].cause, flight'[i].at, MaxLate)
      <4>1. CASE i \in DOMAIN flight /\ flight'[i] = flight[i]
        BY <1>h, <2>r, <4>1
      <4>2. CASE i - Len(flight) \in DOMAIN g /\ flight'[i] = g[i - Len(flight)]
        BY <2>6, <4>2
      <4> QED BY <3>1, <4>1, <4>2
    <3> QED BY <1>n, <2>1, <3>2 DEF Timely, Take, DueAt
  <2>8. \A i \in DOMAIN detections' : Timely(detections[i].cause, detections[i].t, MaxLate + MaxLag)'
    BY <1>h, <1>n, <2>1, <2>r DEF Timely, Take, DueAt
  <2>9. Len(Take'.records) > 0 =>
            \E j \in 1..Len(Take'.records) : j <= sent' + 1 /\ now' <= DueAt(j)' + MaxLate
    <3>1. \A j \in 1..Len(Take.records) : j <= sent + 1 => j <= sent' + 1
      BY <1>t, <2>1
    <3> QED BY <1>h, <1>u, <2>1, <2>r, <3>1
  <2>10. wallOrigin' <= now'
    BY <1>h, <2>1, <2>r
  <2> QED BY <1>x, <2>1, <2>7, <2>8, <2>9, <2>10 DEF HonestInv
<1>3. CASE EndPlay
  <2>1. /\ spc = "play" /\ spc' = "drain"
        /\ UNCHANGED <<k, wallOrigin, now, flight, detections, scored>>
    BY <1>3 DEF EndPlay, Goto
  <2>2. Replaying
    BY <2>1 DEF Replaying
  <2>3. /\ \A i \in DOMAIN flight' : Timely(flight[i].cause, flight[i].at, MaxLate)'
        /\ \A i \in DOMAIN detections' : Timely(detections[i].cause, detections[i].t, MaxLate + MaxLag)'
    BY <1>h, <1>n, <2>1, <2>2 DEF Timely, Take, DueAt
  <2> QED BY <1>h, <1>x, <2>1, <2>2, <2>3 DEF HonestInv
<1>4. CASE Collect
  <2>1. /\ spc = "drain" /\ spc' = "match" /\ detections' = <<>>
        /\ UNCHANGED <<k, wallOrigin, now, flight>>
    BY <1>4 DEF Collect, Goto
  <2>2. Replaying
    BY <2>1 DEF Replaying
  <2>3. /\ \A i \in DOMAIN flight' : Timely(flight[i].cause, flight[i].at, MaxLate)'
        /\ DOMAIN detections' = {}
    BY <1>h, <1>n, <2>1, <2>2 DEF Timely, Take, DueAt
  <2>4. PICK n \in Nat : \E a \in [1..n -> DOMAIN detections], g \in Seq(Attributed) : Collected(n, a, g)
    BY <1>4, Collects
  <2>5. PICK a \in [1..n -> DOMAIN detections], g \in Seq(Attributed) : Collected(n, a, g)
    BY <2>4
  <2>6. ASSUME NEW i \in 1..n, g[i].take = g[i].cause.take, InOrder(takes[g[i].take], g[i].cause.record)
        PROVE  g[i].t - takes[g[i].take].records[g[i].cause.record].t \in 0..(MaxLate + MaxLag)
    <3>1. PICK q \in DOMAIN detections : q = a[i]
      OBVIOUS
    <3>2. PICK c \in caused : c = detections[q].cause
      BY <1>d, <3>1
    <3>3. PICK t \in Nat : t = detections[q].t
      BY <1>d, <3>1 DEF Heard
    <3>4. g[i].cause = c /\ g[i].take = k /\ g[i].t = ToCorpusTime(t)
      BY <2>5, <3>1, <3>2, <3>3 DEF Collected
    <3>5. c.take = k /\ InOrder(Take, c.record)
      BY <2>6, <3>4 DEF Take
    <3>6. DueAt(c.record) <= t /\ t <= DueAt(c.record) + (MaxLate + MaxLag)
      BY <1>h, <2>2, <3>1, <3>2, <3>3, <3>5 DEF Timely
    <3>7. PICK r \in 1..Len(Take.records) : r = c.record /\ r <= sent
      BY <1>b, <2>2, <3>5
    <3>8. PICK tr \in Int, t1 \in Int, w \in Nat :
             tr = Take.records[r].t /\ t1 = Take.records[1].t /\ w = wallOrigin
      <4>1. 1 \in 1..Len(Take.records)
        BY <3>7
      <4> QED BY <1>r, <2>2, <3>7, <4>1
    <3>9. origin = t1 /\ origin # None /\ wallOrigin # None
      <4>1. sent > 0
        BY <1>t, <3>7
      <4> QED BY <2>2, <3>8, <4>1, NoneAssumption DEF TakeClock
    <3>10. ToCorpusTime(t) = t1 + (t - w) /\ DueAt(c.record) = w + (tr - t1)
      BY <3>7, <3>8, <3>9 DEF ToCorpusTime, DueAt
    <3>11. PICK u \in Int : u = t1 + (t - w)
      BY <3>3, <3>8
    <3>12. u - tr \in 0..(MaxLate + MaxLag)
      <4>1. PICK m \in Nat : m = MaxLate + MaxLag
        BY <1>t
      <4>2. w + (tr - t1) <= t /\ t <= w + (tr - t1) + m
        BY <3>6, <3>10, <4>1
      <4>3. t1 + (t - w) - tr \in 0..m
        <5>1. w \in Int /\ t \in Int
          OBVIOUS
        <5> QED BY <4>2, <5>1, Clocks
      <4> QED BY <3>11, <4>1, <4>3
    <3>13. g[i].t = u /\ takes[g[i].take].records[g[i].cause.record].t = tr
      BY <3>4, <3>7, <3>8, <3>10, <3>11 DEF Take
    <3> QED BY <3>12, <3>13
  <2>7. CorpusTimeIsHonest'
    <3> SUFFICES ASSUME NEW i \in DOMAIN scored',
                        scored'[i].take = scored'[i].cause.take,
                        InOrder(takes[scored'[i].take], scored'[i].cause.record)
                 PROVE  scored'[i].t - takes[scored'[i].take].records[scored'[i].cause.record].t
                            \in 0..(MaxLate + MaxLag)
      BY <1>n DEF CorpusTimeIsHonest, InOrder
    <3>1. \/ i \in DOMAIN scored /\ scored'[i] = scored[i]
          \/ i - Len(scored) \in DOMAIN g /\ scored'[i] = g[i - Len(scored)]
      BY <1>t, <2>5, ConcatElement DEF Collected
    <3>2. CASE i \in DOMAIN scored /\ scored'[i] = scored[i]
      BY <1>h, <3>2 DEF CorpusTimeIsHonest
    <3>3. CASE i - Len(scored) \in DOMAIN g /\ scored'[i] = g[i - Len(scored)]
      <4>1. PICK j \in 1..n : j = i - Len(scored)
        BY <2>5, <3>3 DEF Collected
      <4> QED BY <2>6, <3>3, <4>1
    <3> QED BY <3>1, <3>2, <3>3
  <2> QED BY <1>h, <2>1, <2>2, <2>3, <2>7 DEF HonestInv
<1>5. CASE Hear
  <2>1. /\ flight # <<>> /\ flight' = Tail(flight)
        /\ detections' = Append(detections, [cause |-> Head(flight).cause, t |-> now])
        /\ UNCHANGED <<k, spc, sent, wallOrigin, now, scored>>
    BY <1>5 DEF Hear, runVars
  <2>2. PICK e \in Heard : e = [cause |-> Head(flight).cause, t |-> now]
    <3>1. Head(flight) \in Flying
      BY <1>t, <2>1, HeadTailProperties
    <3> QED BY <1>t, <3>1 DEF Flying, Heard
  <2>3. /\ e.cause = flight[1].cause /\ e.t = now /\ 1 \in DOMAIN flight
        /\ \A i \in DOMAIN flight' : i + 1 \in DOMAIN flight /\ flight'[i] = flight[i + 1]
    BY <1>t, <2>1, <2>2, CausesTail
  <2>4. \A i \in DOMAIN detections' : detections'[i] = e
                                      \/ (i \in DOMAIN detections /\ detections'[i] = detections[i])
    BY <1>t, <2>1, <2>2, CausesAppend
  <2>5. Replaying => Timely(e.cause, e.t, MaxLate + MaxLag)
    <3> SUFFICES ASSUME Replaying, e.cause.take = k, InOrder(Take, e.cause.record)
                 PROVE  DueAt(e.cause.record) <= now /\ now <= DueAt(e.cause.record) + (MaxLate + MaxLag)
      BY <2>3 DEF Timely
    <3>1. PICK at \in Nat : at = flight[1].at
      BY <1>d, <2>3 DEF Flying
    <3>2. at <= now /\ now <= at + MaxLag
      BY <2>3, <3>1 DEF FlightInv
    <3>3. DueAt(e.cause.record) <= at /\ at <= DueAt(e.cause.record) + MaxLate
      BY <1>h, <2>3, <3>1 DEF Timely
    <3>4. DueAt(e.cause.record) \in Int
      BY <1>b, <1>d, <1>r, <2>3
    <3> QED BY <1>t, <3>1, <3>2, <3>3, <3>4
  <2>6. Replaying => /\ \A i \in DOMAIN flight' : Timely(flight'[i].cause, flight'[i].at, MaxLate)
                     /\ \A i \in DOMAIN detections' :
                           Timely(detections'[i].cause, detections'[i].t, MaxLate + MaxLag)
    BY <1>h, <2>3, <2>4, <2>5
  <2>7. Replaying => /\ \A i \in DOMAIN flight' : Timely(flight[i].cause, flight[i].at, MaxLate)'
                     /\ \A i \in DOMAIN detections' :
                           Timely(detections[i].cause, detections[i].t, MaxLate + MaxLag)'
    BY <1>n, <2>1, <2>6 DEF Timely, Take, DueAt
  <2>8. Take' = Take /\ (\A r : DueAt(r)' = DueAt(r)) /\ (Replaying' => Replaying)
    BY <1>u, <2>1 DEF Replaying
  <2> QED BY <1>h, <1>x, <2>1, <2>7, <2>8 DEF HonestInv
<1>6. CASE Tick
  <2>1. /\ now' = now + 1 /\ UNCHANGED <<k, spc, sent, wallOrigin, flight, detections, scored>>
        /\ spc = "play" => sent < Len(Take.records) /\ now < Due + MaxLate
    BY <1>6 DEF Tick, runVars
  <2>2. /\ Take' = Take /\ (\A r : DueAt(r)' = DueAt(r)) /\ (Replaying' => Replaying)
        /\ (\A c, at, late : Timely(c, at, late) => Timely(c, at, late)')
    BY <1>u, <2>1 DEF Replaying
  <2>3. Replaying => /\ \A i \in DOMAIN flight' : Timely(flight[i].cause, flight[i].at, MaxLate)'
                     /\ \A i \in DOMAIN detections' :
                           Timely(detections[i].cause, detections[i].t, MaxLate + MaxLag)'
    BY <1>h, <1>n, <2>1 DEF Timely, Take, DueAt
  <2>4. ASSUME spc = "play" PROVE \E j \in 1..Len(Take.records) : j <= sent + 1 /\ now + 1 <= DueAt(j) + MaxLate
    <3>r. Replaying
      BY <2>4 DEF Replaying
    <3>1. PICK r \in 1..Len(Take.records) : r = sent + 1
      BY <1>r, <1>t, <2>1, <2>4, <3>r
    <3>2. Due <= DueAt(r) /\ Due \in Int
      <4>1. CASE sent = 0
        <5>1. r = 1 /\ origin = None
          BY <3>1, <3>r, <4>1 DEF TakeClock
        <5>2. Due = wallOrigin /\ DueAt(r) = wallOrigin
          BY <1>r, <3>1, <3>r, <5>1 DEF Due, DueAt
        <5> QED BY <1>r, <3>r, <5>2
      <4>2. CASE sent > 0
        <5>1. origin = Take.records[1].t /\ 1 \in 1..Len(Take.records)
          BY <1>r, <1>t, <2>1, <2>4, <3>r, <4>2 DEF TakeClock
        <5>2. origin # None
          BY <1>r, <3>r, <5>1, NoneAssumption
        <5>3. Due = DueAt(r)
          BY <3>1, <5>1, <5>2 DEF Due, DueAt, Upcoming
        <5> QED BY <1>r, <3>1, <3>r, <5>3
      <4> QED BY <1>t, <4>1, <4>2
    <3>3. now + 1 <= DueAt(r) + MaxLate
      BY <1>r, <1>t, <2>1, <2>4, <3>1, <3>2, <3>r
    <3> QED BY <3>1, <3>3
  <2>5. Replaying => wallOrigin <= now + 1
    BY <1>h, <1>r, <1>t
  <2> QED BY <1>x, <2>1, <2>2, <2>3, <2>4, <2>5 DEF HonestInv
<1>7. CASE Check \/ Listen \/ Calibrate \/ SkipTake \/ Clear \/ Merge \/ LastTake \/ Close \/ LogHoldout \/ Fail
  <2>1. scored' = scored /\ ~ Replaying'
    BY <1>7 DEF Check, Listen, Calibrate, SkipTake, Clear, Merge, LastTake, Close, LogHoldout, Fail, Goto, Replaying
  <2> QED BY <1>x, <2>1 DEF HonestInv
<1>8. CASE Match \/ Raise \/ UNCHANGED vars
  <2>1. UNCHANGED <<k, spc, sent, wallOrigin, now, detections, scored>> /\ flight' \in {flight, <<>>}
    BY <1>8 DEF Match, Raise, runVars, vars
  <2>e. DOMAIN <<>> = {}
    OBVIOUS
  <2>2. Take' = Take /\ (\A r : DueAt(r)' = DueAt(r)) /\ (Replaying' => Replaying)
    BY <1>u, <2>1 DEF Replaying
  <2>3. Replaying => /\ \A i \in DOMAIN flight' : Timely(flight[i].cause, flight[i].at, MaxLate)'
                     /\ \A i \in DOMAIN detections' :
                           Timely(detections[i].cause, detections[i].t, MaxLate + MaxLag)'
    BY <1>h, <1>n, <2>e, <2>1 DEF Timely, Take, DueAt
  <2> QED BY <1>h, <1>x, <2>1, <2>2, <2>3 DEF HonestInv
<1> QED BY <1>1, <1>2, <1>3, <1>4, <1>5, <1>6, <1>7, <1>8 DEF Next, Run

-----------------------------------------------------------------------------
(* The invariant, and what it says. *)

ScoringInv == /\ MatchInv /\ MatchTypes /\ RunTypes
              /\ TakeClock /\ IdentityInv /\ FlightInv /\ PromptInv /\ HonestInv

LEMMA ScoringInitHolds == Init => ScoringInv
<1> SUFFICES ASSUME Init PROVE ScoringInv
  OBVIOUS
<1>1. MatchInv /\ MatchTypes /\ RunTypes
  BY InitHolds, ScoringInitTypes DEF Init
<1>2. /\ spc = "check" /\ flight = <<>> /\ detections = <<>> /\ scored = <<>> /\ caused = {}
  BY DEF Init
<1>3. DOMAIN <<>> = {} /\ Causes(<<>>) = {} /\ Once(<<>>)
  BY DEF Causes, Once
<1>4. TakeClock /\ IdentityInv
  BY <1>2, <1>3 DEF TakeClock, Replaying, IdentityInv
<1>5. FlightInv /\ PromptInv
  BY <1>2, <1>3 DEF FlightInv, PromptInv
<1>6. HonestInv
  BY <1>2, <1>3 DEF HonestInv, Replaying, CorpusTimeIsHonest
<1> QED BY <1>1, <1>4, <1>5, <1>6 DEF ScoringInv

LEMMA ScoringInvariant == Spec => []ScoringInv
<1>1. ScoringInv /\ [Next]_vars => ScoringInv'
  BY MatchInvStep, MatchTypesStep, RunTypesStep, TakeClockStep, IdentityStep, FlightStep, PromptStep,
     HonestStep DEF ScoringInv
<1> QED BY <1>1, ScoringInitHolds, PTL DEF Spec

\* The run's types: the take at hand exists, a score is attributed to a detection that was
\* caused, nothing is read before it was sent, and the pooled counts are numbers.
THEOREM ScoringTypeCorrect == Spec => []TypeOK
<1>1. ScoringInv => TypeOK
  <2> SUFFICES ASSUME ScoringInv PROVE TypeOK
    OBVIOUS
  <2> USE DEF ScoringInv
  <2>1. /\ takes \in Corpora /\ k \in 1..(Len(takes) + 1)
        /\ thread \in {"none", "runs", "raised", "stopped"} /\ (flight # <<>> => thread = "runs")
        /\ spc \in {"check", "listen", "calibrate", "take", "begin", "play", "drain", "match", "close", "log",
                    "done", "refused", "failed"}
        /\ now \in Nat /\ until \in Nat /\ sent \in Nat /\ consultations \in 0..1
        /\ origin \in Int \cup {None} /\ wallOrigin \in Nat \cup {None} /\ transport \in {None, Lag}
        /\ caused \subseteq Detection
    BY DEF RunTypes
  <2>2. flight \in Seq(Flying) /\ detections \in Seq(Heard) /\ scored \in Seq(Attributed)
    BY DEF RunTypes, Flying, Heard, Attributed
  <2>3. /\ \A i \in DOMAIN flight : flight[i] \in Flying
        /\ \A i \in DOMAIN detections : detections[i] \in Heard
        /\ \A i \in DOMAIN scored : scored[i] \in Attributed
    BY <2>2, LenProperties, ElementOfSeq
  <2>4. \A i \in DOMAIN flight : flight[i].cause \in Detection /\ flight[i].at <= now
    BY <2>3 DEF Flying, FlightInv
  <2>5. \A i \in DOMAIN detections : detections[i].cause \in Detection /\ detections[i].t \in 0..now
    BY <2>1, <2>3 DEF Heard, FlightInv
  <2>6. \A i \in DOMAIN scored : scored[i].cause \in caused /\ scored[i].t \in Int
    BY <2>3 DEF Attributed, IdentityInv, Causes
  <2>7. mpc \in {"idle", "pair", "counted"} /\ \A f \in DOMAIN overall : overall[f] \in Nat
    BY DEF MatchTypes
  <2> QED BY <2>1, <2>4, <2>5, <2>6, <2>7 DEF TypeOK
<1> QED BY <1>1, ScoringInvariant, PTL

\* scoring.py:285-301: whatever the descriptor answers and whenever the listener's thread
\* runs, no detection is scored twice; and those of a descriptor that answers before the
\* drain is over are scored in the take that caused them, all of them unless the thread raised.
THEOREM DetectionsScoredInTheirTake == Spec => []ScoredInItsTake
<1>1. ScoringInv => ScoredInItsTake
  <2> SUFFICES ASSUME ScoringInv PROVE ScoredInItsTake
    OBVIOUS
  <2>1. \A i, j \in DOMAIN scored : scored[i].cause = scored[j].cause => i = j
    BY DEF ScoringInv, IdentityInv, Once
  <2>2. ASSUME ~ slow, thread # "raised", NEW c \in caused, c.class = Class, c.take < k
        PROVE  \E i \in DOMAIN scored : scored[i].cause = c
    <3>1. k \in Nat
      <4>1. takes \in Seq(Range(takes)) /\ k \in 1..(Len(takes) + 1)
        BY ScoringAssumption DEF ScoringInv, RunTypes
      <4> QED BY <4>1, LenProperties
    <3>2. c \in Causes(scored)
      BY <2>2, <3>1 DEF ScoringInv, PromptInv
    <3> QED BY <3>2 DEF Causes
  <2>3. ~ slow => \A i \in DOMAIN scored : scored[i].cause.take = scored[i].take
    BY DEF ScoringInv, PromptInv
  <2> QED BY <2>1, <2>2, <2>3 DEF ScoredInItsTake
<1> QED BY <1>1, ScoringInvariant, PTL

\* replay.py:164-174: in the corpus's clock, a detection lies after the message that caused
\* it, by no more than that message and the answer were late: of any recording, however its
\* clock started, and whatever earlier takes did to the wall clock.
THEOREM CorpusTimeHonest == Spec => []CorpusTimeIsHonest
<1>1. ScoringInv => CorpusTimeIsHonest
  BY DEF ScoringInv, HonestInv
<1> QED BY <1>1, ScoringInvariant, PTL
-----------------------------------------------------------------------------
(* The order of a gesture's answers *)

Same(c, d) == c.take = d.take /\ c.record = d.record

\* Only gestures are answered, and a second answer comes with a first of its class.
GesturesAnswered ==
    \A c \in caused :
        /\ c.take \in DOMAIN takes /\ c.record \in DOMAIN takes[c.take].records
        /\ takes[c.take].records[c.record].gesture
        /\ c.n = 2 => \E d \in caused : Same(d, c) /\ d.n = 1 /\ d.class = c.class

\* Answers to one gesture leave together, are read in their order, and not far apart.
AnswersInOrder ==
    /\ \A i, j \in DOMAIN flight : i < j /\ Same(flight[i].cause, flight[j].cause) =>
          flight[i].cause.n < flight[j].cause.n /\ flight[i].at = flight[j].at
    /\ \A i \in DOMAIN detections, j \in DOMAIN flight : Same(detections[i].cause, flight[j].cause) =>
          detections[i].cause.n < flight[j].cause.n /\ flight[j].at <= detections[i].t
    /\ \A i, j \in DOMAIN detections : i < j /\ Same(detections[i].cause, detections[j].cause) =>
          /\ detections[i].cause.n < detections[j].cause.n
          /\ detections[i].t <= detections[j].t /\ detections[j].t <= detections[i].t + MaxLag

\* What has been scored belongs to the takes replayed.
ScoredBefore ==
    \A i \in DOMAIN scored :
        /\ scored[i].take <= k
        /\ spc \in {"check", "listen", "calibrate", "take", "begin", "play", "drain"} => scored[i].take < k

\* The times ds being matched are those of the last detections in s, all of one take and no
\* others of it, each answer after the one before it and no more than lag.
ScoredInOrder(s, ds, take, lag) ==
    LET m == Len(s) - Len(ds) IN
    /\ m \in Nat /\ \A i \in 1..m : s[i].take # take
    /\ \A d \in DOMAIN ds : s[m + d].take = take /\ s[m + d].cause.class = Class /\ s[m + d].t = ds[d]
    /\ \A i, j \in DOMAIN ds : i < j /\ Same(s[m + i].cause, s[m + j].cause) =>
          s[m + i].cause.n < s[m + j].cause.n /\ ds[i] <= ds[j] /\ ds[j] <= ds[i] + lag

\* match_take is at the take, and its counts are those of the pairs it made.
Outcome ==
    /\ counts.matched = Cardinality(UsedRefs) /\ counts.settling = Cardinality(Settling(dets, takeStart))
    /\ counts.falsePositives = Cardinality(FalsePositives) /\ counts.doubleFires = Cardinality(DoubleFires)

TakeMatched ==
    spc = "match" =>
        /\ mpc # "idle" /\ refs = References(Take) /\ takeStart = origin
        /\ ScoredInOrder(scored, dets, k, MaxLag)
        /\ mpc = "counted" => cand = {} /\ Outcome

AnswerInv == GesturesAnswered /\ AnswersInOrder /\ ScoredBefore /\ TakeMatched

LEMMA AnswerInitHolds == Init => AnswerInv
<1>1. DOMAIN <<>> = {}
  OBVIOUS
<1> QED BY <1>1 DEF Init, AnswerInv, GesturesAnswered, AnswersInOrder, ScoredBefore, TakeMatched

\* A message is answered only if it is a gesture's, and twice in one class.
LEMMA SendsToGestures ==
    ASSUME RunTypes, SendRecord
    PROVE  /\ caused' \ caused # {} => Upcoming.gesture
           /\ \A c \in caused' \ caused :
                 /\ c.take = k /\ c.record = sent + 1
                 /\ c.n = 2 => \E d \in caused' : Same(d, c) /\ d.n = 1 /\ d.class = c.class
<1>1. PICK answer \in IF Upcoming.gesture THEN {<<>>, <<Class>>, <<Class, Class>>, <<"other">>} ELSE {<<>>} :
         LET new == [i \in DOMAIN answer |-> [take |-> k, record |-> sent + 1, n |-> i, class |-> answer[i]]]
         IN caused' = caused \cup Range(new)
  BY DEF SendRecord
<1>2. PICK new : new = [i \in DOMAIN answer |-> [take |-> k, record |-> sent + 1, n |-> i, class |-> answer[i]]]
  OBVIOUS
<1>3. caused' = caused \cup Range(new) /\ DOMAIN new = DOMAIN answer
  BY <1>1, <1>2
<1>4. \A c \in Range(new) : c.take = k /\ c.record = sent + 1
  BY <1>2, <1>3 DEF Range
<1>5. Range(new) # {} => Upcoming.gesture
  BY <1>1, <1>3 DEF Range
<1>6. ASSUME NEW c \in Range(new), c.n = 2
      PROVE  \E d \in Range(new) : Same(d, c) /\ d.n = 1 /\ d.class = c.class
  <2>1. PICK i \in DOMAIN answer : c = [take |-> k, record |-> sent + 1, n |-> i, class |-> answer[i]]
    BY <1>2, <1>3 DEF Range
  <2>2. 2 \in DOMAIN answer
    BY <1>6, <2>1
  <2>3. answer = <<Class, Class>>
    BY <1>1, <2>2
  <2>4. 1 \in DOMAIN answer /\ answer[1] = answer[2]
    BY <2>3
  <2>5. PICK d : d = [take |-> k, record |-> sent + 1, n |-> 1, class |-> answer[1]]
    OBVIOUS
  <2>6. d \in Range(new)
    BY <1>2, <1>3, <2>4, <2>5 DEF Range
  <2> QED BY <1>6, <2>1, <2>4, <2>5, <2>6 DEF Same
<1> QED BY <1>3, <1>4, <1>5, <1>6

LEMMA GesturesAnsweredStep ==
    RunTypes /\ GesturesAnswered /\ [Next]_vars => GesturesAnswered'
<1> SUFFICES ASSUME RunTypes, GesturesAnswered, [Next]_vars PROVE GesturesAnswered'
  OBVIOUS
<1>1. takes' = takes
  BY InputsKept
<1>2. CASE SendRecord
  <2>1. InTake /\ sent < Len(Take.records) /\ sent \in Nat
    BY <1>2 DEF SendRecord, InTake, RunTypes
  <2>2. /\ k \in DOMAIN takes /\ Len(Take.records) \in Nat
        /\ DOMAIN Take.records = 1..Len(Take.records)
    BY <2>1, TakeTyped, LenProperties
  <2>3. sent + 1 \in DOMAIN Take.records
    BY <2>1, <2>2
  <2>4. caused \subseteq caused'
    BY <1>2, Sends
  <2>5. ASSUME NEW c \in caused' \ caused
        PROVE  /\ c.take \in DOMAIN takes /\ c.record \in DOMAIN takes[c.take].records
               /\ takes[c.take].records[c.record].gesture
               /\ c.n = 2 => \E d \in caused' : Same(d, c) /\ d.n = 1 /\ d.class = c.class
    <3>1. /\ Upcoming.gesture /\ c.take = k /\ c.record = sent + 1
          /\ c.n = 2 => \E d \in caused' : Same(d, c) /\ d.n = 1 /\ d.class = c.class
      BY <1>2, <2>5, SendsToGestures
    <3> QED BY <2>2, <2>3, <3>1 DEF Upcoming, Take
  <2>6. ASSUME NEW c \in caused
        PROVE  /\ c.take \in DOMAIN takes /\ c.record \in DOMAIN takes[c.take].records
               /\ takes[c.take].records[c.record].gesture
               /\ c.n = 2 => \E d \in caused' : Same(d, c) /\ d.n = 1 /\ d.class = c.class
    BY <2>4, <2>6 DEF GesturesAnswered
  <2> QED BY <1>1, <2>5, <2>6 DEF GesturesAnswered
<1>3. CASE ~ SendRecord
  <2>1. caused' = caused
    BY <1>3 DEF Next, Run, Check, Listen, Calibrate, SkipTake, Clear, BeginPlay, EndPlay, Collect, Match,
         Merge, LastTake, Close, LogHoldout, Fail, Hear, Raise, Tick, vars
  <2> QED BY <1>1, <2>1 DEF GesturesAnswered
<1> QED BY <1>2, <1>3

\* Append(f, e) is f with e behind it.
LEMMA AppendLast ==
    ASSUME NEW S, NEW f \in Seq(S), NEW e \in S
    PROVE  \A i \in DOMAIN Append(f, e) :
              \/ i \in DOMAIN f /\ i <= Len(f) /\ Append(f, e)[i] = f[i]
              \/ i = Len(f) + 1 /\ Append(f, e)[i] = e
<1>1. PICK n \in Nat : n = Len(f)
  BY LenProperties
<1>2. DOMAIN f = 1..n /\ DOMAIN Append(f, e) = 1..(n + 1)
  BY <1>1, LenProperties, AppendProperties
<1>3. /\ \A i \in 1..n : Append(f, e)[i] = f[i]
      /\ Append(f, e)[n + 1] = e
  BY <1>1, AppendProperties
<1>4. \A i \in 1..(n + 1) : (i \in 1..n /\ i <= n) \/ i = n + 1
  OBVIOUS
<1> QED BY <1>1, <1>2, <1>3, <1>4

LEMMA AnswersInOrderStep ==
    RunTypes /\ IdentityInv /\ FlightInv /\ AnswersInOrder /\ [Next]_vars => AnswersInOrder'
<1> SUFFICES ASSUME RunTypes, IdentityInv, FlightInv, AnswersInOrder, [Next]_vars
             PROVE  AnswersInOrder'
  OBVIOUS
<1>s. MaxLag' = MaxLag /\ MaxLag \in Nat
  BY InputsKept, MayLag
<1>t. /\ flight \in Seq(Flying) /\ detections \in Seq(Heard) /\ now \in Nat
      /\ DOMAIN flight = 1..Len(flight) /\ Len(flight) \in Nat
      /\ DOMAIN detections = 1..Len(detections) /\ Len(detections) \in Nat
  <2>1. flight \in Seq(Flying) /\ detections \in Seq(Heard)
    BY DEF RunTypes, Flying, Heard
  <2> QED BY <2>1, LenProperties DEF RunTypes
<1>d. /\ \A i \in DOMAIN flight : flight[i] \in Flying /\ flight[i].cause \in caused
      /\ \A i \in DOMAIN detections : detections[i] \in Heard /\ detections[i].cause \in caused
  <2>1. /\ \A i \in DOMAIN flight : flight[i] \in Flying
        /\ \A i \in DOMAIN detections : detections[i] \in Heard
    BY <1>t, ElementOfSeq
  <2> QED BY <2>1 DEF IdentityInv, Causes
<1>n. /\ \A i \in DOMAIN flight : flight[i].at \in Nat
      /\ \A i \in DOMAIN detections : detections[i].t \in Nat
  BY <1>d DEF Flying, Heard
<1>a. /\ \A i, j \in DOMAIN flight : i < j /\ Same(flight[i].cause, flight[j].cause) =>
          flight[i].cause.n < flight[j].cause.n /\ flight[i].at = flight[j].at
      /\ \A i \in DOMAIN detections, j \in DOMAIN flight : Same(detections[i].cause, flight[j].cause) =>
          detections[i].cause.n < flight[j].cause.n /\ flight[j].at <= detections[i].t
      /\ \A i, j \in DOMAIN detections : i < j /\ Same(detections[i].cause, detections[j].cause) =>
          /\ detections[i].cause.n < detections[j].cause.n
          /\ detections[i].t <= detections[j].t /\ detections[j].t <= detections[i].t + MaxLag
  BY DEF AnswersInOrder
<1>1. CASE SendRecord
  <2>1. detections' = detections
    BY <1>1 DEF SendRecord
  <2>2. PICK g \in Seq(Flying) :
              /\ flight' = flight \o g
              /\ \A i \in DOMAIN g : /\ g[i].at = now /\ g[i].cause.take = k
                                     /\ g[i].cause.record = sent + 1 /\ g[i].cause.n = i
    BY <1>1, Sends
  <2>3. \A i \in DOMAIN flight' :
              \/ i \in DOMAIN flight /\ flight'[i] = flight[i]
              \/ i - Len(flight) \in DOMAIN g /\ i > Len(flight) /\ flight'[i] = g[i - Len(flight)]
    BY <1>t, <2>2, ConcatElement
  <2>4. ASSUME NEW c \in caused, NEW i \in DOMAIN g PROVE ~ Same(c, g[i].cause)
    <3>1. sent \in Nat /\ k \in Nat /\ c.take \in Nat /\ c.record \in Nat
      <4>1. takes \in Seq(Range(takes))
        BY ScoringAssumption DEF RunTypes
      <4>2. Len(takes) \in Nat
        BY <4>1, LenProperties
      <4> QED BY <4>2 DEF RunTypes, Detection
    <3>2. c.take < k \/ c.record <= sent
      BY DEF IdentityInv
    <3> QED BY <2>2, <3>1, <3>2 DEF Same
  <2>5. ASSUME NEW i \in DOMAIN flight', NEW j \in DOMAIN flight', i < j,
               Same(flight'[i].cause, flight'[j].cause)
        PROVE  flight'[i].cause.n < flight'[j].cause.n /\ flight'[i].at = flight'[j].at
    <3>1. i \in Int /\ j \in Int
      <4>1. flight' \in Seq(Flying)
        BY <1>t, <2>2, ConcatProperties
      <4>2. DOMAIN flight' = 1..Len(flight') /\ Len(flight') \in Nat
        BY <4>1, LenProperties
      <4> QED BY <4>2
    <3>2. CASE i \in DOMAIN flight /\ flight'[i] = flight[i] /\ j \in DOMAIN flight /\ flight'[j] = flight[j]
      BY <1>a, <2>5, <3>2
    <3>3. CASE i \in DOMAIN flight /\ flight'[i] = flight[i]
               /\ j - Len(flight) \in DOMAIN g /\ flight'[j] = g[j - Len(flight)]
      BY <1>d, <2>4, <2>5, <3>3
    <3>4. CASE i - Len(flight) \in DOMAIN g /\ i > Len(flight) /\ flight'[i] = g[i - Len(flight)]
      <4>1. j \notin DOMAIN flight
        BY <1>t, <2>5, <3>1, <3>4
      <4>2. j - Len(flight) \in DOMAIN g /\ flight'[j] = g[j - Len(flight)]
        BY <2>3, <4>1
      <4>3. i - Len(flight) < j - Len(flight)
        BY <1>t, <2>5, <3>1
      <4> QED BY <2>2, <3>4, <4>2, <4>3
    <3> QED BY <2>3, <3>2, <3>3, <3>4
  <2>6. ASSUME NEW i \in DOMAIN detections, NEW j \in DOMAIN flight',
               Same(detections[i].cause, flight'[j].cause)
        PROVE  detections[i].cause.n < flight'[j].cause.n /\ flight'[j].at <= detections[i].t
    BY <1>a, <1>d, <2>3, <2>4, <2>6
  <2> QED BY <1>a, <1>s, <2>1, <2>5, <2>6 DEF AnswersInOrder
<1>2. CASE Hear
  <2>1. /\ flight # <<>> /\ flight' = Tail(flight)
        /\ detections' = Append(detections, [cause |-> Head(flight).cause, t |-> now])
    BY <1>2 DEF Hear
  <2>2. PICK e \in Heard : e = [cause |-> Head(flight).cause, t |-> now]
    <3>1. Head(flight) \in Flying
      BY <1>t, <2>1, HeadTailProperties
    <3> QED BY <1>t, <3>1 DEF Flying, Heard
  <2>3. /\ e.cause = flight[1].cause /\ e.t = now /\ 1 \in DOMAIN flight
        /\ \A i \in DOMAIN flight' :
              i \in Nat /\ i >= 1 /\ i + 1 \in DOMAIN flight /\ flight'[i] = flight[i + 1]
    BY <1>t, <2>1, <2>2, CausesTail
  <2>4. \A i \in DOMAIN detections' :
              \/ i \in DOMAIN detections /\ i <= Len(detections) /\ detections'[i] = detections[i]
              \/ i = Len(detections) + 1 /\ detections'[i] = e
    BY <1>t, <2>1, <2>2, AppendLast
  <2>5. flight[1].at <= now /\ now <= flight[1].at + MaxLag
    BY <2>3 DEF FlightInv
  <2>6. ASSUME NEW i \in DOMAIN flight', NEW j \in DOMAIN flight', i < j,
               Same(flight'[i].cause, flight'[j].cause)
        PROVE  flight'[i].cause.n < flight'[j].cause.n /\ flight'[i].at = flight'[j].at
    <3>1. i + 1 < j + 1
      BY <2>3, <2>6
    <3> QED BY <1>a, <2>3, <2>6, <3>1
  <2>7. ASSUME NEW i \in DOMAIN detections', NEW j \in DOMAIN flight',
               Same(detections'[i].cause, flight'[j].cause)
        PROVE  detections'[i].cause.n < flight'[j].cause.n /\ flight'[j].at <= detections'[i].t
    <3>1. PICK h \in DOMAIN flight : h = j + 1 /\ flight'[j] = flight[h] /\ 1 < h
      BY <2>3
    <3>2. CASE i \in DOMAIN detections /\ detections'[i] = detections[i]
      BY <1>a, <2>7, <3>1, <3>2
    <3>3. CASE detections'[i] = e
      <4>1. flight[1].cause.n < flight[h].cause.n /\ flight[1].at = flight[h].at
        BY <1>a, <2>3, <2>7, <3>1, <3>3
      <4> QED BY <2>3, <2>5, <3>1, <3>3, <4>1
    <3> QED BY <2>4, <3>2, <3>3
  <2>8. ASSUME NEW i \in DOMAIN detections', NEW j \in DOMAIN detections', i < j,
               Same(detections'[i].cause, detections'[j].cause)
        PROVE  /\ detections'[i].cause.n < detections'[j].cause.n
               /\ detections'[i].t <= detections'[j].t /\ detections'[j].t <= detections'[i].t + MaxLag
    <3>1. i \in DOMAIN detections /\ detections'[i] = detections[i]
      <4>1. j <= Len(detections) + 1 /\ j \in Int
        BY <1>t, <2>4
      <4>2. i # Len(detections) + 1
        BY <1>t, <2>8, <4>1
      <4> QED BY <2>4, <4>2
    <3>2. CASE j \in DOMAIN detections /\ detections'[j] = detections[j]
      BY <1>a, <2>8, <3>1, <3>2
    <3>3. CASE detections'[j] = e
      <4>1. detections[i].cause.n < flight[1].cause.n /\ flight[1].at <= detections[i].t
        BY <1>a, <2>3, <2>8, <3>1, <3>3
      <4>2. detections[i].t <= now
        BY <3>1 DEF FlightInv
      <4>3. PICK at \in Nat, t \in Nat, l \in Nat : at = flight[1].at /\ t = detections[i].t /\ l = MaxLag
        BY <1>n, <1>s, <2>3, <3>1
      <4>4. now <= t + l
        BY <1>t, <2>5, <4>1, <4>3
      <4> QED BY <2>3, <3>1, <3>3, <4>1, <4>2, <4>3, <4>4
    <3> QED BY <2>4, <3>2, <3>3
  <2> QED BY <1>s, <2>6, <2>7, <2>8 DEF AnswersInOrder
<1>3. CASE Clear \/ Collect
  <2>1. flight' = flight /\ detections' = <<>>
    BY <1>3 DEF Clear, Collect
  <2> QED BY <1>a, <2>1 DEF AnswersInOrder
<1>4. CASE Close \/ Raise
  <2>1. flight' = <<>> /\ detections' = detections
    BY <1>4 DEF Close, Raise
  <2> QED BY <1>a, <1>s, <2>1 DEF AnswersInOrder
<1>5. CASE Check \/ Listen \/ Calibrate \/ SkipTake \/ BeginPlay \/ EndPlay \/ Match \/ Merge \/ LastTake
           \/ LogHoldout \/ Fail \/ Tick \/ UNCHANGED vars
  <2>1. UNCHANGED <<flight, detections>>
    BY <1>5 DEF Check, Listen, Calibrate, SkipTake, BeginPlay, EndPlay, Match, Merge, LastTake, LogHoldout, Fail,
                Tick, vars
  <2> QED BY <1>a, <1>s, <2>1 DEF AnswersInOrder
<1> QED BY <1>1, <1>2, <1>3, <1>4, <1>5 DEF Next, Run

\* A take's scores are its own until the next one begins.
LEMMA ScoredBeforeStep == RunTypes /\ ScoredBefore /\ [Next]_vars => ScoredBefore'
<1> SUFFICES ASSUME RunTypes, ScoredBefore, [Next]_vars PROVE ScoredBefore'
  OBVIOUS
<1>t. /\ scored \in Seq(Attributed) /\ k \in Nat
      /\ \A i \in DOMAIN scored : scored[i].take \in Nat
  <2>1. takes \in Seq(Range(takes))
    BY ScoringAssumption DEF RunTypes
  <2>2. Len(takes) \in Nat
    BY <2>1, LenProperties
  <2>3. scored \in Seq(Attributed)
    BY DEF RunTypes, Attributed
  <2>4. \A i \in DOMAIN scored : scored[i] \in Attributed
    BY <2>3, LenProperties, ElementOfSeq
  <2> QED BY <2>2, <2>3, <2>4 DEF RunTypes, Attributed
<1>1. CASE Collect
  <2>1. PICK n \in Nat : \E a \in [1..n -> DOMAIN detections], g \in Seq(Attributed) : Collected(n, a, g)
    BY <1>1, Collects
  <2>2. PICK a \in [1..n -> DOMAIN detections], g \in Seq(Attributed) : Collected(n, a, g)
    BY <2>1
  <2>c. scored' = scored \o g /\ \A i \in DOMAIN g : g[i].take = k
    BY <2>2 DEF Collected
  <2>3. \A i \in DOMAIN scored' : scored'[i].take <= k
    BY <1>t, <2>c, ConcatElement DEF ScoredBefore
  <2>4. k' = k /\ spc' = "match"
    BY <1>1 DEF Collect, Goto
  <2> QED BY <2>3, <2>4 DEF ScoredBefore
<1>2. CASE Merge \/ SkipTake
  <2>1. k' = k + 1 /\ scored' = scored
    BY <1>2 DEF Merge, SkipTake
  <2> QED BY <1>t, <2>1 DEF ScoredBefore
<1>3. CASE Check \/ Listen \/ Calibrate \/ Clear \/ BeginPlay \/ SendRecord \/ EndPlay \/ Match \/ LastTake \/ Close
           \/ LogHoldout \/ Fail \/ Hear \/ Raise \/ Tick \/ UNCHANGED vars
  <2>1. /\ UNCHANGED <<scored, k>>
        /\ (spc' \in {"check", "listen", "calibrate", "take", "begin", "play", "drain"} =>
               spc \in {"check", "listen", "calibrate", "take", "begin", "play", "drain"})
    BY <1>3 DEF Check, Listen, Calibrate, Clear, BeginPlay, SendRecord, EndPlay, Match, LastTake, Close, LogHoldout,
                Fail, Hear, Raise, Tick, Goto, runVars, vars
  <2> QED BY <2>1 DEF ScoredBefore
<1> QED BY <1>1, <1>2, <1>3 DEF Next, Run

\* The mapping into corpus time keeps the order of detections, and how far apart they are.
LEMMA CorpusTimeKeepsOrder ==
    ASSUME RunTypes, NEW x \in Int, NEW y \in Int, NEW lag \in Nat, x <= y, y <= x + lag
    PROVE  /\ ToCorpusTime(x) <= ToCorpusTime(y)
           /\ ToCorpusTime(y) <= ToCorpusTime(x) + lag
<1>1. CASE origin = None \/ wallOrigin = None
  BY <1>1 DEF ToCorpusTime
<1>2. CASE origin # None /\ wallOrigin # None
  <2>1. PICK o \in Int, w \in Int : o = origin /\ w = wallOrigin
    BY <1>2 DEF RunTypes
  <2>2. ToCorpusTime(x) = o + (x - w) /\ ToCorpusTime(y) = o + (y - w)
    BY <1>2, <2>1 DEF ToCorpusTime
  <2> QED BY <2>1, <2>2
<1> QED BY <1>1, <1>2

\* Collect scores the take's detections in the order they were heard in.
LEMMA CollectsInOrder ==
    ASSUME RunTypes, AnswersInOrder, ScoredBefore, Collect
    PROVE  ScoredInOrder(scored', dets', k, MaxLag)
<1>1. PICK n \in Nat : \E a \in [1..n -> DOMAIN detections], g \in Seq(Attributed) : Collected(n, a, g)
  BY Collects
<1>2. PICK a \in [1..n -> DOMAIN detections], g \in Seq(Attributed) : Collected(n, a, g)
  BY <1>1
<1>3. /\ scored' = scored \o g /\ DOMAIN g = 1..n /\ Increasing(a, n)
      /\ dets' = [i \in 1..n |-> g[i].t] /\ dets' \in Seq(Int)
      /\ \A i \in 1..n : /\ g[i].cause = detections[a[i]].cause /\ g[i].take = k
                         /\ g[i].cause.class = Class
                         /\ g[i].t = ToCorpusTime(detections[a[i]].t)
  BY <1>2 DEF Collected
<1>4. PICK m \in Nat : m = Len(scored) /\ scored \in Seq(Attributed) /\ DOMAIN scored = 1..m
  BY LenProperties DEF RunTypes, Attributed
<1>5. Len(g) = n /\ Len(dets') = n /\ DOMAIN dets' = 1..n
  BY <1>2, <1>3, LenProperties
<1>6. Len(scored') = m + n
  BY <1>2, <1>3, <1>4, <1>5, ConcatProperties
<1>7. \A i \in 1..(m + n) : scored'[i] = IF i <= m THEN scored[i] ELSE g[i - m]
  BY <1>2, <1>3, <1>4, <1>5, ConcatProperties
<1>8. ASSUME NEW i \in 1..m PROVE scored'[i].take # k
  <2>1. scored'[i] = scored[i]
    BY <1>7
  <2>2. scored[i] \in Attributed
    BY <1>4, ElementOfSeq
  <2>3. scored[i].take < k
    BY <1>4 DEF ScoredBefore, Collect
  <2>4. k \in Nat
    BY TakeTyped DEF Collect, InTake
  <2> QED BY <2>1, <2>2, <2>3, <2>4 DEF Attributed
<1>9. ASSUME NEW d \in 1..n PROVE scored'[m + d] = g[d] /\ dets'[d] = g[d].t
  <2>1. PICK j \in 1..(m + n) : j = m + d /\ ~ (j <= m) /\ j - m = d
    OBVIOUS
  <2>2. scored'[j] = g[d]
    BY <1>7, <2>1
  <2>3. dets'[d] = g[d].t
    BY <1>3
  <2> QED BY <2>1, <2>2, <2>3
<1>10. ASSUME NEW i \in 1..n, NEW j \in 1..n, i < j, Same(g[i].cause, g[j].cause)
       PROVE  /\ g[i].cause.n < g[j].cause.n
              /\ g[i].t <= g[j].t /\ g[j].t <= g[i].t + MaxLag
  <2>1. PICK p \in DOMAIN detections, q \in DOMAIN detections : p = a[i] /\ q = a[j]
    OBVIOUS
  <2>2. p < q
    BY <1>3, <1>10, <2>1 DEF Increasing
  <2>3. /\ g[i].cause = detections[p].cause /\ g[i].t = ToCorpusTime(detections[p].t)
        /\ g[j].cause = detections[q].cause /\ g[j].t = ToCorpusTime(detections[q].t)
    BY <1>3, <2>1
  <2>4. /\ detections[p].cause.n < detections[q].cause.n
        /\ detections[p].t <= detections[q].t /\ detections[q].t <= detections[p].t + MaxLag
    BY <1>10, <2>2, <2>3 DEF AnswersInOrder
  <2>5. detections[p].t \in Int /\ detections[q].t \in Int
    <3>1. detections \in Seq(Heard)
      BY DEF RunTypes, Heard
    <3>2. detections[p] \in Heard /\ detections[q] \in Heard
      BY <3>1, LenProperties, ElementOfSeq
    <3> QED BY <3>2 DEF Heard
  <2>6. PICK l \in Nat : l = MaxLag
    BY MayLag
  <2>7. PICK x \in Int, y \in Int : x = detections[p].t /\ y = detections[q].t
    BY <2>5
  <2>8. ToCorpusTime(x) <= ToCorpusTime(y) /\ ToCorpusTime(y) <= ToCorpusTime(x) + l
    BY <2>4, <2>6, <2>7, CorpusTimeKeepsOrder
  <2> QED BY <2>3, <2>4, <2>6, <2>7, <2>8
<1>11. Len(scored') - Len(dets') = m
  BY <1>5, <1>6
<1>12. /\ \A d \in DOMAIN dets' : /\ scored'[m + d].take = k /\ scored'[m + d].cause.class = Class
                                  /\ scored'[m + d].t = dets'[d]
       /\ \A i, j \in DOMAIN dets' : i < j /\ Same(scored'[m + i].cause, scored'[m + j].cause) =>
             /\ scored'[m + i].cause.n < scored'[m + j].cause.n
             /\ dets'[i] <= dets'[j] /\ dets'[j] <= dets'[i] + MaxLag
  <2>1. \A d \in 1..n : scored'[m + d] = g[d] /\ dets'[d] = g[d].t
    BY <1>9
  <2>2. \A d \in 1..n : g[d].take = k /\ g[d].cause.class = Class
    BY <1>3
  <2>3. \A i, j \in 1..n : i < j /\ Same(g[i].cause, g[j].cause) =>
           /\ g[i].cause.n < g[j].cause.n
           /\ g[i].t <= g[j].t /\ g[j].t <= g[i].t + MaxLag
    BY <1>10
  <2>4. ASSUME NEW d \in 1..n
        PROVE  /\ scored'[m + d].take = k /\ scored'[m + d].cause.class = Class
               /\ scored'[m + d].t = dets'[d]
    BY <2>1, <2>2
  <2>5. ASSUME NEW i \in 1..n, NEW j \in 1..n, i < j, Same(scored'[m + i].cause, scored'[m + j].cause)
        PROVE  /\ scored'[m + i].cause.n < scored'[m + j].cause.n
               /\ dets'[i] <= dets'[j] /\ dets'[j] <= dets'[i] + MaxLag
    <3>1. scored'[m + i] = g[i] /\ scored'[m + j] = g[j] /\ dets'[i] = g[i].t /\ dets'[j] = g[j].t
      BY <2>1
    <3> QED BY <2>3, <2>5, <3>1
  <2> QED BY <1>5, <2>4, <2>5
<1> QED BY <1>8, <1>11, <1>12 DEF ScoredInOrder

LEMMA TakeMatchedStep ==
    RunTypes /\ AnswersInOrder /\ ScoredBefore /\ TakeMatched /\ [Next]_vars => TakeMatched'
<1> SUFFICES ASSUME RunTypes, AnswersInOrder, ScoredBefore, TakeMatched, [Next]_vars, spc' = "match"
             PROVE  TakeMatched'
  BY DEF TakeMatched
<1>s. MaxLag' = MaxLag /\ takes' = takes
  BY InputsKept
<1>1. CASE Collect
  <2>1. /\ k' = k /\ origin' = origin /\ refs' = References(Take) /\ takeStart' = origin /\ mpc' = "pair"
    BY <1>1 DEF Collect, MatchTake
  <2>2. ScoredInOrder(scored', dets', k, MaxLag)
    BY <1>1, CollectsInOrder
  <2>3. Take' = Take
    BY <1>s, <2>1 DEF Take
  <2> QED BY <1>s, <2>1, <2>2, <2>3 DEF TakeMatched
<1>2. CASE Match
  <2>1. /\ spc = "match" /\ UNCHANGED <<k, origin, scored, refs, dets, takeStart>>
        /\ Take' = Take
    BY <1>2, <1>s DEF Match, runVars, Matches, PairNearest, CountOutcomes, Take
  <2>2. /\ refs' = References(Take') /\ takeStart' = origin'
        /\ ScoredInOrder(scored', dets', k', MaxLag')
    BY <1>s, <2>1 DEF TakeMatched
  <2>3. CASE PairNearest
    <3>1. mpc' = "pair"
      BY <2>3 DEF PairNearest
    <3> QED BY <2>2, <3>1 DEF TakeMatched
  <2>4. CASE CountOutcomes
    <3>1. mpc' = "counted" /\ cand' = {} /\ UNCHANGED <<refs, dets, takeStart, pairs>>
      BY <2>4 DEF CountOutcomes
    <3>2. /\ counts'.matched = Cardinality(UsedRefs) /\ counts'.settling = Cardinality(Settling(dets, takeStart))
          /\ counts'.falsePositives = Cardinality(FalsePositives)
          /\ counts'.doubleFires = Cardinality(DoubleFires)
      BY <2>4 DEF CountOutcomes
    <3>3. /\ UsedRefs' = UsedRefs /\ FalsePositives' = FalsePositives /\ DoubleFires' = DoubleFires
      BY <3>1 DEF UsedRefs, FalsePositives, DoubleFires, Usable, UsedDets
    <3>4. Outcome'
      BY <3>1, <3>2, <3>3 DEF Outcome
    <3> QED BY <2>2, <3>1, <3>4 DEF TakeMatched
  <2> QED BY <1>2, <2>3, <2>4 DEF Match, Matches
<1>3. CASE Hear \/ Raise \/ UNCHANGED vars
  <2>1. UNCHANGED <<matchVars, spc, k, origin, scored>>
    BY <1>3 DEF Hear, Raise, runVars, vars
  <2>2. UNCHANGED <<refs, dets, takeStart, cand, pairs, counts, mpc>> /\ Take' = Take
    BY <1>s, <2>1 DEF matchVars, Take
  <2>3. Outcome' = Outcome
    BY <2>2 DEF Outcome, UsedRefs, FalsePositives, DoubleFires, Usable, UsedDets
  <2> QED BY <1>s, <2>1, <2>2, <2>3 DEF TakeMatched
<1>4. CASE Check \/ Listen \/ Calibrate \/ SkipTake \/ Clear \/ BeginPlay \/ SendRecord \/ EndPlay \/ Merge \/ LastTake
           \/ Close \/ LogHoldout \/ Fail \/ Tick
  <2>1. spc' # "match"
    BY <1>4 DEF Check, Listen, Calibrate, SkipTake, Clear, BeginPlay, SendRecord, EndPlay, Merge, LastTake, Close,
                LogHoldout, Fail, Tick, Goto, runVars
  <2> QED BY <2>1
<1> QED BY <1>1, <1>2, <1>3, <1>4 DEF Next, Run

LEMMA AnswersInvariant == Spec => [](ScoringInv /\ AnswerInv)
<1>1. ScoringInv /\ AnswerInv /\ [Next]_vars => ScoringInv' /\ AnswerInv'
  BY MatchInvStep, MatchTypesStep, RunTypesStep, TakeClockStep, IdentityStep, FlightStep, PromptStep,
     HonestStep, GesturesAnsweredStep, AnswersInOrderStep, ScoredBeforeStep, TakeMatchedStep
     DEF ScoringInv, AnswerInv
<1>2. Init => ScoringInv /\ AnswerInv
  BY ScoringInitHolds, AnswerInitHolds
<1> QED BY <1>1, <1>2, PTL DEF Spec

-----------------------------------------------------------------------------
(* What a prompt descriptor's detections are paired with, and how they are counted *)

\* A detection within `late` of its own time is as near as that to it, and not so near to a
\* time that lies more than twice as far from its own.
LEMMA OwnTimeIsNearest ==
    ASSUME NEW x \in Int, NEW own \in Int, NEW other \in Int, NEW late \in Nat, x - own \in 0..late
    PROVE  /\ Abs(x - own) = x - own
           /\ Abs(own - other) > 2 * late => Abs(x - other) > late
BY DEF Abs

\* Nor does it come shortly after another that is as near to a time as far away.
LEMMA NoDoubleOfAnother ==
    ASSUME NEW x \in Int, NEW own \in Int, NEW y \in Int, NEW other \in Int,
           NEW late \in Nat, NEW window \in Nat,
           x - own \in 0..late, y - other \in 0..late, Abs(own - other) > window + late
    PROVE  x - y \notin 0..window
BY DEF Abs

\* h tells of each detection being matched what caused it: all the detections of the take
\* that are of the class, each within MaxLate + Lag of its gesture, a second answer behind
\* the first.
CausedBy(h) ==
    /\ h \in [DOMAIN dets -> caused]
    /\ \A d, e \in DOMAIN dets : h[d] = h[e] => d = e
    /\ \A c \in caused : c.take = k /\ c.class = Class => \E d \in DOMAIN dets : h[d] = c
    /\ \A d \in DOMAIN dets :
          /\ h[d].take = k /\ h[d].class = Class /\ h[d].n \in 1..2 /\ h[d].record \in Gestures(Take)
          /\ dets[d] - Take.records[h[d].record].t \in 0..(MaxLate + Lag)
          /\ \E i \in DOMAIN scored : scored[i].cause = h[d] /\ scored[i].t = dets[d]
    /\ \A d, e \in DOMAIN dets : h[d].record = h[e].record /\ h[d].n = 1 /\ h[e].n = 2 =>
          d < e /\ dets[d] <= dets[e] /\ dets[e] <= dets[d] + Lag

LEMMA DetectionsCaused ==
    ASSUME ScoringInv, AnswerInv, spc = "match", ~ slow, thread # "raised", ClearCut(Take)
    PROVE  \E h : CausedBy(h)
<1>t. RunTypes /\ InTake /\ Take = takes[k]
  BY DEF ScoringInv, InTake, Take
<1>l. MaxLag = Lag
  BY DEF MaxLag
<1>1. PICK m \in Nat : m = Len(scored) - Len(dets)
  BY DEF AnswerInv, TakeMatched, ScoredInOrder
<1>2. PICK n \in Nat : n = Len(dets) /\ DOMAIN dets = 1..n
  BY LenProperties DEF ScoringInv, MatchTypes
<1>3. Len(scored) = m + n /\ DOMAIN scored = 1..(m + n) /\ scored \in Seq(Attributed)
  <2>1. scored \in Seq(Attributed)
    BY <1>t DEF RunTypes, Attributed
  <2>2. Len(scored) \in Nat /\ DOMAIN scored = 1..Len(scored)
    BY <2>1, LenProperties
  <2> QED BY <1>1, <1>2, <2>1, <2>2
<1>4. ScoredInOrder(scored, dets, k, Lag)
  BY <1>l DEF AnswerInv, TakeMatched
<1>5. /\ \A i \in 1..m : scored[i].take # k
      /\ \A d \in 1..n : /\ scored[m + d].take = k /\ scored[m + d].cause.class = Class
                         /\ scored[m + d].t = dets[d]
      /\ \A i, j \in 1..n : i < j /\ Same(scored[m + i].cause, scored[m + j].cause) =>
            /\ scored[m + i].cause.n < scored[m + j].cause.n
            /\ dets[i] <= dets[j] /\ dets[j] <= dets[i] + Lag
  BY <1>1, <1>2, <1>4 DEF ScoredInOrder
<1>6. PICK h : h = [d \in 1..n |-> scored[m + d].cause]
  OBVIOUS
<1>7. ASSUME NEW d \in 1..n
      PROVE  \E i \in 1..(m + n) : i = m + d /\ h[d] = scored[i].cause /\ scored[i].take = k
                                    /\ scored[i].cause.class = Class /\ scored[i].t = dets[d]
  <2>1. PICK i \in 1..(m + n) : i = m + d
    OBVIOUS
  <2> QED BY <1>5, <1>6, <2>1
<1>8. ASSUME NEW d \in 1..n
      PROVE  /\ h[d] \in caused /\ h[d].take = k /\ h[d].class = Class /\ h[d].n \in 1..2
             /\ h[d].record \in Gestures(Take)
             /\ dets[d] - Take.records[h[d].record].t \in 0..(MaxLate + Lag)
             /\ \E i \in DOMAIN scored : scored[i].cause = h[d] /\ scored[i].t = dets[d]
  <2>1. PICK i \in DOMAIN scored : /\ h[d] = scored[i].cause /\ scored[i].take = k
                                   /\ scored[i].cause.class = Class /\ scored[i].t = dets[d]
    BY <1>3, <1>7
  <2>2. h[d] \in caused
    BY <2>1 DEF ScoringInv, IdentityInv, Causes
  <2>3. h[d].take = k
    BY <2>1 DEF ScoringInv, PromptInv
  <2>4. h[d].n \in 1..2
    BY <1>t, <2>2 DEF RunTypes, Detection
  <2>5. h[d].record \in DOMAIN Take.records /\ Take.records[h[d].record].gesture
    BY <1>t, <2>2, <2>3 DEF AnswerInv, GesturesAnswered
  <2>6. InOrder(Take, h[d].record)
    BY <2>5 DEF ClearCut
  <2>7. dets[d] - Take.records[h[d].record].t \in 0..(MaxLate + Lag)
    BY <1>l, <1>t, <2>1, <2>3, <2>6 DEF ScoringInv, HonestInv, CorpusTimeIsHonest
  <2> QED BY <2>1, <2>2, <2>3, <2>4, <2>5, <2>7 DEF Gestures
<1>9. ASSUME NEW d \in 1..n, NEW e \in 1..n, h[d] = h[e] PROVE d = e
  <2>1. PICK i \in 1..(m + n), j \in 1..(m + n) :
           i = m + d /\ j = m + e /\ h[d] = scored[i].cause /\ h[e] = scored[j].cause
    BY <1>7
  <2>2. i = j
    BY <1>3, <1>9, <2>1 DEF ScoringInv, IdentityInv, Once
  <2> QED BY <2>1, <2>2
<1>10. ASSUME NEW c \in caused, c.take = k, c.class = Class PROVE \E d \in 1..n : h[d] = c
  <2>1. flight = <<>> /\ detections = <<>>
    BY DEF ScoringInv, PromptInv
  <2>2. Causes(<<>>) = {}
    BY DEF Causes
  <2>3. c \in Causes(scored)
    BY <1>10, <2>1, <2>2 DEF ScoringInv, PromptInv
  <2>4. PICK i \in 1..(m + n) : scored[i].cause = c
    BY <1>3, <2>3 DEF Causes
  <2>5. scored[i].take = k
    BY <1>3, <1>10, <2>4 DEF ScoringInv, PromptInv
  <2>6. i \notin 1..m
    BY <1>5, <2>5
  <2>7. PICK d \in 1..n : i = m + d
    <3>1. i - m \in 1..n /\ i = m + (i - m)
      BY <2>6
    <3> QED BY <3>1
  <2> QED BY <1>6, <2>4, <2>7
<1>11. ASSUME NEW d \in 1..n, NEW e \in 1..n, h[d].record = h[e].record, h[d].n = 1, h[e].n = 2
       PROVE  d < e /\ dets[d] <= dets[e] /\ dets[e] <= dets[d] + Lag
  <2>1. /\ h[d] = scored[m + d].cause /\ h[e] = scored[m + e].cause
        /\ Same(h[d], h[e]) /\ Same(h[e], h[d])
    BY <1>6, <1>8, <1>11 DEF Same
  <2>2. d # e
    BY <1>11
  <2>3. ~ (e < d)
    BY <1>5, <1>11, <2>1
  <2>4. d < e
    BY <2>2, <2>3
  <2> QED BY <1>5, <2>1, <2>4
<1>12. h \in [1..n -> caused]
  BY <1>6, <1>8
<1>13. CausedBy(h)
  BY <1>2, <1>8, <1>9, <1>10, <1>11, <1>12 DEF CausedBy
<1> QED BY <1>13

\* The references of a clear-cut take, and its gestures.
LEMMA ClearReferences ==
    ASSUME ScoringInv, AnswerInv, spc = "match", ClearCut(Take)
    PROVE  /\ \A g \in Gestures(Take) : Take.records[g].t \in Int
           /\ \A r \in DOMAIN refs : refs[r] \in Int
           /\ \A g \in Gestures(Take) : \E r \in DOMAIN refs : refs[r] = Take.records[g].t
           /\ \A r \in DOMAIN refs : \E g \in Gestures(Take) : refs[r] = Take.records[g].t
           /\ \A q, r \in DOMAIN refs : refs[q] = refs[r] => q = r
<1>1. refs = References(Take)
  BY DEF AnswerInv, TakeMatched
<1>2. Range(refs) = {Take.records[i].t : i \in Gestures(Take)} /\ IsInjective(refs)
  BY <1>1 DEF ClearCut
<1>3. \A g \in Gestures(Take) : Take.records[g].t \in Int
  <2>1. RunTypes /\ InTake
    BY DEF ScoringInv, InTake
  <2>2. DOMAIN Take.records = 1..Len(Take.records)
    BY <2>1, TakeTyped, LenProperties
  <2> QED BY <2>1, <2>2, TakeTyped DEF Gestures
<1>4. \A r \in DOMAIN refs : refs[r] \in Int
  <2>1. refs \in Seq(Int)
    BY DEF ScoringInv, MatchTypes
  <2> QED BY <2>1, LenProperties, ElementOfSeq
<1> QED BY <1>2, <1>3, <1>4 DEF Range, IsInjective

\* None of the take's detections lies in the settling period.
LEMMA NoneSettling ==
    ASSUME ScoringInv, AnswerInv, spc = "match", ClearCut(Take), NEW h, CausedBy(h)
    PROVE  Settling(dets, takeStart) = {}
<1>1. takeStart = origin /\ RunTypes /\ InTake /\ Replaying /\ TakeClock
  BY DEF AnswerInv, TakeMatched, ScoringInv, InTake, Replaying
<1>2. ASSUME NEW d \in DOMAIN dets, takeStart # None PROVE ~ (dets[d] - takeStart < Warmup)
  <2>1. PICK g \in Gestures(Take) : dets[d] - Take.records[g].t \in 0..(MaxLate + Lag)
    BY DEF CausedBy
  <2>2. g \in 1..Len(Take.records) /\ Len(Take.records) \in Nat
    <3>1. DOMAIN Take.records = 1..Len(Take.records)
      BY <1>1, TakeTyped, LenProperties
    <3> QED BY <1>1, <3>1, TakeTyped DEF Gestures
  <2>3. takeStart = Take.records[1].t
    BY <1>1, <1>2 DEF TakeClock, RunTypes
  <2>4. PICK t \in Int, t1 \in Int, x \in Int : t = Take.records[g].t /\ t1 = Take.records[1].t /\ x = dets[d]
    <3>1. 1 \in 1..Len(Take.records)
      BY <2>2
    <3>2. dets[d] \in Int
      BY LenProperties, ElementOfSeq DEF ScoringInv, MatchTypes
    <3> QED BY <1>1, <2>2, <3>1, <3>2, TakeTyped
  <2>5. t - t1 >= Warmup
    BY <2>1, <2>4 DEF ClearCut
  <2> QED BY <2>1, <2>3, <2>4, <2>5, TicksAssumption
<1> QED BY <1>2 DEF Settling

\* The gestures of a clear-cut take are far apart; in particular, no two come at one time.
LEMMA GesturesApart ==
    ASSUME ScoringInv, AnswerInv, spc = "match", ClearCut(Take),
           NEW g \in Gestures(Take), NEW f \in Gestures(Take), g # f
    PROVE  /\ Abs(Take.records[g].t - Take.records[f].t) > 2 * (MaxLate + Lag)
           /\ Abs(Take.records[g].t - Take.records[f].t) > DoubleFireWindow + (MaxLate + Lag)
           /\ Take.records[g].t # Take.records[f].t
<1>1. /\ Abs(Take.records[g].t - Take.records[f].t) > 2 * (MaxLate + Lag)
      /\ Abs(Take.records[g].t - Take.records[f].t) > DoubleFireWindow + (MaxLate + Lag)
  BY DEF ClearCut
<1>2. PICK x \in Int, y \in Int, late \in Nat :
         x = Take.records[g].t /\ y = Take.records[f].t /\ late = MaxLate + Lag
  <2>1. MaxLate + Lag \in Nat
    BY ScoringAssumption
  <2> QED BY <2>1, ClearReferences
<1>3. Abs(x - y) > 2 * late => x # y
  BY DEF Abs
<1> QED BY <1>1, <1>2, <1>3

\* Every gesture that was answered has a first answer among the detections.
LEMMA FirstAnswer ==
    ASSUME ScoringInv, AnswerInv, NEW h, CausedBy(h),
           NEW g \in Gestures(Take), Answers(k, g) # {}
    PROVE  \E d \in DOMAIN dets : h[d].n = 1 /\ h[d].record = g
<1>1. PICK c \in caused : c.take = k /\ c.record = g /\ c.class = Class
  BY DEF Answers
<1>2. c.n \in 1..2
  BY DEF ScoringInv, RunTypes, Detection
<1>3. PICK b \in caused : b.take = k /\ b.record = g /\ b.class = Class /\ b.n = 1
  <2>1. CASE c.n = 1
    BY <1>1, <2>1
  <2>2. CASE c.n = 2
    BY <1>1, <2>2 DEF AnswerInv, GesturesAnswered, Same
  <2> QED BY <1>2, <2>1, <2>2
<1> QED BY <1>3 DEF CausedBy

\* The first answers are paired, each with its own gesture's reference, and nothing else is.
LEMMA FirstAnswersPaired ==
    ASSUME ScoringInv, AnswerInv, spc = "match", mpc = "counted", ClearCut(Take),
           MaxLate + Lag <= Tolerance, NEW h, CausedBy(h),
           \A g \in Gestures(Take) : Answers(k, g) # {}
    PROVE  /\ UsedRefs = DOMAIN refs
           /\ UsedDets = {d \in DOMAIN dets : h[d].n = 1}
<1> DEFINE Time(d) == Take.records[h[d].record].t
<1>l. PICK late \in Nat : late = MaxLate + Lag /\ late <= Tolerance
  <2>1. MaxLate + Lag \in Nat
    BY ScoringAssumption
  <2> QED BY <2>1
<1>t. /\ \A d \in DOMAIN dets : dets[d] \in Int /\ Time(d) \in Int /\ dets[d] - Time(d) \in 0..late
      /\ \A r \in DOMAIN refs : refs[r] \in Int
      /\ DOMAIN dets \subseteq Nat /\ DOMAIN refs \subseteq Nat
  <2>1. \A d \in DOMAIN dets : dets[d] \in Int
    BY LenProperties, ElementOfSeq DEF ScoringInv, MatchTypes
  <2>2. DOMAIN dets \subseteq Nat /\ DOMAIN refs \subseteq Nat
    <3>1. /\ DOMAIN dets = 1..Len(dets) /\ Len(dets) \in Nat
          /\ DOMAIN refs = 1..Len(refs) /\ Len(refs) \in Nat
      BY LenProperties DEF ScoringInv, MatchTypes
    <3> QED BY <3>1
  <2> QED BY <1>l, <2>1, <2>2, ClearReferences DEF CausedBy
<1>r. ASSUME NEW d \in DOMAIN dets, NEW e \in DOMAIN dets, Time(d) = Time(e)
      PROVE  h[d].record = h[e].record
  <2>1. h[d].record \in Gestures(Take) /\ h[e].record \in Gestures(Take)
    BY DEF CausedBy
  <2> QED BY <1>r, <2>1, GesturesApart
<1>1. ASSUME NEW r \in DOMAIN refs
      PROVE  \E d \in DOMAIN dets : h[d].n = 1 /\ refs[r] = Time(d)
  <2>1. PICK g \in Gestures(Take) : refs[r] = Take.records[g].t
    BY ClearReferences
  <2>2. PICK d \in DOMAIN dets : h[d].n = 1 /\ h[d].record = g
    BY FirstAnswer
  <2> QED BY <2>1, <2>2
<1>2. ASSUME NEW r \in DOMAIN refs, NEW d \in DOMAIN dets, refs[r] = Time(d)
      PROVE  Abs(dets[d] - refs[r]) = dets[d] - refs[r] /\ Abs(dets[d] - refs[r]) <= late
  <2>1. PICK x \in Int, own \in Int : x = dets[d] /\ own = Time(d) /\ own = refs[r] /\ x - own \in 0..late
    BY <1>2, <1>t
  <2>2. Abs(x - own) = x - own
    BY <2>1, OwnTimeIsNearest
  <2> QED BY <2>1, <2>2
<1>3. ASSUME NEW r \in DOMAIN refs, NEW d \in DOMAIN dets, refs[r] # Time(d)
      PROVE  Abs(dets[d] - refs[r]) > late
  <2>1. PICK f \in Gestures(Take) : refs[r] = Take.records[f].t
    BY ClearReferences
  <2>2. PICK g \in Gestures(Take) : g = h[d].record
    BY DEF CausedBy
  <2>3. Abs(Take.records[g].t - Take.records[f].t) > 2 * late
    BY <1>3, <1>l, <2>1, <2>2, GesturesApart
  <2>4. PICK x \in Int, own \in Int, other \in Int :
           x = dets[d] /\ own = Time(d) /\ other = refs[r] /\ x - own \in 0..late
    BY <1>t
  <2>5. Abs(own - other) > 2 * late
    BY <2>1, <2>2, <2>3, <2>4
  <2> QED BY <2>4, <2>5, OwnTimeIsNearest
<1>4. ASSUME NEW r \in DOMAIN refs, NEW d \in DOMAIN dets, refs[r] = Time(d)
      PROVE  <<r, d>> \in All
  <2>1. Settling(dets, takeStart) = {}
    BY NoneSettling
  <2>2. Abs(dets[d] - refs[r]) <= Tolerance
    <3>1. Abs(dets[d] - refs[r]) = dets[d] - refs[r] /\ Abs(dets[d] - refs[r]) <= late
      BY <1>2, <1>4
    <3> QED BY <1>l, <1>t, <3>1, TicksAssumption
  <2> QED BY <2>1, <2>2 DEF All, Candidates
<1>5. ASSUME NEW r \in DOMAIN refs, NEW d \in DOMAIN dets, refs[r] = Time(d), h[d].n = 1
      PROVE  <<r, d>> \in pairs
  <2> SUFFICES ASSUME <<r, d>> \notin pairs PROVE FALSE
    OBVIOUS
  <2>1. cand = {} /\ <<r, d>> \in All
    BY <1>4, <1>5 DEF AnswerInv, TakeMatched
  <2>2. PICK p \in pairs : Conflict(p, <<r, d>>) /\ Earlier(p, <<r, d>>)
    BY <2>1 DEF ScoringInv, MatchInv, RefusedLost
  <2>3. p \in All
    BY <2>2 DEF ScoringInv, MatchInv
  <2>4. PICK q \in DOMAIN refs, e \in DOMAIN dets : p = <<q, e>>
    BY <2>3 DEF All, Candidates
  <2>5. /\ \/ Abs(dets[e] - refs[q]) < Abs(dets[d] - refs[r])
           \/ Abs(dets[e] - refs[q]) = Abs(dets[d] - refs[r]) /\ (q < r \/ (q = r /\ e < d))
        /\ q = r \/ e = d
    BY <2>2, <2>4 DEF Earlier, Distance, Conflict
  <2>6. refs[q] = Time(e)
    <3> SUFFICES ASSUME refs[q] # Time(e) PROVE FALSE
      OBVIOUS
    <3>1. Abs(dets[e] - refs[q]) > late
      BY <1>3
    <3>2. Abs(dets[d] - refs[r]) <= late
      BY <1>2, <1>5
    <3>3. PICK a \in Int, b \in Int : a = Abs(dets[e] - refs[q]) /\ b = Abs(dets[d] - refs[r])
      BY <1>t DEF Abs
    <3> QED BY <2>5, <3>1, <3>2, <3>3
  <2>7. q = r
    <3>1. e = d => refs[q] = refs[r]
      BY <1>5, <2>6
    <3> QED BY <2>5, <3>1, ClearReferences
  <2>8. h[e].record = h[d].record
    BY <1>5, <1>r, <2>6, <2>7
  <2>9. h[e].n \in 1..2
    BY DEF CausedBy
  <2>10. Abs(dets[e] - refs[r]) = dets[e] - refs[r] /\ Abs(dets[d] - refs[r]) = dets[d] - refs[r]
    BY <1>2, <1>5, <2>6, <2>7
  <2>i. PICK i \in Nat, j \in Nat, v \in Nat, x \in Int, y \in Int, t \in Int :
           i = d /\ j = e /\ v = r /\ x = dets[d] /\ y = dets[e] /\ t = refs[r]
    BY <1>t
  <2>o. y - t < x - t \/ (y - t = x - t /\ (v < v \/ j < i))
    BY <2>5, <2>7, <2>10, <2>i
  <2>11. CASE h[e].n = 1
    <3>1. h[e] = h[d]
      <4>1. h[e] \in Detection /\ h[d] \in Detection
        BY DEF CausedBy, ScoringInv, RunTypes
      <4>2. h[e].take = h[d].take /\ h[e].class = h[d].class
        BY DEF CausedBy
      <4> QED BY <1>5, <2>8, <2>11, <4>1, <4>2 DEF Detection
    <3>2. e = d
      BY <3>1 DEF CausedBy
    <3> QED BY <2>i, <2>o, <3>2
  <2>12. CASE h[e].n = 2
    <3>1. d < e /\ dets[d] <= dets[e]
      BY <1>5, <2>8, <2>12 DEF CausedBy
    <3> QED BY <2>i, <2>o, <3>1
  <2> QED BY <2>9, <2>11, <2>12
<1>6. ASSUME NEW p \in pairs
      PROVE  p[1] \in DOMAIN refs /\ p[2] \in DOMAIN dets /\ h[p[2]].n = 1
  <2>1. p[1] \in DOMAIN refs /\ p \in All
    BY DEF ScoringInv, MatchInv, All, Candidates
  <2>2. PICK d \in DOMAIN dets : h[d].n = 1 /\ refs[p[1]] = Time(d)
    BY <1>1, <2>1
  <2>3. <<p[1], d>> \in pairs
    BY <1>5, <2>1, <2>2
  <2>4. p = <<p[1], d>>
    BY <2>3 DEF ScoringInv, MatchInv, OneToOne, Conflict
  <2>5. p[2] = d
    BY <2>4
  <2> QED BY <2>1, <2>2, <2>5
<1>7. DOMAIN refs \subseteq UsedRefs
  <2>1. ASSUME NEW r \in DOMAIN refs PROVE r \in UsedRefs
    <3>1. PICK d \in DOMAIN dets : h[d].n = 1 /\ refs[r] = Time(d)
      BY <1>1
    <3>2. <<r, d>> \in pairs
      BY <1>5, <3>1
    <3> QED BY <3>2 DEF UsedRefs
  <2> QED BY <2>1
<1>8. ASSUME NEW d \in DOMAIN dets, h[d].n = 1 PROVE d \in UsedDets
  <2>1. h[d].record \in Gestures(Take)
    BY DEF CausedBy
  <2>2. PICK r \in DOMAIN refs : refs[r] = Time(d)
    BY <2>1, ClearReferences
  <2>3. <<r, d>> \in pairs
    BY <1>5, <1>8, <2>2
  <2> QED BY <2>3 DEF UsedDets
<1> QED BY <1>6, <1>7, <1>8 DEF UsedRefs, UsedDets

\* The corpus time at which a detection that was scored was heard, as the property has it.
At(c)       == (CHOOSE s \in Range(scored) : s.cause = c).t
Together(c) == \E d \in Answers(k, c.record) : d.n = 1 /\ At(d) = At(c)
Second      == {c \in caused : c.take = k /\ c.class = Class /\ c.n = 2}

LEMMA TimeOfCause ==
    ASSUME ScoringInv, NEW h, CausedBy(h), NEW d \in DOMAIN dets
    PROVE  At(h[d]) = dets[d]
<1>1. PICK i \in DOMAIN scored : scored[i].cause = h[d] /\ scored[i].t = dets[d]
  BY DEF CausedBy
<1>2. scored[i] \in Range(scored)
  BY DEF Range
<1>3. ASSUME NEW s \in Range(scored), s.cause = h[d] PROVE s = scored[i]
  <2>1. PICK j \in DOMAIN scored : s = scored[j]
    BY DEF Range
  <2> QED BY <1>1, <1>3, <2>1 DEF ScoringInv, IdentityInv, Once
<1>4. PICK s : s = CHOOSE x \in Range(scored) : x.cause = h[d]
  OBVIOUS
<1>5. s \in Range(scored) /\ s.cause = h[d]
  BY <1>1, <1>2, <1>4
<1> QED BY <1>1, <1>3, <1>4, <1>5 DEF At

\* A second answer is a double fire unless it was read together with the first.
LEMMA SecondAnswers ==
    ASSUME ScoringInv, AnswerInv, spc = "match", mpc = "counted", ClearCut(Take),
           MaxLate + Lag <= Tolerance, Lag <= DoubleFireWindow, NEW h, CausedBy(h),
           \A g \in Gestures(Take) : Answers(k, g) # {}
    PROVE  /\ FalsePositives = {d \in DOMAIN dets : h[d].n = 2 /\ Together(h[d])}
           /\ DoubleFires = {d \in DOMAIN dets : h[d].n = 2 /\ ~ Together(h[d])}
<1> DEFINE Time(d) == Take.records[h[d].record].t
<1>l. PICK late \in Nat, lag \in Nat : late = MaxLate + Lag /\ lag = Lag /\ lag <= DoubleFireWindow
  <2>1. MaxLate + Lag \in Nat /\ Lag \in Nat
    BY ScoringAssumption
  <2> QED BY <2>1
<1>t. \A d \in DOMAIN dets : dets[d] \in Int /\ Time(d) \in Int /\ dets[d] - Time(d) \in 0..late
  <2>1. \A d \in DOMAIN dets : dets[d] \in Int
    BY LenProperties, ElementOfSeq DEF ScoringInv, MatchTypes
  <2> QED BY <1>l, <2>1, ClearReferences DEF CausedBy
<1>1. /\ Usable = DOMAIN dets
      /\ UsedDets = {d \in DOMAIN dets : h[d].n = 1}
  BY NoneSettling, FirstAnswersPaired DEF Usable
<1>2. Usable \ UsedDets = {d \in DOMAIN dets : h[d].n = 2}
  <2>1. \A d \in DOMAIN dets : h[d].n \in 1..2
    BY DEF CausedBy
  <2> QED BY <1>1, <2>1
<1>3. ASSUME NEW d \in DOMAIN dets, h[d].n = 2
      PROVE  \E e \in DOMAIN dets : /\ h[e].n = 1 /\ h[e].record = h[d].record
                                    /\ dets[e] <= dets[d] /\ dets[d] <= dets[e] + lag
  <2>1. PICK g \in Gestures(Take) : g = h[d].record
    BY DEF CausedBy
  <2>2. PICK e \in DOMAIN dets : h[e].n = 1 /\ h[e].record = g
    BY <2>1, FirstAnswer
  <2> QED BY <1>3, <1>l, <2>1, <2>2 DEF CausedBy
<1>4. ASSUME NEW d \in DOMAIN dets, h[d].n = 2, NEW e \in DOMAIN dets, h[e].n = 1,
             h[e].record # h[d].record
      PROVE  dets[d] - dets[e] \notin 1..DoubleFireWindow
  <2>1. PICK g \in Gestures(Take), f \in Gestures(Take) : g = h[d].record /\ f = h[e].record /\ g # f
    BY <1>4 DEF CausedBy
  <2>2. Abs(Time(d) - Time(e)) > DoubleFireWindow + late
    BY <1>l, <2>1, GesturesApart
  <2>3. PICK x \in Int, own \in Int, y \in Int, other \in Int :
           /\ x = dets[d] /\ own = Time(d) /\ x - own \in 0..late
           /\ y = dets[e] /\ other = Time(e) /\ y - other \in 0..late
    BY <1>t
  <2>4. Abs(own - other) > DoubleFireWindow + late
    BY <2>2, <2>3
  <2>5. x - y \notin 0..DoubleFireWindow
    BY <2>3, <2>4, NoDoubleOfAnother, TicksAssumption
  <2> QED BY <2>3, <2>5, TicksAssumption
<1>5. ASSUME NEW d \in DOMAIN dets, NEW e \in DOMAIN dets, h[d].n = 1, h[e].n = 1,
             h[d].record = h[e].record
      PROVE  d = e
  <2>1. h[d] \in Detection /\ h[e] \in Detection /\ h[d].take = h[e].take /\ h[d].class = h[e].class
    BY DEF CausedBy, ScoringInv, RunTypes
  <2>2. h[d] = h[e]
    BY <1>5, <2>1 DEF Detection
  <2> QED BY <2>2 DEF CausedBy
<1>6. ASSUME NEW d \in DOMAIN dets, h[d].n = 2, NEW e \in DOMAIN dets, h[e].n = 1,
             h[e].record = h[d].record
      PROVE  Together(h[d]) <=> dets[e] = dets[d]
  <2>1. At(h[d]) = dets[d] /\ At(h[e]) = dets[e]
    BY TimeOfCause
  <2>2. h[e] \in Answers(k, h[d].record)
    BY <1>6 DEF CausedBy, Answers
  <2>3. ASSUME NEW c \in Answers(k, h[d].record), c.n = 1 PROVE c = h[e]
    <3>1. PICK b \in DOMAIN dets : h[b] = c
      BY DEF CausedBy, Answers
    <3>2. h[b].n = 1 /\ h[b].record = h[e].record
      BY <1>6, <2>3, <3>1 DEF Answers
    <3> QED BY <1>5, <1>6, <3>1, <3>2
  <2> QED BY <1>6, <2>1, <2>2, <2>3 DEF Together
<1>7. ASSUME NEW d \in DOMAIN dets, h[d].n = 2
      PROVE  d \in DoubleFires <=> ~ Together(h[d])
  <2>1. PICK e \in DOMAIN dets : /\ h[e].n = 1 /\ h[e].record = h[d].record
                                 /\ dets[e] <= dets[d] /\ dets[d] <= dets[e] + lag
    BY <1>3, <1>7
  <2>2. d \in DoubleFires <=> \E m \in UsedDets : dets[d] - dets[m] \in 1..DoubleFireWindow
    BY <1>2, <1>7 DEF DoubleFires
  <2>3. \A m \in UsedDets : m # e => dets[d] - dets[m] \notin 1..DoubleFireWindow
    BY <1>1, <1>4, <1>5, <1>7, <2>1
  <2>4. e \in UsedDets
    BY <1>1, <2>1
  <2>5. dets[d] - dets[e] \in 1..DoubleFireWindow <=> dets[e] # dets[d]
    <3>1. PICK x \in Int, y \in Int : x = dets[d] /\ y = dets[e] /\ y <= x /\ x <= y + lag
      BY <1>t, <2>1
    <3> QED BY <1>l, <3>1, TicksAssumption
  <2> QED BY <1>6, <1>7, <2>1, <2>2, <2>3, <2>4, <2>5
<1>8. DoubleFires \subseteq Usable \ UsedDets
  BY DEF DoubleFires
<1> QED BY <1>2, <1>7, <1>8 DEF FalsePositives

\* A one-to-one image has as many members.
LEMMA AsMany ==
    ASSUME NEW D, IsFiniteSet(D), NEW B, NEW f \in [D -> B],
           \A d, e \in D : f[d] = f[e] => d = e,
           \A b \in B : \E d \in D : f[d] = b
    PROVE  Cardinality(B) = Cardinality(D)
<1>1. f \in Surjection(D, B)
  BY DEF Surjection
<1>2. f \in Injection(D, B)
  BY DEF Injection, IsInjective
<1> QED BY <1>1, <1>2, FS_Surjection

\* As many detections were heard of a kind of answer as were caused.
LEMMA AsManyHeard ==
    ASSUME ScoringInv, NEW h, CausedBy(h), NEW D \in SUBSET (DOMAIN dets), NEW B \in SUBSET Second,
           \A d \in DOMAIN dets : h[d] \in B <=> d \in D
    PROVE  Cardinality(D) = Cardinality(B)
<1>1. IsFiniteSet(D)
  <2>1. DOMAIN dets = 1..Len(dets) /\ Len(dets) \in Nat
    BY LenProperties DEF ScoringInv, MatchTypes
  <2>2. IsFiniteSet(DOMAIN dets)
    BY <2>1, FS_Interval
  <2> QED BY <2>2, FS_Subset
<1>2. PICK f : f = [d \in D |-> h[d]]
  OBVIOUS
<1>3. f \in [D -> B] /\ \A d, e \in D : f[d] = f[e] => d = e
  BY <1>2 DEF CausedBy
<1>4. ASSUME NEW b \in B PROVE \E d \in D : f[d] = b
  <2>1. b \in caused /\ b.take = k /\ b.class = Class
    BY DEF Second
  <2>2. PICK d \in DOMAIN dets : h[d] = b
    BY <2>1 DEF CausedBy
  <2> QED BY <1>2, <2>2
<1> QED BY <1>1, <1>3, <1>4, AsMany

\* A clear-cut take has as many references as gestures.
LEMMA AsManyReferences ==
    ASSUME ScoringInv, AnswerInv, spc = "match", ClearCut(Take)
    PROVE  Cardinality(DOMAIN refs) = Cardinality(Gestures(Take))
<1>1. IsFiniteSet(DOMAIN refs)
  <2>1. DOMAIN refs = 1..Len(refs) /\ Len(refs) \in Nat
    BY LenProperties DEF ScoringInv, MatchTypes
  <2> QED BY <2>1, FS_Interval
<1>2. PICK f : f = [r \in DOMAIN refs |-> CHOOSE g \in Gestures(Take) : refs[r] = Take.records[g].t]
  OBVIOUS
<1>3. \A r \in DOMAIN refs : f[r] \in Gestures(Take) /\ refs[r] = Take.records[f[r]].t
  BY <1>2, ClearReferences
<1>4. f \in [DOMAIN refs -> Gestures(Take)]
  BY <1>2, <1>3
<1>5. \A q, r \in DOMAIN refs : f[q] = f[r] => q = r
  BY <1>3, ClearReferences
<1>6. ASSUME NEW g \in Gestures(Take) PROVE \E r \in DOMAIN refs : f[r] = g
  <2>1. PICK r \in DOMAIN refs : refs[r] = Take.records[g].t
    BY ClearReferences
  <2>2. f[r] = g
    BY <1>3, <2>1, GesturesApart
  <2> QED BY <2>2
<1> QED BY <1>1, <1>4, <1>5, <1>6, AsMany

\* docs/EVALUATION.md 2: whatever the scheduler does to the replay and to the listener, and
\* whatever it answered in other takes, a descriptor that answers every gesture of a
\* clear-cut take within the tolerance is credited with all of them, and each second answer
\* is counted once, as a double fire if it was read after the first.
THEOREM PromptAnswersCounted == Spec => []PromptAnswersAllCount
<1>1. ASSUME ScoringInv, AnswerInv PROVE PromptAnswersAllCount
  <2> SUFFICES ASSUME mpc = "counted", spc = "match", ~ slow, thread # "raised", ClearCut(Take),
                      MaxLate + Lag <= Tolerance, Lag <= DoubleFireWindow,
                      \A g \in Gestures(Take) : Answers(k, g) # {}
               PROVE  /\ counts.matched = Cardinality(Gestures(Take)) /\ counts.settling = 0
                      /\ counts.falsePositives + counts.doubleFires = Cardinality(Second)
                      /\ counts.doubleFires >= Cardinality({c \in Second : ~ Together(c)})
    BY DEF PromptAnswersAllCount, Second, Together, At
  <2>1. PICK h : CausedBy(h)
    BY <1>1, DetectionsCaused
  <2>2. /\ counts.matched = Cardinality(UsedRefs) /\ counts.settling = Cardinality(Settling(dets, takeStart))
        /\ counts.falsePositives = Cardinality(FalsePositives)
        /\ counts.doubleFires = Cardinality(DoubleFires)
    BY <1>1 DEF AnswerInv, TakeMatched, Outcome
  <2>3. counts.settling = 0
    BY <1>1, <2>1, <2>2, NoneSettling, FS_EmptySet
  <2>4. counts.matched = Cardinality(Gestures(Take))
    <3>1. UsedRefs = DOMAIN refs
      BY <1>1, <2>1, FirstAnswersPaired
    <3> QED BY <1>1, <2>2, <3>1, AsManyReferences
  <2>5. /\ FalsePositives = {d \in DOMAIN dets : h[d].n = 2 /\ Together(h[d])}
        /\ DoubleFires = {d \in DOMAIN dets : h[d].n = 2 /\ ~ Together(h[d])}
    BY <1>1, <2>1, SecondAnswers
  <2>6. \A d \in DOMAIN dets : h[d] \in Second <=> h[d].n = 2
    BY <2>1 DEF CausedBy, Second
  <2>7. FalsePositives \cap DoubleFires = {}
        /\ FalsePositives \cup DoubleFires = {d \in DOMAIN dets : h[d].n = 2}
    BY <2>5
  <2>8. Cardinality({d \in DOMAIN dets : h[d].n = 2}) = Cardinality(Second)
    BY <1>1, <2>1, <2>6, AsManyHeard
  <2>9. /\ IsFiniteSet(FalsePositives) /\ IsFiniteSet(DoubleFires)
        /\ Cardinality(FalsePositives) \in Nat /\ Cardinality(DoubleFires) \in Nat
    <3>1. DOMAIN dets = 1..Len(dets) /\ Len(dets) \in Nat
      BY <1>1, LenProperties DEF ScoringInv, MatchTypes
    <3>2. IsFiniteSet(DOMAIN dets)
      BY <3>1, FS_Interval
    <3>3. FalsePositives \subseteq DOMAIN dets /\ DoubleFires \subseteq DOMAIN dets
      BY <2>5
    <3> QED BY <3>2, <3>3, FS_Subset, FS_CardinalityType
  <2>10. Cardinality(FalsePositives) + Cardinality(DoubleFires) = Cardinality(Second)
    <3>1. Cardinality(FalsePositives \cup DoubleFires)
            = Cardinality(FalsePositives) + Cardinality(DoubleFires) - Cardinality({})
      BY <2>7, <2>9, FS_Union
    <3>2. Cardinality({}) = 0
      BY FS_EmptySet
    <3>3. Cardinality(FalsePositives \cup DoubleFires) = Cardinality(Second)
      BY <2>7, <2>8
    <3> QED BY <2>9, <3>1, <3>2, <3>3
  <2>11. PICK B : B = {c \in Second : ~ Together(c)}
    OBVIOUS
  <2>12. Cardinality(DoubleFires) = Cardinality(B)
    BY <1>1, <2>1, <2>5, <2>6, <2>11, AsManyHeard
  <2> QED BY <2>2, <2>3, <2>4, <2>9, <2>10, <2>11, <2>12
<1> QED BY <1>1, AnswersInvariant, PTL
=============================================================================

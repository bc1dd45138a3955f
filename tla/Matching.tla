------------------------------ MODULE Matching ------------------------------
(***************************************************************************)
(* metrics.match_take: detections are paired with references, nearest      *)
(* first, and every detection and every reference gets one outcome.        *)
(*                                                                         *)
(* Candidate pairs are visited one at a time in the order of the sorted    *)
(* list: distance, then reference, then detection.  Times are in ticks; a  *)
(* detection keeps its index in the list it arrived in, which orders the   *)
(* ones left after the settling period as their own list does.             *)
(***************************************************************************)
EXTENDS Integers, Sequences, FiniteSets

CONSTANTS
    None,              \* Python's None
    Tolerance,         \* tolerance_s
    Warmup,            \* warmup_s
    DoubleFireWindow   \* DOUBLE_FIRE_WINDOW_S

ASSUME NoneAssumption  == None \notin Int
ASSUME TicksAssumption == Tolerance \in Nat /\ Warmup \in Nat /\ DoubleFireWindow \in Nat

VARIABLES
    refs,        \* onsets of the references, in the order of the label events
    dets,        \* times of the detections, in the order they arrived
    ambient,     \* is_ambient
    takeStart,   \* take_start
    cand,        \* candidate pairs not yet visited
    pairs,       \* the pairs made: <<reference, detection>>
    counts,      \* the Counts of the take
    mpc          \* where match_take is

matchVars == <<refs, dets, ambient, takeStart, cand, pairs, counts, mpc>>

-----------------------------------------------------------------------------
(* Pairs *)

Abs(x) == IF x < 0 THEN -x ELSE x

Settling(ds, start) == {d \in DOMAIN ds : start # None /\ ds[d] - start < Warmup}

Candidates(rs, ds, start) ==
    {p \in (DOMAIN rs) \X (DOMAIN ds \ Settling(ds, start)) : Abs(ds[p[2]] - rs[p[1]]) <= Tolerance}

Distance(p) == Abs(dets[p[2]] - refs[p[1]])

\* The order of candidates.sort().
Earlier(p, q) ==
    \/ Distance(p) < Distance(q)
    \/ Distance(p) = Distance(q) /\ p[1] < q[1]
    \/ Distance(p) = Distance(q) /\ p[1] = q[1] /\ p[2] < q[2]

Conflict(p, q) == p[1] = q[1] \/ p[2] = q[2]

Free(p) == \A q \in pairs : ~ Conflict(p, q)

-----------------------------------------------------------------------------
(* Outcomes *)

Usable    == DOMAIN dets \ Settling(dets, takeStart)
UsedRefs  == {p[1] : p \in pairs}
UsedDets  == {p[2] : p \in pairs}
Missed    == DOMAIN refs \ UsedRefs

\* Mutant: a detection that was paired counts as well.
MutDoubleFires ==
    {d \in Usable : \E m \in UsedDets : dets[d] - dets[m] \in 0..DoubleFireWindow}

DoubleFires ==
    {d \in Usable \ UsedDets : \E m \in UsedDets : dets[d] - dets[m] \in 1..DoubleFireWindow}

FalsePositives == (Usable \ UsedDets) \ DoubleFires

NoCounts == [references |-> 0, matched |-> 0, detections |-> 0, falsePositives |-> 0,
             ambientFalsePositives |-> 0, doubleFires |-> 0, settling |-> 0]

-----------------------------------------------------------------------------
(* match_take *)

MatchInit ==
    /\ refs = <<>> /\ dets = <<>> /\ ambient = FALSE /\ takeStart = None
    /\ cand = {} /\ pairs = {} /\ counts = NoCounts /\ mpc = "idle"

\* The call: detections within the settling period are set apart, and the pairs
\* within tolerance are listed.
MatchTake(rs, ds, a, start) ==
    /\ mpc # "pair"
    /\ refs' = rs /\ dets' = ds /\ ambient' = a /\ takeStart' = start
    /\ cand' = Candidates(rs, ds, start)
    /\ pairs' = {} /\ mpc' = "pair"
    /\ UNCHANGED counts

\* Mutant: only the detection is looked up among the used ones.
MutPairNearest ==
    /\ mpc = "pair" /\ cand # {}
    /\ \E p \in cand :
          /\ \A q \in cand \ {p} : Earlier(p, q)
          /\ cand' = cand \ {p}
          /\ pairs' = IF p[2] \in UsedDets THEN pairs ELSE pairs \cup {p}
    /\ UNCHANGED <<refs, dets, ambient, takeStart, counts, mpc>>

\* The nearest pair left is made if neither side is used.
PairNearest ==
    /\ mpc = "pair" /\ cand # {}
    /\ \E p \in cand :
          /\ \A q \in cand \ {p} : Earlier(p, q)
          /\ cand' = cand \ {p}
          /\ pairs' = IF Free(p) THEN pairs \cup {p} ELSE pairs
    /\ UNCHANGED <<refs, dets, ambient, takeStart, counts, mpc>>

\* References and detections are counted by their outcome.
CountOutcomes ==
    /\ mpc = "pair" /\ cand = {}
    /\ counts' = [references            |-> Len(refs),
                  matched               |-> Cardinality(UsedRefs),
                  detections            |-> Cardinality(Usable),
                  falsePositives        |-> Cardinality(FalsePositives),
                  ambientFalsePositives |-> IF ambient THEN Cardinality(FalsePositives) ELSE 0,
                  doubleFires           |-> Cardinality(DoubleFires),
                  settling              |-> Cardinality(Settling(dets, takeStart))]
    /\ mpc' = "counted"
    /\ UNCHANGED <<refs, dets, ambient, takeStart, cand, pairs>>

Matches == PairNearest \/ CountOutcomes

MatchNext ==
    \/ \E rs, ds \in Seq(Int), a \in BOOLEAN, start \in Int \cup {None} : MatchTake(rs, ds, a, start)
    \/ Matches

MatchSpec == MatchInit /\ [][MatchNext]_matchVars

-----------------------------------------------------------------------------
(* Report: the fractions, as pairs of numbers *)

Ratio(part, whole) == IF whole = 0 THEN <<0, 1>> ELSE <<part, whole>>
SameRatio(p, q)    == p[1] * q[2] = q[1] * p[2]

Recall(c)         == Ratio(c.matched, c.references)
Precision(c)      == Ratio(c.matched, c.matched + c.falsePositives)
DoubleFireRate(c) == Ratio(c.doubleFires, c.matched)

-----------------------------------------------------------------------------
(* What it promises *)

\* docs/EVALUATION.md 2.1, "paired nearest-first, each may be used once": the pairs
\* made never share a reference or a detection, and a pair that was within tolerance
\* and was not made conflicts with one that comes before it.  At the end, therefore, no
\* missed reference has an unpaired detection within tolerance, and no two would rather
\* be paired with each other.
NearestFirst ==
    LET all == Candidates(refs, dets, takeStart) IN
    /\ pairs \subseteq all
    /\ \A p, q \in pairs : Conflict(p, q) => p = q
    /\ \A c \in all \ (cand \cup pairs) : \E p \in pairs : Conflict(p, c) /\ Earlier(p, c)

\* Refuted.  docs/EVALUATION.md 2.2: the double-fire rate is of "Extra detections within
\* 500 ms of a matched detection".  The detections left that are no earlier than a matched
\* one, and within the window, are the ones counted.
ExtrasAreDoubleFires ==
    mpc = "counted" =>
        counts.doubleFires =
            Cardinality({d \in Usable \ UsedDets : \E m \in UsedDets : dets[d] - dets[m] \in 0..DoubleFireWindow})

\* Refuted.  docs/EVALUATION.md 2.2: precision is "Matched detections / all detections",
\* and its detections are those that were not discarded as settling.
PrecisionIsOfAllDetections ==
    mpc = "counted" => SameRatio(Precision(counts), Ratio(counts.matched, counts.detections))
=============================================================================

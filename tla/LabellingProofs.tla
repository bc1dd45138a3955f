-------------------------- MODULE LabellingProofs --------------------------
(***************************************************************************)
(* Labelling runs over one take, several at a time: what a run appends is  *)
(* what it computed, in order and as far as it came, whatever the others   *)
(* append between; and what it computed depends on the take, the window    *)
(* and the method only.  A window finds its gesture inside itself, and so  *)
(* does the consensus, which is the reaction of one of the instances.      *)
(***************************************************************************)
EXTENDS Labelling, Inductions, SequenceTheorems

Label == [source : {"cue", "segmenter", "aligned"}, cue : Nat, t : Int, on : Int, off : Int]
Entry == [label : Label \cup {ByHand}, run : Runs]

\* What run r computed when it was loaded.
Computed(r) == Labels(request[r].method, refined[r])

\* Where in the log the labels of run r are.
Appended(r) == {i \in DOMAIN log : log[i].run = r /\ ~ IsManual(log[i])}

InputsInv == signal \in Signals /\ cues \in Cues /\ health \in BOOLEAN

RunTypes ==
    /\ point \in [Runs -> {"idle", "append", "done", "failed"}]
    /\ request \in [Runs -> [method : Methods \cup {"none"}, window : Windows \cup {0}]]
    /\ refined \in [Runs -> Seq(Label)] /\ todo \in [Runs -> Seq(Label)]
    /\ log \in Seq(Entry)

\* The instances of a run are those of its take, method and window.
FoundInv ==
    \A r \in Runs : point[r] # "idle" =>
        /\ request[r].window \in Windows
        /\ refined[r] = Segmented(request[r].method, request[r].window)

\* A label in the log is one its run computed.
LogInv ==
    \A i \in DOMAIN log, q \in Runs : log[i].run = q /\ ~ IsManual(log[i]) =>
        /\ point[q] # "idle"
        /\ \E p \in DOMAIN Computed(q) : log[i].label = Computed(q)[p]

\* A run's labels are in the log up to the one it is at, in order, and the rest is to do.
AppendInv ==
    \A r \in Runs : point[r] \in {"append", "done"} =>
        /\ point[r] = "done" => todo[r] = <<>>
        /\ Cardinality(Appended(r)) + Len(todo[r]) = Len(Computed(r))
        /\ \A i \in 1..Cardinality(Appended(r)) : LogOf(r)[i].label = Computed(r)[i]
        /\ \A i \in 1..Len(todo[r]) : todo[r][i] = Computed(r)[Cardinality(Appended(r)) + i]

LabelInv == InputsInv /\ RunTypes /\ FoundInv /\ LogInv /\ AppendInv

-----------------------------------------------------------------------------
(* The median is one of the values *)

LEMMA PositionsFinite ==
    ASSUME NEW n \in Nat, NEW A \in SUBSET (1..n)
    PROVE  IsFiniteSet(A) /\ Cardinality(A) \in Nat /\ Cardinality(A) <= n
<1>1. IsFiniteSet(1..n) /\ Cardinality(1..n) = n
  BY FS_Interval
<1> QED BY <1>1, FS_Subset, FS_CardinalityType

\* Half of the values, or fewer, are below it, and more than half are not above it.
LEMMA MedianIsOne ==
    ASSUME NEW n \in Nat, n > 0, NEW s, s \in [1..n -> Int], Len(s) = n
    PROVE  /\ \E i \in 1..n : Median(s) = s[i]
           /\ Median(s) \in Int
           /\ Cardinality({i \in 1..n : s[i] <= Median(s)}) > n \div 2
<1> DEFINE Upto(v)  == {i \in 1..n : s[i] <= v}
           Below(v) == {i \in 1..n : s[i] < v}
           V == {s[i] : i \in 1..n}
           Good == {v \in V : Cardinality(Upto(v)) > n \div 2}
<1>0. DOMAIN s = 1..n /\ (\A i \in 1..n : s[i] \in Int) /\ s # <<>>
  <2>1. DOMAIN s = 1..n /\ \A i \in 1..n : s[i] \in Int
    OBVIOUS
  <2>2. 1 \in DOMAIN s
    BY <2>1
  <2> QED BY <2>1, <2>2
<1>1. V \subseteq Int /\ IsFiniteSet(V) /\ V # {}
  <2>1. V \subseteq Int
    BY <1>0
  <2>2. V # {}
    <3>1. s[1] \in V
      OBVIOUS
    <3> QED BY <3>1
  <2>3. s \in Surjection(1..n, V)
    BY <1>0 DEF Surjection
  <2>4. IsFiniteSet(1..n)
    BY FS_Interval
  <2> HIDE DEF V
  <2> QED BY <2>1, <2>2, <2>3, <2>4, FS_Surjection
<1>2. n \div 2 \in Nat /\ n > n \div 2
  OBVIOUS
<1>3. Good # {}
  <2>1. PICK v \in V : \A u \in V : u <= v
    <3> HIDE DEF V
    <3> QED BY <1>1, GreatestAndLeast
  <2>2. Upto(v) = 1..n
    BY <2>1
  <2>3. Cardinality(1..n) = n
    BY FS_Interval
  <2> QED BY <1>2, <2>2, <2>3
<1>4. Good \subseteq V /\ IsFiniteSet(Good)
  <2>1. Good \subseteq V
    OBVIOUS
  <2> HIDE DEF Good, V
  <2> QED BY <1>1, <2>1, FS_Subset
<1>5. PICK v \in Good : \A u \in Good : v <= u
  <2>1. Good \subseteq Int
    BY <1>1, <1>4
  <2> HIDE DEF Good, V
  <2> QED BY <1>3, <1>4, <2>1, GreatestAndLeast
<1>6. v \in V /\ v \in Int /\ Cardinality(Upto(v)) > n \div 2
  BY <1>1, <1>5
<1>7. Cardinality(Below(v)) <= n \div 2
  <2> DEFINE W == {u \in V : u < v}
  <2>1. CASE W = {}
    <3>1. Below(v) = {}
      BY <2>1
    <3>2. Cardinality(Below(v)) = 0
      BY <3>1, FS_EmptySet
    <3> HIDE DEF Below
    <3> QED BY <1>2, <3>2
  <2>2. CASE W # {}
    <3>1. W \subseteq Int /\ IsFiniteSet(W)
      <4>1. W \subseteq V
        OBVIOUS
      <4> HIDE DEF W, V
      <4> QED BY <1>1, <4>1, FS_Subset
    <3>2. PICK u \in W : \A x \in W : x <= u
      <4> HIDE DEF W
      <4> QED BY <2>2, <3>1, GreatestAndLeast
    <3>3. u \in V /\ u < v /\ u \in Int
      BY <1>1, <3>2
    <3>4. Below(v) = Upto(u)
      <4>1. ASSUME NEW i \in 1..n, s[i] < v PROVE s[i] <= u
        BY <3>2, <4>1
      <4>2. ASSUME NEW i \in 1..n, s[i] <= u PROVE s[i] < v
        BY <1>0, <1>6, <3>3, <4>2
      <4> QED BY <4>1, <4>2
    <3>5. u \notin Good
      <4> HIDE DEF Good
      <4>1. ~ (v <= u)
        BY <1>6, <3>3
      <4> QED BY <1>5, <4>1
    <3>6. Cardinality(Upto(u)) \in Nat
      BY PositionsFinite
    <3>7. ~ (Cardinality(Upto(u)) > n \div 2)
      <4> HIDE DEF V, Upto
      <4> QED BY <3>3, <3>5
    <3> HIDE DEF Upto, Below
    <3> QED BY <1>2, <3>4, <3>6, <3>7
  <2> QED BY <2>1, <2>2
<1>8. /\ Median(s) \in V
      /\ Cardinality({i \in DOMAIN s : s[i] <= Median(s)}) > Len(s) \div 2
  <2> DEFINE M(x) == /\ Cardinality({i \in DOMAIN s : s[i] < x}) <= Len(s) \div 2
                     /\ Cardinality({i \in DOMAIN s : s[i] <= x}) > Len(s) \div 2
             D == {s[i] : i \in DOMAIN s}
  <2>1. D = V /\ M(v)
    BY <1>0, <1>6, <1>7
  <2>2. Median(s) = CHOOSE x \in D : M(x)
    BY <1>0 DEF Median
  <2> HIDE DEF M, D, V
  <2>3. Median(s) \in D /\ M(Median(s))
    BY <1>6, <2>1, <2>2
  <2> QED BY <2>1, <2>3 DEF M
<1> QED BY <1>0, <1>1, <1>8

-----------------------------------------------------------------------------
(* A window finds its gesture inside itself *)

LEMMA WindowSizes ==
    ASSUME NEW w \in Windows
    PROVE  w \in Nat /\ w \div 4 \in Nat
  BY LabellingAssumption

\* The ticks of a window at which the take has a value follow each other.
LEMMA SearchedTicks ==
    ASSUME InputsInv, NEW t \in Int, NEW w \in Windows
    PROVE  /\ Searched(t, w) \subseteq Int /\ IsFiniteSet(Searched(t, w))
           /\ Searched(t, w) \subseteq Span(t, w)
           /\ \A u \in Searched(t, w) : Activity[u] \in Int
           /\ Cardinality(Searched(t, w)) >= 3 => Searched(t, w) # {}
<1>1. w \in Nat /\ w \div 4 \in Nat
  BY WindowSizes
<1>2. Searched(t, w) \subseteq Span(t, w) /\ Searched(t, w) \subseteq DOMAIN Activity
  BY DEF Searched
<1>3. IsFiniteSet(Span(t, w)) /\ Span(t, w) \subseteq Int
  BY <1>1, FS_Interval DEF Span
<1>4. IsFiniteSet(Searched(t, w))
  BY <1>2, <1>3, FS_Subset
<1>5. \A u \in DOMAIN Activity : Activity[u] \in Int
  <2>1. CASE health
    BY <2>1, TakeAssumption DEF InputsInv, Activity
  <2>2. CASE ~ health
    BY <2>2 DEF Activity
  <2> QED BY <2>1, <2>2
<1>6. Cardinality(Searched(t, w)) >= 3 => Searched(t, w) # {}
  BY FS_EmptySet
<1> QED BY <1>2, <1>3, <1>4, <1>5, <1>6

\* The hysteresis runs over the window: it starts at its first peak and stays inside.
LEMMA InstanceInWindow ==
    ASSUME InputsInv, NEW t \in Int, NEW w \in Windows, Found(t, w)
    PROVE  /\ Instance(t, w).on \in Span(t, w) /\ Instance(t, w).on \in Int
           /\ Instance(t, w).off \in Int
<1> DEFINE ticks == Searched(t, w)
           floor == Median(Values(ticks))
           peak  == Highest({Activity[u] : u \in ticks})
           First(u) == Activity[u] = peak /\ \A v \in ticks : v < u => Activity[v] # peak
           at == CHOOSE u \in ticks : First(u)
           above(u, percent) == 100 * (Activity[u] - floor) > percent * (peak - floor)
           Starts(u) == /\ u <= at /\ \A v \in u..(at - 1) : above(v, OnPercent)
                        /\ u - 1 \in ticks => ~ above(u - 1, OnPercent)
           Ends(u) == /\ u >= at /\ \A v \in (at + 1)..u : above(v, OffPercent)
                      /\ u + 1 \in ticks => ~ above(u + 1, OffPercent)
<1>1. Instance(t, w).on = CHOOSE u \in ticks : Starts(u)
  BY DEF Instance
<1>2. Instance(t, w).off = CHOOSE u \in ticks : Ends(u)
  BY DEF Instance
<1>3. /\ ticks \subseteq Int /\ IsFiniteSet(ticks) /\ ticks \subseteq Span(t, w) /\ ticks # {}
      /\ \A u \in ticks : Activity[u] \in Int
  <2>1. Cardinality(Searched(t, w)) >= 3
    BY DEF Found
  <2> QED BY <2>1, SearchedTicks
<1> HIDE DEF ticks
<1>4. at \in ticks
  <2>1. \E u \in ticks : Activity[u] = peak
    <3> DEFINE a == [u \in ticks |-> Activity[u]]
               V == {Activity[u] : u \in ticks}
    <3>1. a \in [ticks -> Int] /\ \A u \in ticks : a[u] = Activity[u]
      BY <1>3
    <3> HIDE DEF a
    <3>2. PICK u \in ticks : \A v \in ticks : a[v] <= a[u]
      BY <1>3, <3>1, Greatest
    <3>3. Activity[u] \in V /\ \A x \in V : x <= Activity[u]
      BY <3>1, <3>2
    <3>4. Highest(V) \in V
      BY <3>3 DEF Highest
    <3> QED BY <3>4
  <2> HIDE DEF peak
  <2> DEFINE Peaks == {u \in ticks : Activity[u] = peak}
  <2>2. PICK u \in Peaks : \A v \in Peaks : u <= v
    <3>1. Peaks \subseteq ticks /\ Peaks # {}
      BY <2>1
    <3> HIDE DEF Peaks
    <3>2. IsFiniteSet(Peaks) /\ Peaks \subseteq Int
      BY <1>3, <3>1, FS_Subset
    <3> QED BY <3>1, <3>2, GreatestAndLeast
  <2>3. u \in ticks /\ First(u)
    BY <1>3, <2>2
  <2> HIDE DEF First
  <2> QED BY <2>3
<1> HIDE DEF at, above
<1>5. \E u \in ticks : Starts(u)
  <2> DEFINE Back == {u \in ticks : u <= at /\ \A v \in u..(at - 1) : above(v, OnPercent)}
  <2>1. at \in Back /\ Back \subseteq ticks
    BY <1>3, <1>4
  <2>2. PICK u \in Back : \A v \in Back : u <= v
    <3> HIDE DEF Back
    <3>1. IsFiniteSet(Back) /\ Back \subseteq Int /\ Back # {}
      BY <1>3, <2>1, FS_Subset
    <3> QED BY <3>1, GreatestAndLeast
  <2>3. u \in ticks /\ u \in Int /\ at \in Int /\ u <= at /\ \A v \in u..(at - 1) : above(v, OnPercent)
    BY <1>3, <1>4, <2>2
  <2>4. ASSUME u - 1 \in ticks, above(u - 1, OnPercent) PROVE FALSE
    <3>1. \A v \in (u - 1)..(at - 1) : v = u - 1 \/ v \in u..(at - 1)
      BY <2>3
    <3>2. u - 1 <= at
      BY <2>3
    <3>3. u - 1 \in Back
      BY <2>3, <2>4, <3>1, <3>2
    <3> HIDE DEF Back
    <3>4. u <= u - 1
      BY <2>2, <3>3
    <3> QED BY <2>3, <3>4
  <2> QED BY <2>3, <2>4
<1>6. \E u \in ticks : Ends(u)
  <2> DEFINE On == {u \in ticks : u >= at /\ \A v \in (at + 1)..u : above(v, OffPercent)}
  <2>1. at \in On /\ On \subseteq ticks
    BY <1>3, <1>4
  <2>2. PICK u \in On : \A v \in On : v <= u
    <3> HIDE DEF On
    <3>1. IsFiniteSet(On) /\ On \subseteq Int /\ On # {}
      BY <1>3, <2>1, FS_Subset
    <3> QED BY <3>1, GreatestAndLeast
  <2>3. u \in ticks /\ u \in Int /\ at \in Int /\ u >= at /\ \A v \in (at + 1)..u : above(v, OffPercent)
    BY <1>3, <1>4, <2>2
  <2>4. ASSUME u + 1 \in ticks, above(u + 1, OffPercent) PROVE FALSE
    <3>1. \A v \in (at + 1)..(u + 1) : v = u + 1 \/ v \in (at + 1)..u
      BY <2>3
    <3>2. u + 1 >= at
      BY <2>3
    <3>3. u + 1 \in On
      BY <2>3, <2>4, <3>1, <3>2
    <3> HIDE DEF On
    <3>4. u + 1 <= u
      BY <2>2, <3>3
    <3> QED BY <2>3, <3>4
  <2> QED BY <2>3, <2>4
<1> HIDE DEF Starts, Ends
<1>7. Instance(t, w).on \in ticks
  BY <1>1, <1>5
<1>8. Instance(t, w).off \in ticks
  BY <1>2, <1>6
<1> QED BY <1>3, <1>7, <1>8

-----------------------------------------------------------------------------
(* Lists of labels *)

\* One label to a cue, in the order of the cues.
Ordered(ls) ==
    /\ ls \in Seq(Label)
    /\ \A p \in DOMAIN ls : ls[p].cue \in DOMAIN cues /\ ls[p].t = cues[ls[p].cue].t
    /\ \A p, q \in DOMAIN ls : p < q => ls[p].cue < ls[q].cue

\* Every onset is in the window of its cue.
InWindow(ls, w) == \A p \in DOMAIN ls : ls[p].on \in Span(ls[p].t, w)

LEMMA CuesTyped ==
    ASSUME InputsInv
    PROVE  /\ DOMAIN cues = 1..Len(cues) /\ Len(cues) \in Nat
           /\ \A i \in DOMAIN cues : cues[i].t \in Int
<1>1. cues \in Seq([t : Int, countIn : BOOLEAN])
  BY TakeAssumption DEF InputsInv
<1>2. DOMAIN cues = 1..Len(cues) /\ Len(cues) \in Nat
  BY <1>1, LenProperties
<1>3. ASSUME NEW i \in DOMAIN cues PROVE cues[i].t \in Int
  <2>1. cues[i] \in [t : Int, countIn : BOOLEAN]
    BY <1>1, <1>2, ElementOfSeq
  <2> QED BY <2>1
<1> QED BY <1>2, <1>3

\* Labels made one to each of a set of cues.
LEMMA MadeFromCues ==
    ASSUME InputsInv, NEW S \in SUBSET (DOMAIN cues), NEW ls,
           ls = [j \in DOMAIN Ascending(S) |-> ls[j]],
           \A j \in DOMAIN Ascending(S) :
              ls[j] \in Label /\ ls[j].cue = Ascending(S)[j] /\ ls[j].t = cues[Ascending(S)[j]].t
    PROVE  Ordered(ls)
<1>1. S \in SUBSET (1..Len(cues)) /\ Len(cues) \in Nat
  BY CuesTyped
<1>2. PICK n \in Nat :
              /\ n = Cardinality(S)
              /\ Ascending(S) \in [1..n -> S] /\ DOMAIN Ascending(S) = 1..n
              /\ \A i, j \in 1..n : i < j => Ascending(S)[i] < Ascending(S)[j]
              /\ \A i, j \in 1..n : Ascending(S)[i] = Ascending(S)[j] => i = j
              /\ \A x \in S : \E i \in 1..n : Ascending(S)[i] = x
  BY <1>1, AscendingLists
<1>3. DOMAIN ls = 1..n
  BY <1>2
<1>4. ls \in Seq(Label)
  <2>1. ls \in [1..n -> Label]
    BY <1>2
  <2> QED BY <2>1, SeqDef
<1>5. ASSUME NEW p \in DOMAIN ls PROVE ls[p].cue \in DOMAIN cues /\ ls[p].t = cues[ls[p].cue].t
  <2>1. Ascending(S)[p] \in S
    BY <1>2, <1>3
  <2> QED BY <1>2, <1>3, <2>1
<1>6. ASSUME NEW p \in DOMAIN ls, NEW q \in DOMAIN ls, p < q PROVE ls[p].cue < ls[q].cue
  <2>1. Ascending(S)[p] < Ascending(S)[q]
    BY <1>2, <1>3, <1>6
  <2> QED BY <1>2, <1>3, <2>1
<1> QED BY <1>4, <1>5, <1>6 DEF Ordered

LEMMA AscendingMember ==
    ASSUME NEW N \in Nat, NEW S \in SUBSET (1..N), NEW j \in DOMAIN Ascending(S)
    PROVE  Ascending(S)[j] \in S
<1>1. PICK n \in Nat :
              /\ n = Cardinality(S)
              /\ Ascending(S) \in [1..n -> S] /\ DOMAIN Ascending(S) = 1..n
              /\ \A i, k \in 1..n : i < k => Ascending(S)[i] < Ascending(S)[k]
              /\ \A i, k \in 1..n : Ascending(S)[i] = Ascending(S)[k] => i = k
              /\ \A x \in S : \E i \in 1..n : Ascending(S)[i] = x
  BY AscendingLists
<1> QED BY <1>1

LEMMA AtCuesOrdered ==
    ASSUME InputsInv
    PROVE  /\ Ordered(AtCues)
           /\ \A p \in DOMAIN AtCues : AtCues[p].source = "cue" /\ AtCues[p].on = AtCues[p].t
<1> DEFINE of == Ascending(Armed)
<1>1. AtCues = [j \in DOMAIN of |-> LabelAt(of[j], cues[of[j]].t, cues[of[j]].t, "cue")]
  BY DEF AtCues
<1>2. Armed \in SUBSET (DOMAIN cues)
  BY DEF Armed
<1>3. ASSUME NEW j \in DOMAIN of PROVE of[j] \in DOMAIN cues /\ of[j] \in Nat /\ cues[of[j]].t \in Int
  <2>1. Armed \in SUBSET (1..Len(cues)) /\ Len(cues) \in Nat
    BY <1>2, CuesTyped
  <2>2. of[j] \in Armed
    BY <1>3, <2>1, AscendingMember
  <2> QED BY <1>2, <2>1, <2>2, CuesTyped
<1> HIDE DEF of
<1>4. \A j \in DOMAIN of : /\ AtCues[j] \in Label /\ AtCues[j].cue = of[j] /\ AtCues[j].t = cues[of[j]].t
                           /\ AtCues[j].source = "cue" /\ AtCues[j].on = AtCues[j].t
  BY <1>1, <1>3 DEF LabelAt, Label
<1>5. AtCues = [j \in DOMAIN of |-> AtCues[j]] /\ DOMAIN AtCues = DOMAIN of
  BY <1>1
<1>6. Ordered(AtCues)
  BY <1>2, <1>4, <1>5, MadeFromCues DEF of
<1> QED BY <1>4, <1>5, <1>6

LEMMA RefinedOrdered ==
    ASSUME InputsInv, NEW w \in Windows
    PROVE  /\ Ordered(Refined(w)) /\ InWindow(Refined(w), w)
           /\ \A p \in DOMAIN Refined(w) : Refined(w)[p].source = "segmenter"
<1> DEFINE S == {i \in Armed : Found(cues[i].t, w)}
           of == Ascending(S)
           x(j) == Instance(cues[of[j]].t, w)
<1>1. Refined(w) = [j \in DOMAIN of |-> LabelAt(of[j], x(j).on, x(j).off, "segmenter")]
  BY DEF Refined
<1>2. S \in SUBSET (DOMAIN cues)
  BY DEF Armed
<1>3. ASSUME NEW j \in DOMAIN of
      PROVE  /\ of[j] \in DOMAIN cues /\ of[j] \in Nat /\ cues[of[j]].t \in Int
             /\ x(j).on \in Span(cues[of[j]].t, w) /\ x(j).on \in Int /\ x(j).off \in Int
  <2>1. S \in SUBSET (1..Len(cues)) /\ Len(cues) \in Nat
    BY <1>2, CuesTyped
  <2>2. of[j] \in S
    <3> HIDE DEF S
    <3> QED BY <1>3, <2>1, AscendingMember
  <2>3. of[j] \in DOMAIN cues /\ of[j] \in Nat /\ cues[of[j]].t \in Int /\ Found(cues[of[j]].t, w)
    <3> HIDE DEF of
    <3> QED BY <1>2, <2>1, <2>2, CuesTyped
  <2> QED BY <2>3, InstanceInWindow
<1> HIDE DEF of, x, S
<1> DEFINE ls == Refined(w)
<1>4. \A j \in DOMAIN of : /\ ls[j] \in Label /\ ls[j].cue = of[j] /\ ls[j].t = cues[of[j]].t
                           /\ ls[j].source = "segmenter" /\ ls[j].on \in Span(ls[j].t, w)
  BY <1>1, <1>3 DEF LabelAt, Label
<1>5. ls = [j \in DOMAIN of |-> ls[j]] /\ DOMAIN ls = DOMAIN of
  BY <1>1
<1> HIDE DEF ls
<1>6. Ordered(ls)
  BY <1>2, <1>4, <1>5, MadeFromCues DEF of
<1> QED BY <1>4, <1>5, <1>6 DEF ls, InWindow

-----------------------------------------------------------------------------
(* Alignment *)

LEMMA LabelFields ==
    ASSUME NEW ls \in Seq(Label)
    PROVE  /\ DOMAIN ls = 1..Len(ls) /\ Len(ls) \in Nat
           /\ \A p \in DOMAIN ls : /\ ls[p] \in Label /\ ls[p].t \in Int /\ ls[p].on \in Int
                                   /\ ls[p].off \in Int /\ ls[p].cue \in Nat
<1>1. DOMAIN ls = 1..Len(ls) /\ Len(ls) \in Nat
  BY LenProperties
<1>2. \A p \in DOMAIN ls : ls[p] \in Label
  BY <1>1, ElementOfSeq
<1> QED BY <1>1, <1>2 DEF Label

\* The consensus is the reaction of one of the instances, and more than half of them are
\* within the limit of it.
LEMMA ConsensusIsOne ==
    ASSUME NEW ls \in Seq(Label), ls # <<>>
    PROVE  /\ Consensus(ls) \in Int /\ Limit(ls) \in Nat
           /\ \E p \in DOMAIN ls : Consensus(ls) = ls[p].on - ls[p].t
           /\ 2 * Cardinality({p \in DOMAIN ls : Abs(ls[p].on - ls[p].t - Consensus(ls)) > Limit(ls)}) < Len(ls)
<1>1. PICK n \in Nat : n = Len(ls) /\ DOMAIN ls = 1..n /\ n > 0
  <2>1. DOMAIN ls = 1..Len(ls) /\ Len(ls) \in Nat
    BY LabelFields
  <2>2. Len(ls) # 0
    BY EmptySeq
  <2>3. Len(ls) > 0
    BY <2>1, <2>2
  <2> QED BY <2>1, <2>3
<1>2. \A p \in 1..n : ls[p].on - ls[p].t \in Int
  BY <1>1, LabelFields
<1>3. /\ Reactions(ls) \in [1..n -> Int] /\ Len(Reactions(ls)) = n
      /\ \A p \in 1..n : Reactions(ls)[p] = ls[p].on - ls[p].t
  <2>1. Reactions(ls) = [p \in 1..n |-> ls[p].on - ls[p].t]
    BY <1>1 DEF Reactions
  <2>2. Reactions(ls) \in [1..n -> Int]
    BY <1>2, <2>1
  <2>3. Len(Reactions(ls)) = n
    BY <2>1
  <2> QED BY <2>1, <2>2, <2>3
<1>4. Consensus(ls) \in Int /\ \E p \in 1..n : Consensus(ls) = ls[p].on - ls[p].t
  <2>1. Median(Reactions(ls)) \in Int /\ \E p \in 1..n : Median(Reactions(ls)) = Reactions(ls)[p]
    BY <1>1, <1>3, MedianIsOne
  <2> QED BY <1>3, <2>1 DEF Consensus
<1>5. PICK c \in Int : c = Consensus(ls)
  BY <1>4
<1> DEFINE dev == [i \in DOMAIN ls |-> Abs(ls[i].on - ls[i].t - c)]
<1>6. dev \in [1..n -> Int] /\ Len(dev) = n /\ \A i \in 1..n : dev[i] = Abs(ls[i].on - ls[i].t - c) /\ dev[i] \in Nat
  <2>1. \A i \in 1..n : Abs(ls[i].on - ls[i].t - c) \in Nat
    <3>1. \A i \in 1..n : ls[i].on - ls[i].t - c \in Int
      BY <1>2
    <3>2. \A y \in Int : Abs(y) \in Nat
      BY DEF Abs
    <3> QED BY <3>1, <3>2
  <2>2. dev \in [1..n -> Int]
    BY <1>1, <2>1
  <2>3. Len(dev) = n
    BY <1>1
  <2> QED BY <1>1, <2>1, <2>2, <2>3
<1> HIDE DEF dev
<1>7. PICK mad : /\ mad = Median(dev) /\ mad \in Nat
                 /\ Cardinality({i \in 1..n : dev[i] <= mad}) > n \div 2
  <2>1. /\ \E i \in 1..n : Median(dev) = dev[i]
        /\ Cardinality({i \in 1..n : dev[i] <= Median(dev)}) > n \div 2
    BY <1>1, <1>6, MedianIsOne
  <2> QED BY <1>6, <2>1
<1>8. Limit(ls) = IF 2 * mad > MinLimit THEN 2 * mad ELSE MinLimit
  BY <1>5, <1>7 DEF Limit, dev
<1>9. Limit(ls) \in Nat /\ Limit(ls) >= mad
  BY <1>7, <1>8, LabellingAssumption
<1> DEFINE Near == {i \in 1..n : dev[i] <= mad}
           Far  == {p \in DOMAIN ls : Abs(ls[p].on - ls[p].t - c) > Limit(ls)}
<1>10. Far \subseteq (1..n) \ Near
  <2>1. ASSUME NEW p \in Far PROVE p \in 1..n /\ ~ (dev[p] <= mad)
    <3>1. p \in 1..n /\ dev[p] > Limit(ls) /\ dev[p] \in Nat
      BY <1>1, <1>6
    <3> QED BY <1>7, <1>9, <3>1
  <2> QED BY <2>1
<1>11. 2 * Cardinality(Far) < n
  <2>1. Near \in SUBSET (1..n)
    OBVIOUS
  <2> HIDE DEF Near, Far
  <2>2. IsFiniteSet(1..n) /\ Cardinality(1..n) = n
    BY FS_Interval
  <2>3. (1..n) \cap Near = Near /\ IsFiniteSet((1..n) \ Near)
    BY <2>1, <2>2, FS_Subset
  <2>4. Cardinality((1..n) \ Near) = n - Cardinality(Near)
    BY <2>2, <2>3, FS_Difference
  <2>5. IsFiniteSet(Far) /\ Cardinality(Far) <= n - Cardinality(Near) /\ Cardinality(Far) \in Nat
    <3>1. Far \in SUBSET ((1..n) \ Near)
      BY <1>10
    <3>2. IsFiniteSet(Far) /\ Cardinality(Far) <= Cardinality((1..n) \ Near)
      BY <2>3, <3>1, FS_Subset
    <3> QED BY <2>4, <3>2, FS_CardinalityType
  <2>6. Cardinality(Near) \in Nat
    BY <2>1, PositionsFinite
  <2>7. Cardinality(Near) > n \div 2
    BY <1>7 DEF Near
  <2>8. n \div 2 \in Nat /\ n <= 2 * (n \div 2) + 1
    OBVIOUS
  <2>9. PICK h \in Nat : h = n \div 2 /\ n <= 2 * h + 1
    BY <2>8
  <2> QED BY <2>5, <2>6, <2>7, <2>9
<1> QED BY <1>1, <1>4, <1>5, <1>9, <1>11

\* Alignment moves the instances that disagree with the consensus onto it, and no other.
LEMMA AlignMoves ==
    ASSUME NEW ls \in Seq(Label), ls # <<>>, NEW p \in DOMAIN ls
    PROVE  LET c == Consensus(ls)  a == Align(ls)[p]  l == ls[p] IN
           /\ a \in Label /\ a.source = "aligned" /\ a.cue = l.cue /\ a.t = l.t
           /\ Abs(l.on - l.t - c) > Limit(ls) => a.on - a.t = c
           /\ ~ (Abs(l.on - l.t - c) > Limit(ls)) => a.on = l.on /\ a.off = l.off
<1>1. PICK c \in Int : c = Consensus(ls)
  BY ConsensusIsOne
<1>2. PICK l : l = ls[p]
  OBVIOUS
<1>3. l \in Label /\ l.t \in Int /\ l.on \in Int /\ l.off \in Int /\ l.cue \in Nat
  BY <1>2, LabelFields
<1>4. PICK d \in Int : d = l.on - l.t - c
  BY <1>3
<1>5. Align(ls)[p] = Moved(l, IF Abs(d) > Limit(ls) THEN -d ELSE 0)
  BY <1>1, <1>2, <1>4 DEF Align
<1>6. ASSUME NEW shift \in Int
      PROVE  /\ Moved(l, shift) \in Label /\ Moved(l, shift).source = "aligned" /\ Moved(l, shift).cue = l.cue
             /\ Moved(l, shift).t = l.t /\ Moved(l, shift).on = l.on + shift /\ Moved(l, shift).off = l.off + shift
  BY <1>3, <1>6 DEF Moved, Label
<1>7. CASE Abs(d) > Limit(ls)
  <2>1. Align(ls)[p] = Moved(l, -d) /\ -d \in Int
    BY <1>5, <1>7
  <2>3. PICK a : a = Align(ls)[p]
    OBVIOUS
  <2>4. a \in Label /\ a.source = "aligned" /\ a.cue = l.cue /\ a.t = l.t /\ a.on - a.t = c
    <3>1. a \in Label /\ a.source = "aligned" /\ a.cue = l.cue /\ a.t = l.t /\ a.on = l.on + (-d)
      BY <1>6, <2>1, <2>3
    <3>2. a.on - a.t = c
      BY <1>3, <1>4, <3>1
    <3> QED BY <3>1, <3>2
  <2> QED BY <1>1, <1>2, <1>4, <1>7, <2>3, <2>4
<1>8. CASE ~ (Abs(d) > Limit(ls))
  <2>1. Align(ls)[p] = Moved(l, 0)
    BY <1>5, <1>8
  <2>2. l.on + 0 = l.on /\ l.off + 0 = l.off
    BY <1>3
  <2>3. PICK a : a = Align(ls)[p]
    OBVIOUS
  <2>4. a \in Label /\ a.source = "aligned" /\ a.cue = l.cue /\ a.t = l.t /\ a.on = l.on /\ a.off = l.off
    BY <1>6, <2>1, <2>2, <2>3
  <2> QED BY <1>1, <1>2, <1>4, <1>8, <2>3, <2>4
<1> QED BY <1>7, <1>8

LEMMA AlignSeq ==
    ASSUME NEW ls \in Seq(Label), ls # <<>>
    PROVE  /\ Align(ls) \in Seq(Label) /\ DOMAIN Align(ls) = DOMAIN ls /\ Len(Align(ls)) = Len(ls)
           /\ \A p \in DOMAIN ls : Align(ls)[p].source = "aligned"
<1>1. DOMAIN Align(ls) = DOMAIN ls /\ Align(ls) = [p \in DOMAIN ls |-> Align(ls)[p]]
  BY DEF Align
<1>2. DOMAIN ls = 1..Len(ls) /\ Len(ls) \in Nat
  BY LabelFields
<1>3. \A p \in DOMAIN ls : Align(ls)[p] \in Label /\ Align(ls)[p].source = "aligned"
  BY AlignMoves
<1>4. Align(ls) \in [1..Len(ls) -> Label]
  BY <1>1, <1>2, <1>3
<1>5. Align(ls) \in Seq(Label)
  BY <1>2, <1>4, SeqDef
<1>6. Len(Align(ls)) = Len(ls)
  BY <1>1, <1>2, <1>5, LenProperties
<1> QED BY <1>1, <1>3, <1>5, <1>6

\* After alignment too every onset is in the window of its cue.
LEMMA AlignKeepsWindow ==
    ASSUME InputsInv, NEW w \in Windows, NEW ls, Ordered(ls), InWindow(ls, w), ls # <<>>
    PROVE  Ordered(Align(ls)) /\ InWindow(Align(ls), w)
<1>1. ls \in Seq(Label)
  BY DEF Ordered
<1>2. /\ Align(ls) \in Seq(Label) /\ DOMAIN Align(ls) = DOMAIN ls
      /\ \A p \in DOMAIN ls : Align(ls)[p].cue = ls[p].cue /\ Align(ls)[p].t = ls[p].t
  BY <1>1, AlignSeq, AlignMoves
<1>3. Ordered(Align(ls))
  BY <1>2 DEF Ordered
<1>4. PICK o \in DOMAIN ls : Consensus(ls) = ls[o].on - ls[o].t
  BY <1>1, ConsensusIsOne
<1>5. ASSUME NEW p \in DOMAIN ls PROVE Align(ls)[p].on \in Span(ls[p].t, w)
  <2>1. \A q \in DOMAIN ls : ls[q].on \in Int /\ ls[q].t \in Int /\ Align(ls)[q].on \in Int
    BY <1>1, <1>2, LabelFields
  <2>2. PICK h \in Nat : h = w \div 4 /\ w \in Nat
    BY WindowSizes
  <2>3. \A q \in DOMAIN ls : ls[q].on >= ls[q].t - h /\ ls[q].on <= ls[q].t + w - 1
    BY <2>1, <2>2 DEF InWindow, Span
  <2>4. \/ Align(ls)[p].on = ls[p].on
        \/ Align(ls)[p].on - ls[p].t = ls[o].on - ls[o].t
    BY <1>1, <1>2, <1>4, AlignMoves
  <2>5. Align(ls)[p].on >= ls[p].t - h /\ Align(ls)[p].on <= ls[p].t + w - 1
    BY <2>1, <2>2, <2>3, <2>4
  <2> QED BY <2>1, <2>2, <2>5 DEF Span
<1> QED BY <1>2, <1>3, <1>5 DEF InWindow

-----------------------------------------------------------------------------
(* What a run computes *)

\* Its labels are those at the cues, those found, or those aligned: by their source the
\* same list for every run with one window.
LEMMA ComputedLists ==
    ASSUME InputsInv, NEW method, NEW w \in Windows, NEW ls,
           ls = Labels(method, Segmented(method, w))
    PROVE  /\ ls \in Seq(Label)
           /\ ls # <<>> => \/ ls = AtCues
                           \/ ls = Refined(w) /\ Segmented(method, w) = Refined(w)
                           \/ /\ ls = Align(Refined(w)) /\ Refined(w) # <<>>
                              /\ Segmented(method, w) = Refined(w)
<1>1. AtCues \in Seq(Label) /\ Refined(w) \in Seq(Label)
  BY AtCuesOrdered, RefinedOrdered DEF Ordered
<1>2. CASE method = "cue"
  BY <1>1, <1>2 DEF Labels
<1>3. CASE method # "cue" /\ Segmented(method, w) = <<>>
  <2>1. Len(<<>>) = 0 /\ <<>> \in Seq(Label)
    OBVIOUS
  <2>2. ls = <<>>
    BY <1>3, <2>1 DEF Labels
  <2> QED BY <2>1, <2>2
<1>4. CASE method # "cue" /\ Segmented(method, w) # <<>>
  <2>1. Segmented(method, w) = Refined(w)
    BY <1>4 DEF Segmented
  <2>2. ls = Refined(w) \/ ls = Align(Refined(w))
    BY <1>4, <2>1 DEF Labels
  <2>3. Refined(w) # <<>>
    BY <1>4, <2>1
  <2> QED BY <1>1, <2>1, <2>2, <2>3, AlignSeq
<1> QED BY <1>2, <1>3, <1>4

LEMMA SegmentedTyped ==
    ASSUME InputsInv, NEW method, NEW w \in Windows
    PROVE  Segmented(method, w) \in Seq(Label)
<1>1. Refined(w) \in Seq(Label) /\ <<>> \in Seq(Label)
  BY RefinedOrdered DEF Ordered
<1> QED BY <1>1 DEF Segmented

LEMMA ComputedTyped ==
    ASSUME LabelInv, NEW r \in Runs, point[r] # "idle"
    PROVE  Computed(r) \in Seq(Label)
  BY ComputedLists DEF LabelInv, FoundInv, Computed

\* While the take stays, what a run computed depends on its request and instances only.
LEMMA ComputedStays ==
    ASSUME UNCHANGED cues
    PROVE  /\ AtCues' = AtCues
           /\ \A r : request'[r] = request[r] /\ refined'[r] = refined[r] => Computed(r)' = Computed(r)
<1>1. AtCues' = AtCues
  BY DEF AtCues, Armed, LabelAt
<1>2. ASSUME NEW r, request'[r] = request[r], refined'[r] = refined[r] PROVE Computed(r)' = Computed(r)
  BY <1>1, <1>2 DEF Computed, Labels
<1> QED BY <1>1, <1>2

LEMMA TakeStays ==
    ASSUME Stay
    PROVE  \A method, w : Segmented(method, w)' = Segmented(method, w)
  BY DEF Stay, Segmented, Refined, Activity, Armed, Found, Instance, Searched, Values, LabelAt

-----------------------------------------------------------------------------
(* The log *)

LEMMA ManualIs ==
    /\ \A e : IsManual(e) <=> e.label.source = "manual"
    /\ \A l \in Label : l.source # "manual"
    /\ ByHand.source = "manual"
  BY DEF IsManual, Label, ByHand

\* The labels of a run, by their positions.
LEMMA LogPositions ==
    ASSUME RunTypes, NEW r
    PROVE  /\ Len(log) \in Nat /\ DOMAIN log = 1..Len(log) /\ Appended(r) \in SUBSET (1..Len(log))
           /\ Cardinality(Appended(r)) \in Nat /\ DOMAIN LogOf(r) = 1..Cardinality(Appended(r))
           /\ \A i \in DOMAIN LogOf(r) : LogOf(r)[i] = log[Ascending(Appended(r))[i]]
                                         /\ Ascending(Appended(r))[i] \in Appended(r)
<1>1. Len(log) \in Nat /\ DOMAIN log = 1..Len(log)
  BY LenProperties DEF RunTypes
<1>2. Appended(r) \in SUBSET (1..Len(log))
  BY <1>1 DEF Appended
<1>3. PICK n \in Nat :
              /\ n = Cardinality(Appended(r))
              /\ Ascending(Appended(r)) \in [1..n -> Appended(r)] /\ DOMAIN Ascending(Appended(r)) = 1..n
              /\ \A i, j \in 1..n : i < j => Ascending(Appended(r))[i] < Ascending(Appended(r))[j]
              /\ \A i, j \in 1..n : Ascending(Appended(r))[i] = Ascending(Appended(r))[j] => i = j
              /\ \A x \in Appended(r) : \E i \in 1..n : Ascending(Appended(r))[i] = x
  BY <1>1, <1>2, AscendingLists
<1>4. LogOf(r) = [i \in 1..n |-> log[Ascending(Appended(r))[i]]]
  BY <1>3 DEF LogOf, Appended
<1> QED BY <1>1, <1>2, <1>3, <1>4

\* Another's label, or one placed by hand, leaves the labels of a run as they are.
LEMMA OthersAppend ==
    ASSUME RunTypes, NEW e, log' = Append(log, e), NEW r, e.run # r \/ IsManual(e)
    PROVE  Appended(r)' = Appended(r) /\ LogOf(r)' = LogOf(r)
<1>1. Len(log) \in Nat /\ DOMAIN log = 1..Len(log)
  BY LogPositions
<1>2. /\ DOMAIN log' = 1..(Len(log) + 1) /\ log'[Len(log) + 1] = e
      /\ \A i \in 1..Len(log) : log'[i] = log[i]
  BY <1>1, AppendProperties DEF RunTypes
<1>3. Appended(r)' = Appended(r)
  <2>1. Appended(r)' = {i \in DOMAIN log' : log'[i].run = r /\ ~ IsManual(log'[i])}
    BY DEF Appended, IsManual
  <2>2. Len(log) + 1 \notin Appended(r)'
    BY <1>2, <2>1
  <2>3. \A i \in 1..(Len(log) + 1) : i \in 1..Len(log) \/ i = Len(log) + 1
    BY <1>1
  <2> QED BY <1>1, <1>2, <2>1, <2>2, <2>3 DEF Appended
<1>4. LogOf(r)' = [i \in DOMAIN Ascending(Appended(r)) |-> log'[Ascending(Appended(r))[i]]]
  BY <1>3 DEF LogOf, Appended
<1>5. LogOf(r) = [i \in DOMAIN Ascending(Appended(r)) |-> log[Ascending(Appended(r))[i]]]
  BY DEF LogOf, Appended
<1>6. \A i \in DOMAIN Ascending(Appended(r)) : Ascending(Appended(r))[i] \in 1..Len(log)
  BY <1>1, <1>5, LogPositions
<1>7. \A i \in DOMAIN Ascending(Appended(r)) : log'[Ascending(Appended(r))[i]] = log[Ascending(Appended(r))[i]]
  BY <1>2, <1>6
<1> QED BY <1>3, <1>4, <1>5, <1>7

\* A run's own label comes after those it has appended.
LEMMA OwnAppend ==
    ASSUME RunTypes, NEW e, log' = Append(log, e), NEW r, e.run = r, ~ IsManual(e)
    PROVE  /\ Cardinality(Appended(r)') = Cardinality(Appended(r)) + 1
           /\ \A i \in 1..Cardinality(Appended(r)) : LogOf(r)'[i] = LogOf(r)[i]
           /\ LogOf(r)'[Cardinality(Appended(r)) + 1] = e
<1>1. PICK N \in Nat : N = Len(log) /\ DOMAIN log = 1..N /\ Appended(r) \in SUBSET (1..N)
  BY LogPositions
<1>2. /\ DOMAIN log' = 1..(N + 1) /\ log'[N + 1] = e
      /\ \A i \in 1..N : log'[i] = log[i]
  BY <1>1, AppendProperties DEF RunTypes
<1>3. Appended(r)' = Appended(r) \cup {N + 1}
  <2>1. Appended(r)' = {i \in DOMAIN log' : log'[i].run = r /\ ~ IsManual(log'[i])}
    BY DEF Appended, IsManual
  <2>2. N + 1 \in Appended(r)'
    BY <1>2, <2>1
  <2>3. \A i \in 1..(N + 1) : i \in 1..N \/ i = N + 1
    OBVIOUS
  <2>4. \A i \in 1..N : i \in Appended(r)' <=> i \in Appended(r)
    BY <1>1, <1>2, <2>1 DEF Appended
  <2>5. Appended(r)' \subseteq 1..(N + 1)
    BY <1>2, <2>1
  <2> QED BY <1>1, <2>2, <2>3, <2>4, <2>5
<1>4. PICK n \in Nat :
              /\ n = Cardinality(Appended(r)) /\ DOMAIN Ascending(Appended(r)) = 1..n
              /\ DOMAIN Ascending(Appended(r)') = 1..(n + 1)
              /\ Ascending(Appended(r)')[n + 1] = N + 1
              /\ \A i \in 1..n : Ascending(Appended(r)')[i] = Ascending(Appended(r))[i]
  BY <1>1, <1>3, AscendingAppends
<1>5. Cardinality(Appended(r)') = n + 1
  <2>1. IsFiniteSet(Appended(r)) /\ N + 1 \notin Appended(r)
    BY <1>1, PositionsFinite
  <2> QED BY <1>3, <1>4, <2>1, FS_AddElement
<1>6. LogOf(r)' = [i \in 1..(n + 1) |-> log'[Ascending(Appended(r)')[i]]]
  BY <1>4 DEF LogOf, Appended
<1>7. LogOf(r) = [i \in 1..n |-> log[Ascending(Appended(r))[i]]]
  BY <1>4 DEF LogOf, Appended
<1>8. \A i \in 1..n : Ascending(Appended(r))[i] \in 1..N
  BY <1>1, <1>7, LogPositions
<1>9. ASSUME NEW i \in 1..n PROVE LogOf(r)'[i] = LogOf(r)[i]
  BY <1>2, <1>4, <1>6, <1>7, <1>8
<1>10. LogOf(r)'[n + 1] = e
  BY <1>2, <1>4, <1>6
<1> QED BY <1>4, <1>5, <1>9, <1>10

-----------------------------------------------------------------------------
(* The invariant *)

LEMMA InitLabels == Init => LabelInv
<1> SUFFICES ASSUME Init PROVE LabelInv
  OBVIOUS
<1>1. <<>> \in Seq(Label) /\ <<>> \in Seq(Entry) /\ DOMAIN <<>> = {}
  OBVIOUS
<1>2. InputsInv /\ RunTypes
  BY <1>1 DEF Init, InputsInv, RunTypes
<1>3. FoundInv /\ AppendInv
  BY DEF Init, FoundInv, AppendInv
<1>4. LogInv
  BY <1>1 DEF Init, LogInv
<1> QED BY <1>2, <1>3, <1>4 DEF LabelInv

\* A run that has not begun has nothing in the log.
LEMMA IdleHasNone ==
    ASSUME LabelInv, NEW r \in Runs, point[r] = "idle"
    PROVE  Appended(r) = {}
  BY DEF LabelInv, LogInv, Appended

\* What the other runs did and computed stays.
LEMMA OthersStay ==
    ASSUME LabelInv, NEW r \in Runs, UNCHANGED <<cues, request, refined, log>>
    PROVE  Appended(r)' = Appended(r) /\ LogOf(r)' = LogOf(r) /\ Computed(r)' = Computed(r)
<1>1. Computed(r)' = Computed(r)
  BY ComputedStays
<1>2. Appended(r)' = Appended(r) /\ LogOf(r)' = LogOf(r)
  BY DEF Appended, LogOf, IsManual
<1> QED BY <1>1, <1>2

LEMMA LoadKeeps ==
    ASSUME LabelInv, NEW r \in Runs, Load(r)
    PROVE  LabelInv'
<1>1. PICK method \in Methods, w \in Windows :
          LET found == Segmented(method, w) IN
          /\ request' = [request EXCEPT ![r] = [method |-> method, window |-> w]]
          /\ refined' = [refined EXCEPT ![r] = found]
          /\ IF Rejected(method, found)
             THEN Goto(r, "failed") /\ UNCHANGED todo
             ELSE Goto(r, "append") /\ todo' = [todo EXCEPT ![r] = Labels(method, found)]
  BY DEF Load
<1>2. PICK found : found = Segmented(method, w)
  OBVIOUS
<1>3. found \in Seq(Label) /\ Labels(method, found) \in Seq(Label)
  BY <1>2, SegmentedTyped, ComputedLists DEF LabelInv
<1>4. point[r] = "idle" /\ log' = log /\ signal' = signal /\ cues' = cues /\ health' = health /\ Stay
  BY DEF Load, Stay
<1>5. /\ request'[r] = [method |-> method, window |-> w] /\ refined'[r] = found
      /\ point'[r] \in {"append", "failed"}
      /\ point'[r] = "append" => todo'[r] = Labels(method, found)
      /\ \A q \in Runs \ {r} : /\ request'[q] = request[q] /\ refined'[q] = refined[q]
                               /\ point'[q] = point[q] /\ todo'[q] = todo[q]
  BY <1>1, <1>2 DEF LabelInv, RunTypes, Goto
<1>6. InputsInv'
  BY <1>4 DEF LabelInv, InputsInv
<1>7. RunTypes'
  <2>1. point' \in [Runs -> {"idle", "append", "done", "failed"}]
    BY <1>1, <1>2 DEF LabelInv, RunTypes, Goto
  <2>2. request' \in [Runs -> [method : Methods \cup {"none"}, window : Windows \cup {0}]]
    BY <1>1 DEF LabelInv, RunTypes
  <2>3. refined' \in [Runs -> Seq(Label)]
    BY <1>1, <1>2, <1>3 DEF LabelInv, RunTypes
  <2>4. todo' \in [Runs -> Seq(Label)]
    BY <1>1, <1>2, <1>3 DEF LabelInv, RunTypes
  <2>5. log' \in Seq(Entry)
    BY <1>4 DEF LabelInv, RunTypes
  <2> QED BY <2>1, <2>2, <2>3, <2>4, <2>5 DEF RunTypes, Label, Entry, ByHand
<1>8. FoundInv'
  <2> SUFFICES ASSUME NEW q \in Runs, point'[q] # "idle"
               PROVE  /\ request'[q].window \in Windows
                      /\ refined'[q] = Segmented(request'[q].method, request'[q].window)
    BY <1>4, TakeStays DEF FoundInv
  <2>1. CASE q = r
    BY <1>2, <1>5, <2>1
  <2>2. CASE q # r
    BY <1>5, <2>2 DEF LabelInv, FoundInv
  <2> QED BY <2>1, <2>2
<1>9. ASSUME NEW q \in Runs, q # r PROVE Computed(q)' = Computed(q)
  BY <1>4, <1>5, <1>9, ComputedStays
<1>10. \A q : Appended(q)' = Appended(q) /\ LogOf(q)' = LogOf(q)
  BY <1>4 DEF Appended, LogOf, IsManual
<1>11. LogInv'
  <2> SUFFICES ASSUME NEW i \in DOMAIN log, NEW q \in Runs, log[i].run = q, ~ IsManual(log[i])
               PROVE  point'[q] # "idle" /\ \E p \in DOMAIN Computed(q)' : log[i].label = Computed(q)'[p]
    BY <1>4 DEF LogInv, IsManual
  <2>1. point[q] # "idle" /\ \E p \in DOMAIN Computed(q) : log[i].label = Computed(q)[p]
    BY DEF LabelInv, LogInv
  <2>2. q # r
    BY <1>4, <2>1
  <2> QED BY <1>5, <1>9, <2>1, <2>2
<1>12. AppendInv'
  <2> SUFFICES ASSUME NEW q \in Runs, point'[q] \in {"append", "done"}
               PROVE  /\ point'[q] = "done" => todo'[q] = <<>>
                      /\ Cardinality(Appended(q)) + Len(todo'[q]) = Len(Computed(q)')
                      /\ \A i \in 1..Cardinality(Appended(q)) : LogOf(q)[i].label = Computed(q)'[i]
                      /\ \A i \in 1..Len(todo'[q]) : todo'[q][i] = Computed(q)'[Cardinality(Appended(q)) + i]
    BY <1>10 DEF AppendInv
  <2>1. CASE q # r
    BY <1>5, <1>9, <2>1 DEF LabelInv, AppendInv
  <2>2. CASE q = r
    <3>1. Cardinality(Appended(r)) = 0
      BY <1>4, IdleHasNone, FS_EmptySet
    <3>2. point'[r] = "append" /\ todo'[r] = Labels(method, found)
      BY <1>5, <2>2
    <3>3. Computed(r)' = Labels(method, found)
      <4>1. AtCues' = AtCues
        BY <1>4, ComputedStays
      <4> QED BY <1>5, <4>1 DEF Computed, Labels
    <3>4. Len(Labels(method, found)) \in Nat
      BY <1>3, LenProperties
    <3> QED BY <2>2, <3>1, <3>2, <3>3, <3>4
  <2> QED BY <2>1, <2>2
<1> QED BY <1>6, <1>7, <1>8, <1>11, <1>12 DEF LabelInv

LEMMA AppendKeeps ==
    ASSUME LabelInv, NEW r \in Runs, AppendLabel(r)
    PROVE  LabelInv'
<1> DEFINE e == [label |-> Head(todo[r]), run |-> r]
           n == Cardinality(Appended(r))
<1>1. /\ point[r] = "append" /\ todo[r] # <<>> /\ log' = Append(log, e) /\ todo' = [todo EXCEPT ![r] = Tail(@)]
      /\ point' = point /\ request' = request /\ refined' = refined
      /\ signal' = signal /\ cues' = cues /\ health' = health /\ Stay
  BY DEF AppendLabel, Stay
<1>2. todo[r] \in Seq(Label) /\ Len(todo[r]) \in Nat /\ DOMAIN todo[r] = 1..Len(todo[r])
  BY LenProperties DEF LabelInv, RunTypes
<1>3. /\ Len(todo[r]) > 0 /\ Head(todo[r]) = todo[r][1] /\ Head(todo[r]) \in Label
      /\ Tail(todo[r]) \in Seq(Label) /\ Len(Tail(todo[r])) = Len(todo[r]) - 1
      /\ \A i \in 1..(Len(todo[r]) - 1) : Tail(todo[r])[i] = todo[r][i + 1]
  BY <1>1, <1>2, EmptySeq, HeadTailProperties
<1>4. e.run = r /\ e.label = todo[r][1] /\ e \in Entry /\ ~ IsManual(e)
  BY <1>3, ManualIs DEF Entry
<1> HIDE DEF e
<1>5. /\ n \in Nat /\ n + Len(todo[r]) = Len(Computed(r))
      /\ \A i \in 1..n : LogOf(r)[i].label = Computed(r)[i]
      /\ \A i \in 1..Len(todo[r]) : todo[r][i] = Computed(r)[n + i]
  BY <1>1, LogPositions DEF LabelInv, AppendInv
<1>6. \A q \in Runs : Computed(q)' = Computed(q)
  BY <1>1, ComputedStays
<1>7. Computed(r) \in Seq(Label) /\ DOMAIN Computed(r) = 1..Len(Computed(r)) /\ Len(Computed(r)) \in Nat
  BY <1>1, ComputedTyped, LenProperties
<1>7a. e.label = Computed(r)[n + 1]
  <2>1. 1 \in 1..Len(todo[r])
    BY <1>2, <1>3
  <2>2. todo[r][1] = Computed(r)[n + 1]
    BY <1>5, <2>1
  <2> QED BY <1>4, <2>2
<1>8. /\ Cardinality(Appended(r)') = n + 1
      /\ \A i \in 1..n : LogOf(r)'[i] = LogOf(r)[i]
      /\ LogOf(r)'[n + 1] = e
  BY <1>1, <1>4, OwnAppend DEF LabelInv
<1>9. InputsInv'
  BY <1>1 DEF LabelInv, InputsInv
<1>10. RunTypes'
  <2>1. todo' \in [Runs -> Seq(Label)]
    BY <1>1, <1>3 DEF LabelInv, RunTypes
  <2>2. log' \in Seq(Entry)
    BY <1>1, <1>4, AppendProperties DEF LabelInv, RunTypes
  <2> QED BY <1>1, <2>1, <2>2 DEF LabelInv, RunTypes, Label, Entry, ByHand
<1>11. FoundInv'
  BY <1>1, TakeStays DEF LabelInv, FoundInv
<1>12. LogInv'
  <2>1. PICK N \in Nat : N = Len(log) /\ DOMAIN log = 1..N
    BY LogPositions DEF LabelInv
  <2>2. DOMAIN log' = 1..(N + 1) /\ log'[N + 1] = e /\ \A i \in 1..N : log'[i] = log[i]
    BY <1>1, <2>1, AppendProperties DEF LabelInv, RunTypes
  <2> SUFFICES ASSUME NEW i \in 1..(N + 1), NEW q \in Runs, log'[i].run = q, ~ IsManual(log'[i])
               PROVE  point[q] # "idle" /\ \E p \in DOMAIN Computed(q) : log'[i].label = Computed(q)[p]
    BY <1>1, <1>6, <2>2 DEF LogInv, IsManual
  <2>3. CASE i = N + 1
    <3>1. log'[i] = e
      BY <2>2, <2>3
    <3>2. n + 1 \in DOMAIN Computed(r) /\ e.label = Computed(r)[n + 1]
      BY <1>2, <1>3, <1>5, <1>7, <1>7a
    <3>3. q = r
      BY <1>4, <3>1
    <3> QED BY <1>1, <3>1, <3>2, <3>3
  <2>4. CASE i # N + 1
    <3>1. i \in DOMAIN log /\ log'[i] = log[i]
      BY <2>1, <2>2, <2>4
    <3> QED BY <3>1 DEF LabelInv, LogInv
  <2> QED BY <2>3, <2>4
<1>13. AppendInv'
  <2> SUFFICES ASSUME NEW q \in Runs, point[q] \in {"append", "done"}
               PROVE  /\ point[q] = "done" => todo'[q] = <<>>
                      /\ Cardinality(Appended(q)') + Len(todo'[q]) = Len(Computed(q))
                      /\ \A i \in 1..Cardinality(Appended(q)') : LogOf(q)'[i].label = Computed(q)[i]
                      /\ \A i \in 1..Len(todo'[q]) : todo'[q][i] = Computed(q)[Cardinality(Appended(q)') + i]
    BY <1>1, <1>6 DEF AppendInv
  <2>1. CASE q # r
    <3>1. Appended(q)' = Appended(q) /\ LogOf(q)' = LogOf(q)
      BY <1>1, <1>4, <2>1, OthersAppend DEF LabelInv
    <3>2. todo'[q] = todo[q]
      BY <1>1, <2>1 DEF LabelInv, RunTypes
    <3> QED BY <3>1, <3>2 DEF LabelInv, AppendInv
  <2>2. CASE q = r
    <3>1. todo'[r] = Tail(todo[r])
      BY <1>1 DEF LabelInv, RunTypes
    <3>2. ASSUME NEW i \in 1..(n + 1) PROVE LogOf(r)'[i].label = Computed(r)[i]
      <4>1. CASE i = n + 1
        <5> QED BY <1>8, <1>7a, <4>1
      <4>2. CASE i # n + 1
        <5>1. i \in 1..n
          BY <1>5, <4>2
        <5> QED BY <1>5, <1>8, <5>1
      <4> QED BY <4>1, <4>2
    <3>3. ASSUME NEW i \in 1..(Len(todo[r]) - 1) PROVE Tail(todo[r])[i] = Computed(r)[n + 1 + i]
      <4>1. i + 1 \in 1..Len(todo[r]) /\ n + (i + 1) = n + 1 + i
        BY <1>2, <1>5
      <4> QED BY <1>3, <1>5, <4>1
    <3>4. n + 1 + (Len(todo[r]) - 1) = Len(Computed(r))
      BY <1>2, <1>5, <1>7
    <3> HIDE DEF n
    <3> QED BY <1>1, <1>3, <1>8, <2>2, <3>1, <3>2, <3>3, <3>4
  <2> QED BY <2>1, <2>2
<1> QED BY <1>9, <1>10, <1>11, <1>12, <1>13 DEF LabelInv

LEMMA EndKeeps ==
    ASSUME LabelInv, NEW r \in Runs, Finish(r) \/ Kill(r)
    PROVE  LabelInv'
<1>1. /\ UNCHANGED <<log, todo, request, refined, signal, cues, health>> /\ Stay
      /\ point[r] = "append"
      /\ \/ point' = [point EXCEPT ![r] = "done"] /\ todo[r] = <<>>
         \/ point' = [point EXCEPT ![r] = "failed"]
  BY DEF Finish, Kill, Stay, Goto
<1>2. \A q \in Runs : Appended(q)' = Appended(q) /\ LogOf(q)' = LogOf(q) /\ Computed(q)' = Computed(q)
  BY <1>1, OthersStay
<1>3. /\ \A q \in Runs : q # r => point'[q] = point[q]
      /\ point'[r] \in {"failed", "done"} /\ (point'[r] = "done" => todo[r] = <<>>)
  BY <1>1 DEF LabelInv, RunTypes
<1>4. InputsInv'
  BY <1>1 DEF LabelInv, InputsInv
<1>5. RunTypes'
  <2>1. point' \in [Runs -> {"idle", "append", "done", "failed"}]
    BY <1>1 DEF LabelInv, RunTypes
  <2> QED BY <1>1, <2>1 DEF LabelInv, RunTypes, Label, Entry, ByHand
<1>6. \A q \in Runs : point'[q] # "idle" => point[q] # "idle"
  BY <1>1, <1>3
<1>7. FoundInv'
  BY <1>1, <1>6, TakeStays DEF LabelInv, FoundInv
<1>8. LogInv'
  <2> SUFFICES ASSUME NEW i \in DOMAIN log, NEW q \in Runs, log[i].run = q, ~ IsManual(log[i])
               PROVE  point'[q] # "idle" /\ \E p \in DOMAIN Computed(q)' : log[i].label = Computed(q)'[p]
    BY <1>1 DEF LogInv, IsManual
  <2>1. point[q] # "idle" /\ \E p \in DOMAIN Computed(q) : log[i].label = Computed(q)[p]
    BY DEF LabelInv, LogInv
  <2> QED BY <1>2, <1>3, <2>1
<1>9. AppendInv'
  <2> SUFFICES ASSUME NEW q \in Runs, point'[q] \in {"append", "done"}
               PROVE  /\ point'[q] = "done" => todo[q] = <<>>
                      /\ Cardinality(Appended(q)) + Len(todo[q]) = Len(Computed(q))
                      /\ \A i \in 1..Cardinality(Appended(q)) : LogOf(q)[i].label = Computed(q)[i]
                      /\ \A i \in 1..Len(todo[q]) : todo[q][i] = Computed(q)[Cardinality(Appended(q)) + i]
    BY <1>1, <1>2 DEF AppendInv
  <2>1. point[q] \in {"append", "done"}
    BY <1>1, <1>3
  <2>2. point'[q] = "done" => todo[q] = <<>>
    BY <1>3 DEF LabelInv, AppendInv
  <2> QED BY <2>1, <2>2 DEF LabelInv, AppendInv
<1> QED BY <1>4, <1>5, <1>7, <1>8, <1>9 DEF LabelInv

LEMMA ManualKeeps ==
    ASSUME LabelInv, ManualLabel
    PROVE  LabelInv'
<1>1. PICK r \in Runs : log' = Append(log, [label |-> ByHand, run |-> r])
  BY DEF ManualLabel
<1>2. PICK e : e = [label |-> ByHand, run |-> r]
  OBVIOUS
<1>3. UNCHANGED <<point, todo, request, refined, signal, cues, health>> /\ Stay
  BY DEF ManualLabel, Stay
<1>4. IsManual(e) /\ e \in Entry
  BY <1>2, ManualIs DEF Entry
<1>5. \A q \in Runs : Appended(q)' = Appended(q) /\ LogOf(q)' = LogOf(q) /\ Computed(q)' = Computed(q)
  BY <1>1, <1>2, <1>3, <1>4, OthersAppend, ComputedStays DEF LabelInv
<1>6. InputsInv'
  BY <1>3 DEF LabelInv, InputsInv
<1>7. RunTypes'
  <2>1. log' \in Seq(Entry)
    BY <1>1, <1>2, <1>4, AppendProperties DEF LabelInv, RunTypes
  <2> QED BY <1>3, <2>1 DEF LabelInv, RunTypes, Label, Entry, ByHand
<1>8. FoundInv'
  BY <1>3, TakeStays DEF LabelInv, FoundInv
<1>9. LogInv'
  <2>1. PICK N \in Nat : N = Len(log) /\ DOMAIN log = 1..N
    BY LogPositions DEF LabelInv
  <2>2. DOMAIN log' = 1..(N + 1) /\ log'[N + 1] = e /\ \A i \in 1..N : log'[i] = log[i]
    BY <1>1, <1>2, <2>1, AppendProperties DEF LabelInv, RunTypes
  <2> SUFFICES ASSUME NEW i \in 1..(N + 1), NEW q \in Runs, log'[i].run = q, ~ IsManual(log'[i])
               PROVE  point[q] # "idle" /\ \E p \in DOMAIN Computed(q) : log'[i].label = Computed(q)[p]
    BY <1>3, <1>5, <2>2 DEF LogInv, IsManual
  <2>3. i \in DOMAIN log /\ log'[i] = log[i]
    BY <1>4, <2>1, <2>2
  <2> QED BY <2>3 DEF LabelInv, LogInv
<1>10. AppendInv'
  BY <1>3, <1>5 DEF LabelInv, AppendInv
<1> QED BY <1>6, <1>7, <1>8, <1>9, <1>10 DEF LabelInv

LEMMA StepsKeepLabels == LabelInv /\ [Next]_vars => LabelInv'
<1> SUFFICES ASSUME LabelInv, [Next]_vars PROVE LabelInv'
  OBVIOUS
<1>1. CASE UNCHANGED vars
  <2>1. UNCHANGED <<signal, cues, health, log, point, request, refined, todo>> /\ Stay
    BY <1>1 DEF vars, Stay
  <2>2. \A q \in Runs : Appended(q)' = Appended(q) /\ LogOf(q)' = LogOf(q)
    BY <2>1, OthersStay
  <2>3. \A q : Computed(q)' = Computed(q)
    BY <2>1, ComputedStays
  <2>4. InputsInv' /\ RunTypes'
    BY <2>1 DEF LabelInv, InputsInv, RunTypes, Label, Entry, ByHand
  <2>5. FoundInv'
    BY <2>1, TakeStays DEF LabelInv, FoundInv
  <2>6. LogInv'
    BY <2>1, <2>3 DEF LabelInv, LogInv, IsManual
  <2>7. AppendInv'
    BY <2>1, <2>2, <2>3 DEF LabelInv, AppendInv
  <2> QED BY <2>4, <2>5, <2>6, <2>7 DEF LabelInv
<1>2. CASE ManualLabel
  BY <1>2, ManualKeeps
<1>3. CASE \E r \in Runs : Load(r) \/ AppendLabel(r) \/ Finish(r) \/ Kill(r)
  BY <1>3, LoadKeeps, AppendKeeps, EndKeeps
<1> QED BY <1>1, <1>2, <1>3 DEF Next

-----------------------------------------------------------------------------
(* What labels promise *)

\* The labels of one source and window, whichever run appended them, are of one list.
ListOf(source, w) ==
    IF source = "cue" THEN AtCues ELSE IF source = "segmenter" THEN Refined(w) ELSE Align(Refined(w))

LEMMA EntryIs ==
    ASSUME LabelInv, NEW i \in DOMAIN log, ~ IsManual(log[i])
    PROVE  \E w \in Windows : \E ls :
              /\ w = request[log[i].run].window /\ ls = ListOf(log[i].label.source, w)
              /\ \E p \in DOMAIN ls : log[i].label = ls[p]
              /\ Ordered(ls) /\ (InWindow(ls, w) \/ \A p \in DOMAIN ls : ls[p].on = ls[p].t)
<1>1. PICK r \in Runs : r = log[i].run
  <2>1. log[i] \in Entry
    BY LenProperties, ElementOfSeq DEF LabelInv, RunTypes
  <2> QED BY <2>1 DEF Entry
<1>2. point[r] # "idle" /\ \E p \in DOMAIN Computed(r) : log[i].label = Computed(r)[p]
  BY <1>1 DEF LabelInv, LogInv
<1>3. PICK ls : ls = Computed(r)
  OBVIOUS
<1>4. PICK p \in DOMAIN ls : log[i].label = ls[p]
  BY <1>2, <1>3
<1>5. PICK w \in Windows : w = request[r].window /\ refined[r] = Segmented(request[r].method, w)
  BY <1>2 DEF LabelInv, FoundInv
<1>6. ls = Labels(request[r].method, Segmented(request[r].method, w)) /\ ls # <<>>
  BY <1>3, <1>4, <1>5 DEF Computed
<1>7. \/ ls = AtCues
      \/ ls = Refined(w)
      \/ ls = Align(Refined(w)) /\ Refined(w) # <<>>
  BY <1>6, ComputedLists DEF LabelInv
<1>8. CASE ls = AtCues
  <2>1. ls[p].source = "cue" /\ Ordered(ls) /\ \A o \in DOMAIN ls : ls[o].on = ls[o].t
    BY <1>8, AtCuesOrdered DEF LabelInv
  <2>2. ls = ListOf(ls[p].source, w)
    BY <1>8, <2>1 DEF ListOf
  <2> QED BY <1>1, <1>4, <1>5, <2>1, <2>2
<1>9. CASE ls = Refined(w)
  <2>1. ls[p].source = "segmenter" /\ Ordered(ls) /\ InWindow(ls, w)
    BY <1>9, RefinedOrdered DEF LabelInv
  <2>2. ls = ListOf(ls[p].source, w)
    BY <1>9, <2>1 DEF ListOf
  <2> QED BY <1>1, <1>4, <1>5, <2>1, <2>2
<1>10. CASE ls = Align(Refined(w)) /\ Refined(w) # <<>>
  <2>1. Ordered(Refined(w)) /\ InWindow(Refined(w), w) /\ Refined(w) \in Seq(Label)
    BY RefinedOrdered DEF LabelInv, Ordered
  <2>2. ls[p].source = "aligned"
    BY <1>10, <2>1, AlignSeq
  <2>3. Ordered(ls) /\ InWindow(ls, w)
    BY <1>10, <2>1, AlignKeepsWindow DEF LabelInv
  <2>4. ls = ListOf(ls[p].source, w)
    BY <1>10, <2>2 DEF ListOf
  <2> QED BY <1>1, <1>4, <1>5, <2>3, <2>4
<1> QED BY <1>7, <1>8, <1>9, <1>10

\* Of one list, one cue has one label, and where windows are apart onsets follow each other
\* as their cues do.
LEMMA OneList ==
    ASSUME InputsInv, NEW w \in Windows, NEW ls, Ordered(ls),
           InWindow(ls, w) \/ \A p \in DOMAIN ls : ls[p].on = ls[p].t,
           NEW p \in DOMAIN ls, NEW q \in DOMAIN ls
    PROVE  /\ ls[p].cue = ls[q].cue => ls[p] = ls[q]
           /\ Apart(w) /\ ls[p].cue < ls[q].cue => ls[p].on < ls[q].on
<1>1. /\ p \in Int /\ q \in Int
      /\ \A o \in DOMAIN ls : ls[o].cue \in Nat /\ ls[o].on \in Int /\ ls[o].t \in Int
  BY LabelFields DEF Ordered
<1>2. ls[p].cue = ls[q].cue => p = q
  <2>1. p < q => ls[p].cue < ls[q].cue
    BY DEF Ordered
  <2>2. q < p => ls[q].cue < ls[p].cue
    BY DEF Ordered
  <2> QED BY <1>1, <2>1, <2>2
<1>3. ASSUME Apart(w), ls[p].cue < ls[q].cue PROVE ls[p].on < ls[q].on
  <2>1. PICK h \in Nat : h = w \div 4 /\ w \in Nat
    BY WindowSizes
  <2>2. ls[q].t > ls[p].t /\ ls[q].t - ls[p].t >= w + h
    BY <1>3, <2>1 DEF Apart, Ordered
  <2>3. CASE InWindow(ls, w)
    <3>1. ls[p].on <= ls[p].t + w - 1 /\ ls[q].on >= ls[q].t - h
      BY <1>1, <2>1, <2>3 DEF InWindow, Span
    <3> QED BY <1>1, <2>1, <2>2, <3>1
  <2>4. CASE \A o \in DOMAIN ls : ls[o].on = ls[o].t
    BY <1>1, <2>2, <2>4
  <2> QED BY <2>3, <2>4
<1> QED BY <1>2, <1>3

LEMMA DistinctInv ==
    ASSUME LabelInv
    PROVE  OnsetsAreDistinct
<1> SUFFICES ASSUME NEW i \in DOMAIN log, NEW j \in DOMAIN log, Comparable(log[i], log[j])
             PROVE  LET a == log[i]  b == log[j] IN
                    /\ a.label.cue = b.label.cue => a.label = b.label
                    /\ Apart(request[a.run].window) /\ a.label.cue < b.label.cue => a.label.on < b.label.on
  BY DEF OnsetsAreDistinct
<1>1. /\ ~ IsManual(log[i]) /\ log[i].label.source = log[j].label.source
      /\ request[log[i].run].window = request[log[j].run].window
  BY DEF Comparable
<1>2. ~ IsManual(log[j])
  BY <1>1 DEF IsManual
<1>3. PICK w \in Windows : \E ls :
              /\ w = request[log[i].run].window /\ ls = ListOf(log[i].label.source, w)
              /\ \E p \in DOMAIN ls : log[i].label = ls[p]
              /\ Ordered(ls) /\ (InWindow(ls, w) \/ \A p \in DOMAIN ls : ls[p].on = ls[p].t)
  BY <1>1, EntryIs
<1>4. PICK ls :
              /\ w = request[log[i].run].window /\ ls = ListOf(log[i].label.source, w)
              /\ \E p \in DOMAIN ls : log[i].label = ls[p]
              /\ Ordered(ls) /\ (InWindow(ls, w) \/ \A p \in DOMAIN ls : ls[p].on = ls[p].t)
  BY <1>3
<1>5. \E q \in DOMAIN ls : log[j].label = ls[q]
  <2>1. PICK x \in Windows : \E ks :
              /\ x = request[log[j].run].window /\ ks = ListOf(log[j].label.source, x)
              /\ \E q \in DOMAIN ks : log[j].label = ks[q]
    BY <1>2, EntryIs
  <2>2. PICK ks : /\ x = request[log[j].run].window /\ ks = ListOf(log[j].label.source, x)
                  /\ \E q \in DOMAIN ks : log[j].label = ks[q]
    BY <2>1
  <2>3. ks = ls
    BY <1>1, <1>4, <2>2
  <2> QED BY <2>2, <2>3
<1>6. PICK p \in DOMAIN ls : log[i].label = ls[p]
  BY <1>4
<1>7. PICK q \in DOMAIN ls : log[j].label = ls[q]
  BY <1>5
<1>8. /\ ls[p].cue = ls[q].cue => ls[p] = ls[q]
      /\ Apart(w) /\ ls[p].cue < ls[q].cue => ls[p].on < ls[q].on
  BY <1>4, OneList DEF LabelInv
<1> QED BY <1>4, <1>6, <1>7, <1>8

LEMMA AgreeInv ==
    ASSUME LabelInv
    PROVE  AlignedAgree
<1> SUFFICES ASSUME NEW r \in Runs, point[r] = "done", LogOf(r) # <<>>, LogOf(r)[1].label.source = "aligned"
             PROVE  LET ls == LogOf(r)
                        moved == {i \in DOMAIN ls : \/ ls[i].label.on # refined[r][i].on
                                                    \/ ls[i].label.off # refined[r][i].off}
                        consensus == Consensus(refined[r])  limit == Limit(refined[r])
                    IN /\ Len(ls) = Len(refined[r])
                       /\ \A i \in DOMAIN ls : Abs(ls[i].label.on - ls[i].label.t - consensus) <= limit
                       /\ 2 * Cardinality(moved) < Len(ls)
  BY DEF AlignedAgree
<1>1. PICK n \in Nat : n = Cardinality(Appended(r)) /\ DOMAIN LogOf(r) = 1..n
  BY LogPositions DEF LabelInv
<1>2. /\ n = Len(Computed(r)) /\ Computed(r) \in Seq(Label)
      /\ \A i \in 1..n : LogOf(r)[i].label = Computed(r)[i]
  <2>1. /\ todo[r] = <<>> /\ n + Len(todo[r]) = Len(Computed(r))
        /\ \A i \in 1..n : LogOf(r)[i].label = Computed(r)[i]
    BY <1>1 DEF LabelInv, AppendInv
  <2>2. Len(todo[r]) = 0
    BY <2>1
  <2>3. Computed(r) \in Seq(Label)
    BY ComputedTyped
  <2> QED BY <2>1, <2>2, <2>3
<1>3. LogOf(r) = [i \in 1..n |-> LogOf(r)[i]] /\ Len(LogOf(r)) = n
  <2>1. LogOf(r) = [i \in 1..n |-> LogOf(r)[i]]
    BY <1>1 DEF LogOf
  <2> QED BY <1>1, <2>1
<1>4. 1 \in 1..n
  <2>1. n # 0
    <3>1. n = 0 => LogOf(r) = <<>>
      BY <1>3
    <3> QED BY <3>1
  <2> QED BY <2>1
<1>5. PICK w \in Windows : w = request[r].window /\ refined[r] = Segmented(request[r].method, w)
  BY DEF LabelInv, FoundInv
<1>6. Computed(r) = Labels(request[r].method, Segmented(request[r].method, w))
  BY <1>5 DEF Computed
<1>7. PICK fs : fs = refined[r]
  OBVIOUS
<1>8. Computed(r) = Align(fs) /\ fs # <<>> /\ fs \in Seq(Label)
  <2>1. DOMAIN Computed(r) = 1..n /\ Computed(r) # <<>>
    <3>1. DOMAIN Computed(r) = 1..n
      BY <1>2, LenProperties
    <3> QED BY <1>4, <3>1
  <2>2. Computed(r)[1].source = "aligned"
    BY <1>2, <1>4
  <2>3. Computed(r) # AtCues
    BY <1>4, <2>1, <2>2, AtCuesOrdered DEF LabelInv
  <2>4. Computed(r) # Refined(w)
    BY <1>4, <2>1, <2>2, RefinedOrdered DEF LabelInv
  <2>5. Computed(r) = Align(Refined(w)) /\ Refined(w) # <<>> /\ Segmented(request[r].method, w) = Refined(w)
    BY <1>6, <2>1, <2>3, <2>4, ComputedLists DEF LabelInv
  <2>6. Refined(w) \in Seq(Label)
    BY RefinedOrdered DEF LabelInv, Ordered
  <2> QED BY <1>5, <1>7, <2>5, <2>6
<1>9. DOMAIN fs = 1..n /\ Len(fs) = n
  BY <1>2, <1>8, AlignSeq, LenProperties
<1>10. PICK c \in Int : c = Consensus(fs)
  BY <1>8, ConsensusIsOne
<1>11. PICK limit \in Nat : limit = Limit(fs)
  BY <1>8, ConsensusIsOne
<1>12. ASSUME NEW i \in 1..n
       PROVE  /\ Abs(LogOf(r)[i].label.on - LogOf(r)[i].label.t - c) <= limit
              /\ \/ Abs(fs[i].on - fs[i].t - c) > limit
                 \/ LogOf(r)[i].label.on = fs[i].on /\ LogOf(r)[i].label.off = fs[i].off
  <2>1. PICK a : a = LogOf(r)[i].label
    OBVIOUS
  <2>2. a = Align(fs)[i] /\ fs[i].on \in Int /\ fs[i].t \in Int
    BY <1>2, <1>8, <1>9, <2>1, LabelFields
  <2>3. /\ a \in Label /\ a.t = fs[i].t
        /\ Abs(fs[i].on - fs[i].t - c) > limit => a.on - a.t = c
        /\ ~ (Abs(fs[i].on - fs[i].t - c) > limit) => a.on = fs[i].on /\ a.off = fs[i].off
    BY <1>8, <1>9, <1>10, <1>11, <2>2, AlignMoves
  <2>4. Abs(a.on - a.t - c) <= limit
    <3>1. CASE a.on - a.t = c
      <4>1. Abs(a.on - a.t - c) = 0
        BY <3>1 DEF Abs
      <4> QED BY <4>1
    <3>2. CASE a.on = fs[i].on /\ ~ (Abs(fs[i].on - fs[i].t - c) > limit)
      <4>1. PICK d \in Int : d = fs[i].on - fs[i].t - c
        BY <2>2
      <4>2. Abs(d) \in Nat
        BY DEF Abs
      <4>3. ~ (Abs(d) > limit) /\ a.on - a.t - c = d
        BY <2>3, <3>2, <4>1
      <4> QED BY <4>2, <4>3
    <3> QED BY <2>3, <3>1, <3>2
  <2> QED BY <2>1, <2>3, <2>4
<1> DEFINE moved == {i \in DOMAIN LogOf(r) : \/ LogOf(r)[i].label.on # fs[i].on
                                             \/ LogOf(r)[i].label.off # fs[i].off}
           far == {p \in DOMAIN fs : Abs(fs[p].on - fs[p].t - c) > limit}
<1>13. 2 * Cardinality(moved) < n
  <2>1. moved \in SUBSET far
    BY <1>1, <1>9, <1>12
  <2>2. far \in SUBSET (1..n)
    BY <1>9
  <2>3. 2 * Cardinality(far) < n
    BY <1>8, <1>9, <1>10, <1>11, ConsensusIsOne
  <2> HIDE DEF moved, far
  <2>4. IsFiniteSet(far) /\ Cardinality(far) \in Nat
    BY <2>2, PositionsFinite
  <2>5. Cardinality(moved) <= Cardinality(far) /\ Cardinality(moved) \in Nat
    BY <2>1, <2>4, FS_Subset, FS_CardinalityType
  <2> QED BY <2>3, <2>4, <2>5
<1> QED BY <1>1, <1>3, <1>7, <1>9, <1>10, <1>11, <1>12, <1>13

LEMMA LabelsInvariant == Spec => []LabelInv
BY InitLabels, StepsKeepLabels, PTL DEF Spec

\* labelling.py:144-188, 230-273: for every take, activity, window and fractions, where
\* windows do not overlap one gesture is never the instance of two cues and labels follow
\* each other as their cues do, aligned or not; and runs that race, or run again after one
\* was killed, agree on each cue.
THEOREM GesturesDistinct == Spec => []OnsetsAreDistinct
BY LabelsInvariant, DistinctInv, PTL

\* labelling.py:230-273: a finished aligned set, whatever was appended between its labels,
\* is complete, agrees with its consensus within two deviations, and has most of its labels
\* where they were found.
THEOREM AlignedSetsAgree == Spec => []AlignedAgree
BY LabelsInvariant, AgreeInv, PTL
=============================================================================

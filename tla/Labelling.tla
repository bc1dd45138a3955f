----------------------------- MODULE Labelling -----------------------------
(***************************************************************************)
(* Labels from cues: run_label of the command line and relabel of the web  *)
(* front end (labelling.py), several at a time on one session, each of     *)
(* which may be killed.  One cued take; its activity is one value a tick,  *)
(* which stands for activity_signal's motion energy.                       *)
(***************************************************************************)
EXTENDS Integers, Sequences, FiniteSets, Positions

CONSTANTS
    Runs,        \* labelling runs
    Signals,     \* activities a take may have: functions from ticks to energies
    Cues,        \* the take's cue events: sequences of [t, countIn]
    Methods,     \* what a request may name as its method
    Windows,     \* window_s, in ticks
    OnPercent, OffPercent, MinPeakOverFloor,   \* ON_FRACTION, OFF_FRACTION, MIN_PEAK_OVER_FLOOR
    MinLimit,    \* 0.02 s, in ticks
    MaxManual    \* bound: labels placed by hand

ASSUME LabellingAssumption ==
    /\ Windows \subseteq {w \in Nat : w % 4 = 0} /\ OnPercent \in 0..100 /\ OffPercent \in 0..100
    /\ MinPeakOverFloor \in Nat /\ MinLimit \in Nat /\ MaxManual \in Nat

\* A signal has a value every tick from its first to its last; a take's cues are a list.
ASSUME TakeAssumption ==
    /\ \A s \in Signals :
          /\ DOMAIN s \subseteq Int /\ \A t, u \in DOMAIN s : t..u \subseteq DOMAIN s
          /\ \A t \in DOMAIN s : s[t] \in Nat
    /\ \A c \in Cues : c \in Seq([t : Int, countIn : BOOLEAN])

VARIABLES
    signal, cues,  \* the take on disk: its records and its cue events
    health,        \* whether its metadata has the per-address counts (it has not after a crash)
    log,           \* label events in events.jsonl, in the order they were appended
    point,         \* point[r]: where run r is
    request,       \* request[r]: its method and window, once it began
    refined,       \* refined[r]: the instances it found
    todo           \* todo[r]: labels it has still to append

vars == <<signal, cues, health, log, point, request, refined, todo>>

Abs(x) == IF x < 0 THEN -x ELSE x

-----------------------------------------------------------------------------
(* One window *)

\* _median: of an even number of values the upper one.
Median(s) ==
    IF s = <<>> THEN 0
    ELSE CHOOSE v \in {s[i] : i \in DOMAIN s} :
            /\ Cardinality({i \in DOMAIN s : s[i] < v}) <= Len(s) \div 2
            /\ Cardinality({i \in DOMAIN s : s[i] <= v}) > Len(s) \div 2

\* Mutant: the window opens as long before the cue as it closes after it.
MutSpan(t, w) == (t - w)..(t + w - 1)

\* The ticks searched for the gesture of a cue.
Span(t, w) == (t - w \div 4)..(t + w - 1)

\* activity_signal: without counts in the metadata no address is picked.
Activity == IF health THEN signal ELSE [t \in {} |-> 0]

Searched(t, w) == Span(t, w) \cap DOMAIN Activity

Values(ticks) ==
    LET first == CHOOSE t \in ticks : \A u \in ticks : t <= u
    IN [i \in 1..Cardinality(ticks) |-> Activity[first + i - 1]]

Highest(values) == CHOOSE v \in values : \A u \in values : u <= v

\* An instance is believed when its peak clears the floor of its window.
Found(t, w) ==
    LET ticks == Searched(t, w)
        peak  == Highest({Activity[u] : u \in ticks})
    IN Cardinality(ticks) >= 3 /\ peak > 0 /\ peak >= MinPeakOverFloor * Median(Values(ticks))

\* Back from the first peak to where the activity rose above the onset level, and on to
\* where it fell to the offset level.
Instance(t, w) ==
    LET ticks == Searched(t, w)
        floor == Median(Values(ticks))
        peak  == Highest({Activity[u] : u \in ticks})
        at    == CHOOSE u \in ticks : Activity[u] = peak /\ \A v \in ticks : v < u => Activity[v] # peak
        above(u, percent) == 100 * (Activity[u] - floor) > percent * (peak - floor)
    IN [on  |-> CHOOSE u \in ticks :
                    /\ u <= at /\ \A v \in u..(at - 1) : above(v, OnPercent)
                    /\ u - 1 \in ticks => ~ above(u - 1, OnPercent),
        off |-> CHOOSE u \in ticks :
                    /\ u >= at /\ \A v \in (at + 1)..u : above(v, OffPercent)
                    /\ u + 1 \in ticks => ~ above(u + 1, OffPercent)]

-----------------------------------------------------------------------------
(* One take *)

\* The cues that ask for a gesture, by their positions.
Armed == {i \in DOMAIN cues : ~ cues[i].countIn}

LabelAt(i, on, off, source) == [source |-> source, cue |-> i, t |-> cues[i].t, on |-> on, off |-> off]

AtCues == LET of == Ascending(Armed)
          IN [j \in DOMAIN of |-> LabelAt(of[j], cues[of[j]].t, cues[of[j]].t, "cue")]

Refined(w) ==
    LET of == Ascending({i \in Armed : Found(cues[i].t, w)})
    IN [j \in DOMAIN of |->
          LET x == Instance(cues[of[j]].t, w) IN LabelAt(of[j], x.on, x.off, "segmenter")]

Reactions(ls) == [i \in DOMAIN ls |-> ls[i].on - ls[i].t]
Consensus(ls) == Median(Reactions(ls))
Limit(ls) ==
    LET consensus == Consensus(ls)
        mad == Median([i \in DOMAIN ls |-> Abs(ls[i].on - ls[i].t - consensus)])
    IN IF 2 * mad > MinLimit THEN 2 * mad ELSE MinLimit

Moved(l, shift) ==
    [source |-> "aligned", cue |-> l.cue, t |-> l.t, on |-> l.on + shift, off |-> l.off + shift]

\* Mutant: only an onset later than the consensus is moved.
MutAlign(ls) ==
    LET consensus == Consensus(ls)  limit == Limit(ls) IN
    [i \in DOMAIN ls |->
        LET off == ls[i].on - ls[i].t - consensus IN Moved(ls[i], IF off > limit THEN -off ELSE 0)]

\* _align: an onset too far from the consensus is moved onto it, and its offset with it.
Align(ls) ==
    LET consensus == Consensus(ls)  limit == Limit(ls) IN
    [i \in DOMAIN ls |->
        LET off == ls[i].on - ls[i].t - consensus IN Moved(ls[i], IF Abs(off) > limit THEN -off ELSE 0)]

\* labels_from_cues: what is labelled, and from which instances.  Too few instances are
\* never aligned, whatever method was asked for.
Segmented(method, w) ==
    IF method = "cue" \/ DOMAIN Activity = {} THEN <<>> ELSE Refined(w)

Labels(method, found) ==
    IF method = "cue" THEN AtCues
    ELSE IF method = "segmenter" \/ Len(found) < 3 THEN found ELSE Align(found)

Rejected(method, found) ==
    method \notin {"cue", "segmenter", "aligned"} /\ Len(found) >= 3

-----------------------------------------------------------------------------
(* Runs *)

Init ==
    /\ signal \in Signals /\ cues \in Cues /\ health \in BOOLEAN
    /\ log = <<>>
    /\ point = [r \in Runs |-> "idle"]
    /\ request = [r \in Runs |-> [method |-> "none", window |-> 0]]
    /\ refined = [r \in Runs |-> <<>>] /\ todo = [r \in Runs |-> <<>>]

Stay == UNCHANGED <<signal, cues, health>>

Goto(r, at) == point' = [point EXCEPT ![r] = at]

\* The session is loaded and its labels computed.
Load(r) ==
    /\ point[r] = "idle"
    /\ \E method \in Methods, w \in Windows :
          LET found == Segmented(method, w) IN
          /\ request' = [request EXCEPT ![r] = [method |-> method, window |-> w]]
          /\ refined' = [refined EXCEPT ![r] = found]
          /\ IF Rejected(method, found)
             THEN Goto(r, "failed") /\ UNCHANGED todo
             ELSE Goto(r, "append") /\ todo' = [todo EXCEPT ![r] = Labels(method, found)]
    /\ UNCHANGED log /\ Stay

AppendLabel(r) ==
    /\ point[r] = "append" /\ todo[r] # <<>>
    /\ log' = Append(log, [label |-> Head(todo[r]), run |-> r])
    /\ todo' = [todo EXCEPT ![r] = Tail(@)]
    /\ UNCHANGED <<point, request, refined>> /\ Stay

Finish(r) ==
    /\ point[r] = "append" /\ todo[r] = <<>>
    /\ Goto(r, "done")
    /\ UNCHANGED <<log, todo, request, refined>> /\ Stay

\* The process is killed; what it has appended stays.
Kill(r) ==
    /\ point[r] = "append"
    /\ Goto(r, "failed")
    /\ UNCHANGED <<log, todo, request, refined>> /\ Stay

IsManual(e) == e.label.source = "manual"

\* manual_label: a label placed by hand, anywhere, on no cue.
ByHand == [source |-> "manual", cue |-> 0, t |-> 0, on |-> 0, off |-> 0]

ManualLabel ==
    /\ Cardinality({i \in DOMAIN log : IsManual(log[i])}) < MaxManual
    /\ \E r \in Runs : log' = Append(log, [label |-> ByHand, run |-> r])
    /\ UNCHANGED <<point, todo, request, refined>> /\ Stay

Next == ManualLabel \/ \E r \in Runs : Load(r) \/ AppendLabel(r) \/ Finish(r) \/ Kill(r)

Spec == Init /\ [][Next]_vars

-----------------------------------------------------------------------------
(* What labels promise *)

\* Cues at different times, and as far apart as a window is long.
Apart(w) == \A i, j \in DOMAIN cues :
    i < j => cues[j].t > cues[i].t /\ cues[j].t - cues[i].t >= w + w \div 4

Comparable(a, b) ==
    /\ ~ IsManual(a) /\ a.label.source = b.label.source
    /\ request[a.run].window = request[b.run].window

\* labelling.py:144-188, 230-273: where windows do not overlap, one gesture is never the
\* instance of two cues, aligned or not, and labels follow each other as their cues do.
\* Runs over one take at the same time, or again after one was killed, agree on each cue.
OnsetsAreDistinct ==
    \A i, j \in DOMAIN log :
        LET a == log[i]  b == log[j] IN
        Comparable(a, b) =>
            /\ a.label.cue = b.label.cue => a.label = b.label
            /\ Apart(request[a.run].window) /\ a.label.cue < b.label.cue => a.label.on < b.label.on

\* What run r has appended, in order.
LogOf(r) == LET of == Ascending({i \in DOMAIN log : log[i].run = r /\ ~ IsManual(log[i])})
            IN [i \in DOMAIN of |-> log[of[i]]]

\* _align's own description: in a finished aligned set every onset agrees with the consensus
\* of what was found, within two deviations, and most of the onsets are the ones found.
AlignedAgree ==
    \A r \in Runs : point[r] = "done" =>
        LET ls == LogOf(r)
            moved == {i \in DOMAIN ls : ls[i].label.on # refined[r][i].on \/ ls[i].label.off # refined[r][i].off}
            consensus == Consensus(refined[r])  limit == Limit(refined[r])
        IN ls # <<>> /\ ls[1].label.source = "aligned" =>
               /\ Len(ls) = Len(refined[r])
               /\ \A i \in DOMAIN ls : Abs(ls[i].label.on - ls[i].label.t - consensus) <= limit
               /\ 2 * Cardinality(moved) < Len(ls)

\* commands.py:41-43, "appending another set. Analyses select by source, so both remain
\* available": selecting a source gives one label for each cue.
OneLabelPerCue ==
    \A i, j \in DOMAIN log :
        ~ IsManual(log[i]) /\ log[i].label.source = log[j].label.source
            /\ log[i].label.cue = log[j].label.cue => i = j
=============================================================================

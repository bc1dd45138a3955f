---------------------------- MODULE LabellingMC ----------------------------
(***************************************************************************)
(* Takes of four gestures, cued ten ticks apart after a count-in; each is  *)
(* early, in time, late, or missed.                                        *)
(***************************************************************************)
EXTENDS Labelling, TLC

Pulse(at, t) == IF t = at THEN 4 ELSE IF t = at + 1 THEN 9 ELSE IF t = at + 2 THEN 2 ELSE 0

Early == 1
InTime == 3
Late == 7
Missed == 10

Gestures == {<<Late, Early, InTime, InTime>>, <<InTime, Missed, Missed, Late>>, <<InTime, InTime, Early, InTime>>}

SignalOf(g) == [t \in 0..39 |-> LET p == g[t \div 10 + 1] IN
                                IF p = Missed THEN 1 ELSE Pulse(p, t % 10)]

MCSignals == {SignalOf(g) : g \in Gestures}
MCCues == {<<[t |-> -8, countIn |-> TRUE], [t |-> 2, countIn |-> FALSE], [t |-> 12, countIn |-> FALSE],
             [t |-> 22, countIn |-> FALSE], [t |-> 32, countIn |-> FALSE]>>}
MCSymmetry == Permutations(Runs)
=============================================================================

----------------------------- MODULE ScoringMC -----------------------------
(***************************************************************************)
(* Small corpora for Scoring.  Recorded clocks start where they like, and  *)
(* not at the same time in two takes.                                      *)
(***************************************************************************)
EXTENDS Scoring

Stroke(t) == [t |-> t, gesture |-> TRUE]
Rest(t)   == [t |-> t, gesture |-> FALSE]
Aligned(t, class) == [t |-> t, class |-> class, source |-> "aligned"]

Sparse == [usable |-> TRUE, ambient |-> FALSE,
           records |-> <<Rest(20), Stroke(21), Stroke(26)>>,
           labels  |-> <<Aligned(21, "tap"), [t |-> 20, class |-> "tap", source |-> "cue"],
                         Aligned(26, "tap")>>]

\* Gestures closer together than the tolerance, and one reference in the settling period.
Dense == [usable |-> TRUE, ambient |-> FALSE,
          records |-> <<Stroke(40), Stroke(42)>>,
          labels  |-> <<Aligned(40, "tap"), Aligned(42, "tap"), Aligned(41, "shake"), Aligned(41, "tap")>>]

Ambient == [usable |-> TRUE, ambient |-> TRUE, records |-> <<Rest(7), Stroke(9)>>, labels |-> <<>>]
Short   == [usable |-> TRUE, ambient |-> FALSE, records |-> <<Rest(60), Stroke(61)>>,
            labels |-> <<Aligned(61, "tap")>>]
\* Two ports: the messages are not in the order of their stamps.
Crossed == [usable |-> TRUE, ambient |-> FALSE, records |-> <<Stroke(81), Stroke(79)>>,
            labels |-> <<Aligned(79, "tap"), Aligned(81, "tap")>>]
Empty   == [usable |-> TRUE, ambient |-> FALSE, records |-> <<>>, labels |-> <<>>]
Bad     == [Short EXCEPT !.usable = FALSE]

MCCorpora == {<<>>, <<Bad>>, <<Sparse>>, <<Dense>>, <<Crossed>>, <<Ambient, Empty, Short>>}

MCOptions == {[split |-> "train", unlock |-> FALSE, unhealthy |-> FALSE],
              [split |-> "test",  unlock |-> FALSE, unhealthy |-> FALSE],
              [split |-> "test",  unlock |-> TRUE,  unhealthy |-> TRUE]}
=============================================================================

---------------------------- MODULE WebCaptureMC ----------------------------
(***************************************************************************)
(* WebCapture for TLC.  Recordings and splits are told apart by nothing    *)
(* but their values.                                                       *)
(***************************************************************************)
EXTENDS WebCapture, TLC

MCSymmetry == Permutations(Recordings) \cup Permutations(Splits)
=============================================================================

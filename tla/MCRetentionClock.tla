------------------------- MODULE MCRetentionClock --------------------------
(***************************************************************************)
(* Retention with two fingerprints, so that one change can overtake        *)
(* another, for TLC.                                                       *)
(***************************************************************************)
EXTENDS Retention, TLC

\* Nothing tells one fingerprint from another.
Alike == Permutations(Ids)
=============================================================================

--------------------------- MODULE MCProfileCard ---------------------------
(***************************************************************************)
(* ProfileCard with the three photos a profile has at most, and one load   *)
(* more than a turn and back starts.                                       *)
(***************************************************************************)
EXTENDS ProfileCard, TLC

Symmetry == Permutations(Loads) \cup Permutations(URLs)
=============================================================================

-------------------------- MODULE MCSettingsScreen --------------------------
(***************************************************************************)
(* SettingsScreen with one photo slot and two uploads, enough for one to   *)
(* come while another is under way, or with text fields alone.             *)
(***************************************************************************)
EXTENDS SettingsScreen, TLC

\* Uploads are alike.
Symmetry == Permutations(Uploads)

\* A bound: ages are typed into screens where no photo has been picked.
AgesApart ==
  (\E p \in Profiles : p.age \in Ages) \/ cells.age \in Ages =>
    stored = {} /\ \A u \in Uploads : upload[u].state = "unused"
=============================================================================

--------------------------- MODULE MCInstaSignUp ---------------------------
(***************************************************************************)
(* InstaSignUp with two presses of Register and two addresses; a second    *)
(* name, password or photo would tell apart no more than the empty ones do.*)
(* No symmetry: HudsLeave is liveness.                                     *)
(***************************************************************************)
EXTENDS InstaSignUp
=============================================================================

-------------------------- MODULE MCFirestoreWrites --------------------------
(***************************************************************************)
(* FirestoreWrites with two users, three writes of which one is refused,   *)
(* and a pipeline of two: one write waits outside it, a refused one stands *)
(* before, between or behind accepted ones, and three disturbances can hit *)
(* one write again and again.                                              *)
(***************************************************************************)
EXTENDS FirestoreWrites
=============================================================================

----------------------------- MODULE MCHomeDeck -----------------------------
(***************************************************************************)
(* HomeDeck with the signed-in user and one other, and two queries, enough *)
(* for one to answer late.                                                 *)
(***************************************************************************)
EXTENDS HomeDeck

\* Save Data's default and an age: two ages make a range miss one of them.
MCAges == {-1, 20}
MCOneAge == {20}

\* Bound: the other user never saves without having typed an age.
OthersTypeAges == \A u \in Others : age[u] # -1
=============================================================================

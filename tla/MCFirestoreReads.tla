-------------------------- MODULE MCFirestoreReads --------------------------
(***************************************************************************)
(* FirestoreReads with two profiles, both of them cached as results of the *)
(* deck while the server stores only the first: the other one is in limbo. *)
(* Two reads are enough for one to join or to follow the other's listen.   *)
(***************************************************************************)
EXTENDS FirestoreReads

CONSTANTS d1, d2

MCAsked == {Deck, d1}
MCAskedDeck == {Deck}

MCStored == {(d1 :> "in") @@ (d2 :> "gone")}

\* A profile leaves the deck, and one enters it.
MCChanges == {<<d1, "out">>, <<d2, "in">>}
=============================================================================

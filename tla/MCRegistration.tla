--------------------------- MODULE MCRegistration ---------------------------
(***************************************************************************)
(* Registration with two attempts and two addresses: the second attempt    *)
(* may sign in while the first still uploads, and then both save under the *)
(* second one's uid, one write behind the other.                           *)
(***************************************************************************)
EXTENDS Registration, TLC

\* For safety only: attempts are alike, and so are addresses.
Symmetry == Permutations(Attempts) \cup Permutations(Emails)

\* A bound on what is typed: each address comes with a name of its own.
NameOf == CHOOSE f \in [Emails -> Names] : \A e, g \in Emails : f[e] = f[g] => e = g

OwnNames ==
  Filled(form.email) /\ Filled(form.name) => form.name = NameOf[form.email]
=============================================================================

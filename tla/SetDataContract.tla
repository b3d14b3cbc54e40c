--------------------------- MODULE SetDataContract ---------------------------
(***************************************************************************)
(* What setData promises the screens, whatever the client does underneath. *)
(* Each user's writes are settled one by one in the order in which the app *)
(* made them, across reconnections and restarts of the app.  Until it is   *)
(* settled a write may be stored again and again, so the document may for  *)
(* a while go back to an earlier write, but never behind a settled one.    *)
(* The app is told ok only of a stored write, failed only of a refused     *)
(* one, and of each at most once; after a restart it is told nothing.      *)
(***************************************************************************)
EXTENDS Naturals, Sequences

CONSTANTS Users, Writes, Refused, Nothing

VARIABLES
  issued,     \* each user's writes, in the order of the calls
  done,       \* how many of them are settled
  committed,  \* the writes stored at some time
  stored,     \* the write each user's document is the result of
  outcome     \* what the app has been told

vars == <<issued, done, committed, stored, outcome>>

Init ==
  /\ issued = [u \in Users |-> <<>>]
  /\ done = [u \in Users |-> 0]
  /\ committed = {}
  /\ stored = [u \in Users |-> Nothing]
  /\ outcome = [w \in Writes |-> "unwritten"]

Issue(u, w) ==
  /\ outcome[w] = "unwritten"
  /\ issued' = [issued EXCEPT ![u] = Append(@, w)]
  /\ outcome' = [outcome EXCEPT ![w] = "pending"]
  /\ UNCHANGED <<done, committed, stored>>

Over(w) == w \in Refused \union committed

\* The server stores the i-th write; those before it are over.
Store(u, i) ==
  /\ i > done[u] /\ issued[u][i] \notin Refused
  /\ \A j \in 1 .. i - 1 : Over(issued[u][j])
  /\ stored' = [stored EXCEPT ![u] = issued[u][i]]
  /\ committed' = committed \union {issued[u][i]}
  /\ UNCHANGED <<issued, done, outcome>>

\* The document holds the i-th write or a later one.
HasReached(u, i) == \E j \in i .. Len(issued[u]) : stored[u] = issued[u][j]

CanSettle(u) ==
  LET next == done[u] + 1
  IN  /\ next <= Len(issued[u])
      /\ issued[u][next] \in Refused \/ HasReached(u, next)

Answer(w) == IF w \in Refused THEN "failed" ELSE "ok"

\* The write is over for the client, and the app is told if it still waits.
Settle(u) ==
  LET w == issued[u][done[u] + 1]
  IN  /\ CanSettle(u)
      /\ done' = [done EXCEPT ![u] = @ + 1]
      /\ outcome' = [outcome EXCEPT ![w] = IF @ = "pending" THEN Answer(w) ELSE @]
      /\ UNCHANGED <<issued, committed, stored>>

Forgotten(told) == [w \in Writes |-> IF told[w] = "pending" THEN "forgotten" ELSE told[w]]

\* The app is ended; what it waited for is never answered.
Die ==
  /\ outcome' = Forgotten(outcome)
  /\ UNCHANGED <<issued, done, committed, stored>>

\* The app is told of a stored write and ended before that is noted.
DieTold(u) ==
  LET w == issued[u][done[u] + 1]
  IN  /\ CanSettle(u) /\ w \notin Refused
      /\ outcome' = Forgotten([outcome EXCEPT ![w] = IF @ = "pending" THEN "ok" ELSE @])
      /\ UNCHANGED <<issued, done, committed, stored>>

Next ==
  \/ \E u \in Users, w \in Writes : Issue(u, w)
  \/ \E u \in Users : \E i \in DOMAIN issued[u] : Store(u, i)
  \/ \E u \in Users : Settle(u) \/ DieTold(u)
  \/ Die

Spec == Init /\ [][Next]_vars

-----------------------------------------------------------------------------
Accepted(u) == {i \in DOMAIN issued[u] : issued[u][i] \notin Refused}

\* When all of a user's writes are settled, the document is the result of the
\* last one the server accepts, however often writes were sent.
LastWriteWins ==
  \A u \in Users : done[u] = Len(issued[u]) =>
    \/ Accepted(u) = {} /\ stored[u] = Nothing
    \/ \E i \in Accepted(u) : /\ stored[u] = issued[u][i]
                              /\ \A j \in Accepted(u) : j <= i

\* Success is only reported of a write that was stored, failure only of one
\* the server refuses.
AnswersAreTrue ==
  \A w \in Writes : /\ outcome[w] = "ok" => w \in committed
                    /\ outcome[w] = "failed" => w \in Refused
=============================================================================

--------------------------- MODULE FirestoreStream ---------------------------
(***************************************************************************)
(* A long-lived stream of the Firestore client (remote/stream.cc): the     *)
(* connection the client writes over, and the one it watches over.         *)
(*                                                                         *)
(*   state    state_; "Open" stands for Open and Healthy, which differ     *)
(*            only in whether an Unauthenticated error drops the token     *)
(*   asked    token requests not answered yet: "current" was made under    *)
(*            this close_count_, a "stale" one before the last close       *)
(*   backoff  backoff_ has an operation scheduled                          *)
(*   idle     idleness_timer_ is scheduled                                 *)
(*   sound    no HARD_ASSERT of the stream or of its owner has failed; a   *)
(*            failed one ends the app                                      *)
(*                                                                         *)
(* Each operator is the effect of one method on the record.  How long a    *)
(* backoff takes is left open.                                             *)
(***************************************************************************)
EXTENDS Naturals

StreamStates == {"Initial", "Starting", "Open", "Error", "Backoff"}

StreamType == [state : StreamStates, asked : SUBSET {"current", "stale"},
               backoff : BOOLEAN, idle : BOOLEAN, sound : BOOLEAN]

NewStream == [state |-> "Initial", asked |-> {},
              backoff |-> FALSE, idle |-> FALSE, sound |-> TRUE]

\* HARD_ASSERT(condition)
HardAssert(s, condition) == [s EXCEPT !.sound = @ /\ condition]

IsOpen(s) == s.state = "Open"

IsStarted(s) == s.state \in {"Starting", "Backoff", "Open"}

RequestCredentials(s) == [s EXCEPT !.asked = @ \union {"current"}]

BackoffAndTryRestarting(s) ==
  [HardAssert(s, s.state = "Error") EXCEPT !.state = "Backoff", !.backoff = TRUE]

Start(s) ==
  IF s.state = "Error"
  THEN BackoffAndTryRestarting(s)
  ELSE RequestCredentials([HardAssert(s, s.state = "Initial") EXCEPT !.state = "Starting"])

\* The operation given to BackoffAndRun.
BackoffElapsed(s) ==
  LET started == Start([HardAssert(s, s.state = "Backoff")
                          EXCEPT !.state = "Initial", !.backoff = FALSE])
  IN  HardAssert(started, IsStarted(started))

InhibitBackoff(s) == [HardAssert(s, ~IsStarted(s)) EXCEPT !.state = "Initial"]

\* ResumeStartWithCredentials with a token: the gRPC stream is created and
\* started, and says at once that it is open.
Resumed(s) ==
  [HardAssert(s, s.state = "Starting") EXCEPT !.state = "Open"]

\* A token request is answered; one from before a close is not acted upon.
CredentialsArrived(s, request) == [s EXCEPT !.asked = @ \ {request}]

MarkIdle(s) == IF IsOpen(s) THEN [s EXCEPT !.idle = TRUE] ELSE s

CancelIdleCheck(s) == [s EXCEPT !.idle = FALSE]

\* Stream::Write
Written(s) == CancelIdleCheck(HardAssert(s, IsOpen(s)))

\* As Closed below, with the backoff timer left running.
ClosedBackoffKept(s, graceful) ==
  [HardAssert(s, IsStarted(s))
     EXCEPT !.state = IF graceful THEN "Initial" ELSE "Error", !.idle = FALSE,
            !.asked = IF @ = {} THEN {} ELSE {"stale"}]

\* Close, up to the call that tells the owner: both timers are cancelled and
\* the token requests under way become stale.
Closed(s, graceful) ==
  [HardAssert(s, IsStarted(s))
     EXCEPT !.state = IF graceful THEN "Initial" ELSE "Error",
            !.idle = FALSE,
            !.backoff = FALSE,
            !.asked = IF @ = {} THEN {} ELSE {"stale"}]
=============================================================================

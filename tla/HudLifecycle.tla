---------------------------- MODULE HudLifecycle ----------------------------
(***************************************************************************)
(* One JGProgressHUD in the hands of any screen: show, dismiss and         *)
(* dismiss(afterDelay:) are called in every order, while the fades run and *)
(* the delayed blocks fire.  What the screens rely on is stated here once. *)
(***************************************************************************)
EXTENDS ProgressHUD

CONSTANT MaxTimers   \* bound: delayed dismissals outstanding at once
ASSUME MaxTimersAssumption == MaxTimers \in Nat

VARIABLES
  hud,
  asked     \* a dismissal was asked of the HUD since it last came up

vars == <<hud, asked>>

TypeOK == hud \in HudType /\ hud.timers <= MaxTimers /\ asked \in BOOLEAN

Init == hud = NewHud /\ asked = FALSE

CallShow == hud' = Show(hud) /\ UNCHANGED asked

CallDismiss ==
  /\ hud' = Dismiss(hud)
  /\ asked' = (asked \/ Visible(hud))

CallDismissAfterDelay ==
  /\ hud.timers < MaxTimers
  /\ hud' = DismissAfterDelay(hud)
  /\ UNCHANGED asked

Timer ==
  /\ hud.timers > 0
  /\ hud' = TimerFired(hud)
  /\ asked' = (asked \/ Visible(hud))

Animated ==
  /\ Transitioning(hud)
  /\ hud' = AnimationFinished(hud)
  /\ asked' = (asked /\ Visible(hud'))

Next == CallShow \/ CallDismiss \/ CallDismissAfterDelay \/ Timer \/ Animated

Spec == Init /\ [][Next]_vars

\* Core Animation ends its animations and the main queue runs its blocks.
FairSpec == Spec /\ WF_vars(Timer) /\ WF_vars(Animated)

\* A dismissal asked for in the middle of a fade is neither lost nor carried
\* over to a later presentation (_dismissAfterTransitionFinished).
DismissalIsKept ==
  asked <=> hud.phase = "hiding" \/ (hud.phase = "showing" /\ hud.later)

NoStaleDismissal == hud.later => Transitioning(hud)

\* Whoever asks a visible HUD to leave sees it gone, even if show is called
\* over and over meanwhile.
AskedHudLeaves == asked ~> ~Visible(hud)
=============================================================================

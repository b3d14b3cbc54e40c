----------------------------- MODULE ProgressHUD -----------------------------
(***************************************************************************)
(* A JGProgressHUD: the overlay every screen of TinderClone shows while    *)
(* Firebase works.  A HUD is a record, so that a screen can own one        *)
(* (registerHud) or make a fresh one per call (errorHud, the deck's hud).  *)
(*                                                                         *)
(*   phase   "hidden"   targetView = nil                                   *)
(*           "showing"  added to its view, the fade-in runs (transitioning)*)
(*           "shown"    fully visible                                      *)
(*           "hiding"   the fade-out runs (transitioning)                  *)
(*   later   _dismissAfterTransitionFinished                               *)
(*   timers  blocks dispatched by dismissAfterDelay that have not run yet  *)
(*                                                                         *)
(* Each operator is the effect of one method on the record.                *)
(***************************************************************************)
EXTENDS Naturals

HudPhases == {"hidden", "showing", "shown", "hiding"}

HudType == [phase : HudPhases, later : BOOLEAN, timers : Nat]

NewHud == [phase |-> "hidden", later |-> FALSE, timers |-> 0]

\* isVisible: the HUD has a superview.
Visible(hud) == hud.phase # "hidden"

Transitioning(hud) == hud.phase \in {"showing", "hiding"}

\* The HUD swallows every touch of its view.  A view whose alpha is 0 gets no
\* touches, and the fade-out sets the alpha to 0 as soon as it starts.
BlocksTouches(hud) == hud.phase \in {"showing", "shown"}

\* show(in:), ignored while a transition runs or the HUD is up.
Show(hud) ==
  IF Visible(hud) THEN hud ELSE [hud EXCEPT !.phase = "showing"]

DismissIgnoredInFades(hud) ==
  IF hud.phase = "shown" THEN [hud EXCEPT !.phase = "hiding"] ELSE hud

\* dismiss(): remembered while a transition runs, ignored when hidden.
Dismiss(hud) ==
  CASE Transitioning(hud)    -> [hud EXCEPT !.later = TRUE]
    [] hud.phase = "shown"   -> [hud EXCEPT !.phase = "hiding"]
    [] hud.phase = "hidden"  -> hud

\* dismiss(afterDelay:): only schedules a block on the main queue.
DismissAfterDelay(hud) == [hud EXCEPT !.timers = @ + 1]

\* The block of one dismiss(afterDelay:) runs.
TimerFired(hud) ==
  LET fired == [hud EXCEPT !.timers = @ - 1]
  IN  IF Visible(hud) THEN Dismiss(fired) ELSE fired

CleanUpAfterPresentationForgetting(hud) ==
  [hud EXCEPT !.phase = "shown", !.later = FALSE]

CleanUpAfterPresentation(hud) ==
  [hud EXCEPT !.phase = IF hud.later THEN "hiding" ELSE "shown",
              !.later = FALSE]

CleanUpAfterDismissalFlagKept(hud) == [hud EXCEPT !.phase = "hidden"]

CleanUpAfterDismissal(hud) == [hud EXCEPT !.phase = "hidden", !.later = FALSE]

\* animationDidFinish(presenting).
AnimationFinished(hud) ==
  IF hud.phase = "showing" THEN CleanUpAfterPresentation(hud)
                           ELSE CleanUpAfterDismissal(hud)
=============================================================================

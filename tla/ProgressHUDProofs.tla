------------------------- MODULE ProgressHUDProofs -------------------------
(***************************************************************************)
(* Lemmas about the methods of a HUD, for the proofs about the screens     *)
(* that show one, and proofs about HudLifecycle: about a HUD (anyHud) that *)
(* is called in any order, with any number of delayed dismissals.          *)
(***************************************************************************)
EXTENDS ProgressHUD, TLAPS

CONSTANT AnyTimers
VARIABLES anyHud, anyAsked

Life == INSTANCE HudLifecycle WITH MaxTimers <- AnyTimers, hud <- anyHud, asked <- anyAsked

-----------------------------------------------------------------------------
(* The methods.                                                            *)

\* Every method turns a HUD into a HUD (JGProgressHUD's show, dismiss and the
\* clean-ups after a fade).
LEMMA HudTypeKept ==
  ASSUME NEW h \in HudType
  PROVE  /\ Show(h) \in HudType
         /\ Dismiss(h) \in HudType
         /\ DismissAfterDelay(h) \in HudType
         /\ AnimationFinished(h) \in HudType
         /\ h.timers > 0 => TimerFired(h) \in HudType
<1> USE DEF HudType, HudPhases, Visible, Transitioning
<1>1. \A g \in HudType : Dismiss(g) \in HudType
      BY DEF Dismiss
<1>2. Show(h) \in HudType
      BY DEF Show
<1>3. DismissAfterDelay(h) \in HudType
      BY DEF DismissAfterDelay
<1>4. AnimationFinished(h) \in HudType
      BY DEF AnimationFinished, CleanUpAfterPresentation, CleanUpAfterDismissal
<1>5. h.timers > 0 => [h EXCEPT !.timers = @ - 1] \in HudType
      OBVIOUS
<1>6. h.timers > 0 => TimerFired(h) \in HudType
      BY <1>1, <1>5 DEF TimerFired
<1> QED BY <1>1, <1>2, <1>3, <1>4, <1>6

\* Up for as long as nobody dismisses it: no dismissal is scheduled or
\* remembered.
Held(h) == h.phase \in {"showing", "shown"} /\ ~h.later /\ h.timers = 0

\* A fresh HUD that is shown is held, covers its view, and stays so when its
\* fade-in ends.
LEMMA HeldKept ==
  /\ Held(Show(NewHud))
  /\ \A h : Held(h) => BlocksTouches(h)
  /\ \A h \in HudType : Held(h) /\ Transitioning(h) => Held(AnimationFinished(h))
<1>1. Held(Show(NewHud))
      BY DEF Held, Show, NewHud, Visible
<1>2. \A h : Held(h) => BlocksTouches(h)
      BY DEF Held, BlocksTouches
<1>3. ASSUME NEW h \in HudType, Held(h), Transitioning(h) PROVE Held(AnimationFinished(h))
      BY <1>3 DEF Held, Transitioning, AnimationFinished, CleanUpAfterPresentation, HudType
<1> QED BY <1>1, <1>2, <1>3

-----------------------------------------------------------------------------
(* The life of a HUD.                                                      *)

\* The inductive invariant: the two properties, on a HUD that is one.
LifeInv ==
  /\ anyHud \in HudType /\ anyAsked \in BOOLEAN
  /\ Life!DismissalIsKept /\ Life!NoStaleDismissal

LEMMA LifeInvInit == Life!Init => LifeInv
<1> SUFFICES ASSUME Life!Init PROVE LifeInv
    OBVIOUS
<1>1. anyHud = [phase |-> "hidden", later |-> FALSE, timers |-> 0] /\ ~anyAsked /\ anyAsked \in BOOLEAN
      BY DEF Life!Init, Life!NewHud
<1>2. anyHud \in HudType /\ anyHud.phase = "hidden" /\ ~anyHud.later
      BY <1>1 DEF HudType, HudPhases
<1> QED BY <1>1, <1>2 DEF LifeInv, Life!DismissalIsKept, Life!NoStaleDismissal

\* A call, a block that runs or a fade that ends keeps the invariant.
LEMMA LifeInvKept == LifeInv /\ [Life!Next]_(Life!vars) => LifeInv'
<1> SUFFICES ASSUME LifeInv, [Life!Next]_(Life!vars) PROVE LifeInv'
    OBVIOUS
<1> USE DEF LifeInv, Life!DismissalIsKept, Life!NoStaleDismissal, Life!Transitioning,
            Life!Visible, HudType, HudPhases
<1>1. CASE Life!CallShow
      BY <1>1 DEF Life!CallShow, Life!Show
<1>2. CASE Life!CallDismiss
      BY <1>2 DEF Life!CallDismiss, Life!Dismiss
<1>3. CASE Life!CallDismissAfterDelay
      BY <1>3 DEF Life!CallDismissAfterDelay, Life!DismissAfterDelay
<1>4. CASE Life!Timer
      <2> DEFINE fired == [anyHud EXCEPT !.timers = @ - 1]
      <2>1. fired \in HudType /\ fired.phase = anyHud.phase /\ fired.later = anyHud.later
            BY <1>4 DEF Life!Timer
      <2>2. anyHud' = IF anyHud.phase # "hidden" THEN Life!Dismiss(fired) ELSE fired
            BY <1>4 DEF Life!Timer, Life!TimerFired
      <2> HIDE DEF fired
      <2>3. anyAsked' = (anyAsked \/ anyHud.phase # "hidden")
            BY <1>4 DEF Life!Timer
      <2> QED BY <2>1, <2>2, <2>3 DEF Life!Dismiss
<1>5. CASE Life!Animated
      BY <1>5 DEF Life!Animated, Life!AnimationFinished, Life!CleanUpAfterPresentation,
                  Life!CleanUpAfterDismissal
<1>6. CASE UNCHANGED Life!vars
      BY <1>6 DEF Life!vars
<1> QED BY <1>1, <1>2, <1>3, <1>4, <1>5, <1>6 DEF Life!Next

\* A dismissal asked for in the middle of a fade is neither lost nor carried over
\* to a later presentation (dismissAnimated: and its _dismissAfterTransitionFinished),
\* however many delayed dismissals are outstanding.
THEOREM HudKeepsDismissals == Life!Spec => []Life!DismissalIsKept
<1>1. LifeInv => Life!DismissalIsKept
      BY DEF LifeInv
<1> QED BY <1>1, LifeInvInit, LifeInvKept, PTL DEF Life!Spec

\* A dismissal is remembered only while a fade runs: a HUD that is up or gone has
\* none waiting that would end the next presentation.
THEOREM HudForgetsDismissals == Life!Spec => []Life!NoStaleDismissal
<1>1. LifeInv => Life!NoStaleDismissal
      BY DEF LifeInv
<1> QED BY <1>1, LifeInvInit, LifeInvKept, PTL DEF Life!Spec
=============================================================================

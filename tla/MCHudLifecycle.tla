--------------------------- MODULE MCHudLifecycle ---------------------------
(* HudLifecycle with a bound on the delayed dismissals outstanding at once. *)
EXTENDS HudLifecycle
=============================================================================

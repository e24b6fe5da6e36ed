---------------------------- MODULE MCTurnstile ----------------------------
(* Turnstile for TLC; the constants are those of the configuration. *)
EXTENDS TurnstileProps
=============================================================================

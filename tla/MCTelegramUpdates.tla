-------------------------- MODULE MCTelegramUpdates --------------------------
(* Model checking of TelegramUpdates; the bounds are in the configuration.      *)
EXTENDS TelegramUpdates
=============================================================================

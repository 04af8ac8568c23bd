---------------------------- MODULE MCTrialLedger ----------------------------
(* TrialLedger on its own: what update-state.json promises is kept by any   *)
(* program that moves it as TrialLedger says.                               *)
EXTENDS TrialLedger
==============================================================================

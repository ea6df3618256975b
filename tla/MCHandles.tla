----------------------------- MODULE MCHandles -----------------------------
(* Handles for TLC; the configurations choose the contract.                 *)
EXTENDS Handles
=============================================================================

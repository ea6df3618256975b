------------------------------ MODULE MCWorker ------------------------------
(* Worker for TLC: a few clients as model values.                          *)
EXTENDS Worker
=============================================================================

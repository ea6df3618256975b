--------------------------- MODULE MCTimerTaskList ---------------------------
(* TimerTaskList for TLC: three sessions with their own timeouts.           *)
EXTENDS TimerTaskList, TLC

CONSTANTS a, b, c

\* Two equal timeouts, for entries that expire together.
Timeouts == (a :> 1) @@ (b :> 2) @@ (c :> 2)
=============================================================================

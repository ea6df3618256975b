------------------------------ MODULE TaskFifo ------------------------------
(***************************************************************************)
(* What thread::worker promises to the clients that share it, with the     *)
(* spin lock, the two vectors and the thread abstracted away: every task   *)
(* a client submits is handled once, in the order of submission, none is   *)
(* accepted after the stop request, and the worker is destroyed only when  *)
(* nothing is left.                                                        *)
(***************************************************************************)
EXTENDS Sequences

CONSTANT Task

VARIABLES
    pending,    \* submitted and not yet handled, oldest first
    mode        \* "open", "stopping" or "destroyed"

vars == <<pending, mode>>

TypeOK == /\ pending \in Seq(Task)
          /\ mode \in {"open", "stopping", "destroyed"}

Init == /\ pending = <<>>
        /\ mode = "open"

Submit(t) == /\ mode = "open"
             /\ pending' = Append(pending, t)
             /\ UNCHANGED mode

Handle == /\ pending # <<>>
          /\ pending' = Tail(pending)
          /\ UNCHANGED mode

Stop == /\ mode = "open"
        /\ mode' = "stopping"
        /\ UNCHANGED pending

Destroy == /\ mode = "stopping"
           /\ pending = <<>>
           /\ mode' = "destroyed"
           /\ UNCHANGED pending

Next == (\E t \in Task : Submit(t)) \/ Handle \/ Stop \/ Destroy

Spec == Init /\ [][Next]_vars

FairSpec == Spec /\ WF_vars(Handle) /\ WF_vars(Destroy)
=============================================================================

---------------------------- MODULE RequestReply ----------------------------
(***************************************************************************)
(* What a REST client promises its user (thread::rest_client): requests    *)
(* are performed one after the other, what is reported of a response       *)
(* belongs to the request that waits, and each is answered once, by its    *)
(* completion or by the error that ends the client.                        *)
(***************************************************************************)
EXTENDS Naturals

VARIABLES
    requests,       \* requests performed
    unanswered,     \* the number of the request that waits for its answer, or 0
    reported,       \* the request a response was last reported for, or 0
    failed          \* an error was reported

vars == <<requests, unanswered, reported, failed>>

Init == requests = 0 /\ unanswered = 0 /\ reported = 0 /\ failed = FALSE

Perform ==
    /\ unanswered = 0 /\ ~failed
    /\ requests' = requests + 1
    /\ unanswered' = requests'
    /\ UNCHANGED <<reported, failed>>

Report ==
    /\ unanswered # 0
    /\ reported' = unanswered
    /\ UNCHANGED <<requests, unanswered, failed>>

Complete ==
    /\ unanswered # 0
    /\ unanswered' = 0
    /\ UNCHANGED <<requests, reported, failed>>

Error ==
    /\ ~failed
    /\ failed' = TRUE
    /\ unanswered' = 0
    /\ UNCHANGED <<requests, reported>>

Answer == unanswered # 0 /\ (Complete \/ Error)

Next == Perform \/ Report \/ Complete \/ Error

FairSpec == Init /\ [][Next]_vars /\ WF_vars(Answer)
=============================================================================

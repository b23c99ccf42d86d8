---------------------------- MODULE WorkerContract ----------------------------
(***************************************************************************)
(* What the caller of a run of the worker relies on: Run either refuses at *)
(* once with an error, or loops and returns nil, which it does only after, *)
(* and always after, its context is cancelled.  serve                      *)
(* (cmd/usage-billing/main.go) is written against this contract.           *)
(***************************************************************************)
VARIABLES
    phase,      \* "new", "looping", "refused" or "returned"
    cancelled   \* the context of the run is done

Init == phase = "new" /\ cancelled = FALSE

\* Run reaches its loop.
Enter == phase = "new" /\ phase' = "looping" /\ UNCHANGED cancelled

\* Run returns an error without having looped.
Refuse == phase = "new" /\ phase' = "refused" /\ UNCHANGED cancelled

\* Run returns nil.
Leave == phase = "looping" /\ cancelled /\ phase' = "returned" /\ UNCHANGED cancelled

\* The caller, or a signal, cancels the context.
Cancel == ~cancelled /\ cancelled' = TRUE /\ UNCHANGED phase

Next == Enter \/ Refuse \/ Leave \/ Cancel

vars == <<phase, cancelled>>

\* A step of the contract, or one that the caller does not see.
Step == [Next]_vars

Promptness == WF_vars(Leave)

Spec == Init /\ [][Next]_vars /\ Promptness
=============================================================================

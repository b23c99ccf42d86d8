----------------------------- MODULE UsageLedger -----------------------------
(***************************************************************************)
(* What the usage-billing store promises its callers, with neither SQL     *)
(* statements nor connections: every accepted event carries one frozen     *)
(* charge, occupies one bounded work slot until the charge is posted, is   *)
(* posted once, and is set aside after Quarantine confirmed failures until *)
(* somebody reactivates it, naming the generation that failed.             *)
(***************************************************************************)
EXTENDS Integers, FiniteSets

CONSTANTS
    Events,       \* event identifiers
    Charges,      \* what an event may be charged: input, price and amount
    Gens,         \* generations that reactivations are asked for
    NoRow,        \* "no such row"
    MaxPending,   \* admission limit
    BatchLimit,   \* the most events one batch settles
    Quarantine    \* confirmed failures after which an event is set aside

VARIABLES
    charge,   \* charge[e]: the frozen charge of e, or NoRow
    work,     \* work[e]: the failures and the generation of queued e, or NoRow
    posted,   \* the events whose charge is posted
    granted   \* granted[e][g]: reactivations of e asked for with generation g

vars == <<charge, work, posted, granted>>

Slots == {e \in Events : work[e] # NoRow}

Init ==
    /\ charge = [e \in Events |-> NoRow]
    /\ work = [e \in Events |-> NoRow]
    /\ posted = {}
    /\ granted = [e \in Events |-> [g \in Gens |-> 0]]

\* A new event gets its charge and a slot of the queue, or neither.
Admit(e, c) ==
    /\ charge[e] = NoRow
    /\ Cardinality(Slots) < MaxPending
    /\ charge' = [charge EXCEPT ![e] = c]
    /\ work' = [work EXCEPT ![e] = [failures |-> 0, gen |-> 0]]
    /\ UNCHANGED <<posted, granted>>

\* One batch posts the events of good and counts a failure for each of bad.
Settle(good, bad) ==
    /\ good \cap bad = {}
    /\ good \cup bad # {}
    /\ Cardinality(good \cup bad) <= BatchLimit
    /\ \A e \in good \cup bad : e \in Slots /\ work[e].failures < Quarantine
    /\ posted' = posted \cup good
    /\ work' = [e \in Events |->
                  IF e \in good THEN NoRow
                  ELSE IF e \in bad
                       THEN [work[e] EXCEPT !.failures = @ + 1]
                       ELSE work[e]]
    /\ UNCHANGED <<charge, granted>>

\* A quarantined event starts over in its own slot, one generation later, when
\* the request names the generation that failed.
Reactivate(e, g) ==
    /\ e \in Slots
    /\ work[e] = [failures |-> Quarantine, gen |-> g]
    /\ work' = [work EXCEPT ![e] = [failures |-> 0, gen |-> g + 1]]
    /\ granted' = [granted EXCEPT ![e][g] = @ + 1]
    /\ UNCHANGED <<charge, posted>>

Next ==
    \/ \E e \in Events, c \in Charges : Admit(e, c)
    \/ \E good, bad \in SUBSET Events : Settle(good, bad)
    \/ \E e \in Events, g \in Gens : Reactivate(e, g)

Spec == Init /\ [][Next]_vars
=============================================================================

------------------------------- MODULE Reports -------------------------------
(***************************************************************************)
(* The reports of internal/postgres/store.go: each is one statement, so    *)
(* each is an operator over the committed tables of one state.             *)
(***************************************************************************)
EXTENDS Store, Functions

Customers == {i.customer : i \in Inputs}

\* ValidateID: a customer id has at most 64 characters out of a fixed alphabet.
ASSUME CustomersAssumption == IsFiniteSet(Customers)

\* The rows of usage_events that belong to customer.
Accepted(customer) == {e \in Events : usage[e] # NoRow /\ usage[e].input.customer = customer}

\* Queue rows below one failure less than the quarantine.
WaitingTooFew(S) == {e \in S : pending[e] # NoRow /\ pending[e].failures < Quarantine - 1}

\* FILTER (WHERE processing_failures < 3).
Waiting(S) == {e \in S : pending[e] # NoRow /\ pending[e].failures < Quarantine}

\* FILTER (WHERE processing_failures = 3).
SetAside(S) == {e \in S : pending[e] # NoRow /\ pending[e].failures = Quarantine}

\* Billing what was accepted and is not set aside, posted or not.
BilledUnlessFailed(customer) == Accepted(customer) \ SetAside(Accepted(customer))

\* FILTER (WHERE l.event_id IS NOT NULL).
Billed(customer) == Accepted(customer) \cap ledger

\* Store.Summary.  The sums are numeric in the database and cannot wrap.
Summary(customer) ==
    [units     |-> SumFunction([e \in Billed(customer) |-> usage[e].input.units]),
     amount    |-> SumFunction([e \in Billed(customer) |-> usage[e].amount]),
     pending   |-> Cardinality(Waiting(Accepted(customer))),
     processed |-> Cardinality(Billed(customer)),
     failed    |-> Cardinality(SetAside(Accepted(customer)))]

\* Store.QueueStats, but for the age of the oldest waiting row.
QueueStats ==
    [pending |-> Cardinality(Waiting(Events)), failed |-> Cardinality(SetAside(Events))]
-----------------------------------------------------------------------------
\* Both reports account for every accepted event exactly once, whatever
\* transactions are open: a customer's pending, processed and failed counts add
\* up to what was accepted ("a committed worker transaction cannot appear as
\* both pending and processed"), and the queue report is the sum of the customers'.
ReportsAgree ==
    /\ \A c \in Customers :
        LET s == Summary(c)
        IN  s.pending + s.processed + s.failed = Cardinality(Accepted(c))
    /\ QueueStats.pending = SumFunction([c \in Customers |-> Summary(c).pending])
    /\ QueueStats.failed = SumFunction([c \in Customers |-> Summary(c).failed])

\* A bill only grows: no failure, rollback, crash or retry takes back
\* units, micros or events that Summary has reported as processed.
BillNeverShrinks ==
    [][\A c \in Customers :
        /\ Summary(c)'.units >= Summary(c).units
        /\ Summary(c)'.amount >= Summary(c).amount
        /\ Summary(c)'.processed >= Summary(c).processed]_vars
=============================================================================

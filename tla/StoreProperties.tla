--------------------------- MODULE StoreProperties ---------------------------
(***************************************************************************)
(* What the callers of the store rely on, for the transactions of Store.   *)
(***************************************************************************)
EXTENDS Store

\* Every variable has its type.
TypeOK ==
    /\ usage \in [Events -> UsageRow \cup {NoRow}]
    /\ pending \in [Events -> PendingRow \cup {NoRow}]
    /\ ledger \subseteq Events
    /\ broken \subseteq Events
    /\ clock \in Nat
    /\ admission \in Conns \cup {NoConn}
    /\ pc \in [Conns -> Steps]
    /\ call \in [Conns -> AcceptCall \cup RetryCall \cup {NoCall, ProcessCall}]
    /\ tx \in [Conns -> Drafts]
    /\ calls \in 0..MaxCalls
    /\ faults \in 0..MaxFaults
    /\ quoted \in [Events -> SUBSET UsageRow]
    /\ fresh \in [Events -> Nat]
    /\ revived \in [Events -> [RetryGens -> Nat]]
    /\ reported \in Nat

\* "Accept commits both immutable input and its pending item, or neither", and
\* ProcessBatch moves an event from the queue to the ledger in one commit: an
\* accepted event is queued or posted, never both and never neither, whatever
\* transactions interleave, are abandoned, or commit behind their callers' back.
OneHome ==
    \A e \in Events :
        /\ (usage[e] # NoRow) <=> (pending[e] # NoRow \/ e \in ledger)
        /\ ~(pending[e] # NoRow /\ e \in ledger)

\* The advisory lock and the count under it keep the durable queue, quarantined
\* rows included, within the admission limit under concurrent admissions.
WithinCapacity == Cardinality(Queue) <= MaxPending

\* The CHECK constraints of the migrations, for a usage row and a pending row.
UsageChecks(row) ==
    /\ row.amount > 0
    /\ row.amount <= MaxInt64
    /\ row.amount = row.input.units * row.price

PendingChecks(item) ==
    /\ item.failures \in 0..Quarantine
    /\ (item.failures = 0) <=> (item.code = "")
    /\ item.gen \in 0..MaxInt64

\* No transaction ever writes a row that a CHECK constraint of the schema would
\* refuse: such a refusal is an integrity error outside the ledger insert, which
\* would fail the whole batch or request instead of being isolated.
ConstraintsHold ==
    /\ \A e \in Events :
        /\ usage[e] # NoRow => UsageChecks(usage[e])
        /\ pending[e] # NoRow => PendingChecks(pending[e])
    /\ \A s \in Conns :
        /\ tx[s].usage # NoRow => UsageChecks(tx[s].usage)
        /\ \A e \in Events : tx[s].put[e] # NoRow => PendingChecks(tx[s].put[e])

\* Every answer ever given about an event quotes the same durable row, across
\* replays at other prices, overflowing replays, lost answers and crashes; and
\* at most one caller is told that it created the event.
QuotesFrozen ==
    \A e \in Events : quoted[e] \subseteq {usage[e]} /\ fresh[e] <= 1

\* The processed counts that ProcessBatch returns are backed by ledger entries:
\* "nonzero only after commit", also when a commit's outcome is unknown.
CountsConfirmed == reported <= Cardinality(ledger)

\* "Concurrent identical retries produce one reactivation", and so do retries
\* sent again after a lost answer: of all the requests for one event that carry
\* one generation at most one ever changes the queue.  A stale generation and a
\* future one never do: the generations that were asked for and granted are
\* exactly the ones below the current generation of a queued event.
OneReactivation ==
    \A e \in Events, g \in RetryGens :
        /\ revived[e][g] <= 1
        /\ pending[e] # NoRow => (revived[e][g] = 1 <=> g < pending[e].gen)

\* A row lock has one holder, and what a batch holds is still eligible when its
\* transaction writes: nobody else changed the rows it claimed.
ClaimsExclusive ==
    \A s \in Conns : call[s].op = "process" =>
        /\ \A t \in Conns \ {s} : tx[s].locks \cap tx[t].locks = {}
        /\ \A e \in tx[s].locks : Eligible(e) /\ e \notin ledger
-----------------------------------------------------------------------------
\* The charges that the service may freeze, in exact arithmetic.
ExactCharges ==
    {c \in {[input |-> i, price |-> r, amount |-> i.units * r] :
              i \in Inputs, r \in Rates} : c.amount <= MaxInt64}

\* NoRow is not the failures and the generation of a queued event either.
ASSUME NoSlotAssumption == NoRow \notin [failures : Int, gen : Int]

Promise == INSTANCE UsageLedger WITH
    Charges <- ExactCharges,
    Gens <- RetryGens,
    charge <- usage,
    work <- [e \in Events |->
               IF pending[e] = NoRow THEN NoRow
               ELSE [failures |-> pending[e].failures, gen |-> pending[e].gen]],
    posted <- ledger,
    granted <- revived

\* The transactions implement the promise: the durable tables change only by
\* admitting one priced event, by settling one claimed batch, or by reactivating
\* one quarantined event for a request that names its present generation, each in
\* one atomic step; a charge is never changed and a posting never undone.
KeepsPromise == Promise!Spec
-----------------------------------------------------------------------------
\* Every eligible queued event is eventually posted or quarantined, although an
\* older event may fail again and again and a batch may take only one event.
Settles ==
    \A e \in Events :
        (pending[e] # NoRow /\ pending[e].failures < Quarantine)
            ~> (e \in ledger \/ (pending[e] # NoRow /\ pending[e].failures = Quarantine))

\* No call waits forever: unique key, advisory lock and row locks are always
\* taken in an order in which somebody can go on.
CallsReturn == \A s \in Conns : (pc[s] # "idle") ~> (pc[s] = "idle")
-----------------------------------------------------------------------------
\* docs/EVENT_RECOVERY.md: a retry that changes nothing is answered 200 only
\* for a processed event or for the generation that the same request already
\* reactivated; a "nonfailed event with no matching earlier reactivation" gets
\* 409.
RetryAnswerDocumented ==
    \A s \in Conns :
        (pc[s] = "commit" /\ call[s].op = "retry" /\ tx[s].put[call[s].id] = NoRow)
            => \/ tx[s].answer.processed
               \/ /\ tx[s].answer.failures < Quarantine
                  /\ tx[s].answer.gen = call[s].gen + 1
=============================================================================

# Verification of usage-billing

TLA+ models, TLC runs and TLAPS proofs for the usage-billing service: a Go
program that accepts usage events over HTTP, freezes their price, queues them
in PostgreSQL, posts each of them once to a ledger, and quarantines events that
the ledger refuses until an operator retries them.

## The system

| Part | State | Operations | Hard behaviour |
| --- | --- | --- | --- |
| store (`internal/postgres`) | `usage_events`, `pending_events`, `ledger_entries`; locks of open transactions | Accept, Get, Summary, QueueStats, ProcessBatch, Retry | every interleaving of READ COMMITTED transactions; ambiguous commits; abandoned sessions; crashes |
| service (`internal/billing`) | none (the configured rate) | Accept, Get, Summary, Retry, ValidateID | int64 overflow of units * rate; replays after a price change |
| worker (`internal/worker`) | loop position, delay, statistics | Run, Snapshot | cancellation against the timer, deadline per attempt, backoff |
| lifecycle (`cmd/usage-billing`) | server, worker and shutdown state | run, serve | signal, server failure and worker failure in any order; forced close |
| HTTP API (`internal/httpapi`) | position of each handler, request counters | route, authorise, decode, accept, retry, event, summary, probes | answers that must agree with what the database holds now and later, although a commit can be in doubt and other instances work beside |
| telemetry, request ids | error counter; an id per request | Metrics; New, ForLog | a scrape that loads 40 counters while handlers add to them |
| configuration (`cmd/usage-billing/config.go`) | none | loadConfig | every limit is written twice, here and in a component |
| migrations (`migrations`) | schema version, columns | up, down | guarded down migrations against running instances |
| load test (`cmd/loadtest`) | clients, results channel, monitor, report | run | goroutines that wait for each other; lost answers; a deadline at any moment |
| release publisher (`.github/scripts`) | one job | publish | check-then-act on a remote API; a POST whose answer is lost |
| monitoring, shell scripts | none of the service | - | - |

HTTP handlers call the service, the service calls the store, and the worker
calls the store directly. They share nothing but the database and its pool
(and the counters of a process): most of what makes the system hard happens
between the SQL statements of concurrent transactions, which is where the model
is detailed. The load test and the publisher are programs of their own; the
migrations are run by an operator beside the instances.

What makes each part correct:

- store: an accepted event is in exactly one of the queue and the ledger; the
  queue never exceeds its limit; an answer once given stays true; counts are
  reported only when committed; one reactivation per generation; eligible work
  is eventually settled; no call waits forever;
- service: a charge is the exact product or it is refused;
- worker: the delay stays within its bounds, statistics add up, cancellation
  ends the loop;
- lifecycle: both goroutines are joined, a clean return means drained requests;
- HTTP API: a refusal means that nothing was or will be written, 202 names the
  one request that created or reactivated, an acknowledged event is found by
  every later request, every request is answered;
- telemetry: a scrape is between the counts at its beginning and its end;
- configuration: what loadConfig accepts, no component refuses;
- migrations: a down migration never erases recovery state or an answered
  request id;
- load test: the report accounts for every request that was sent, success means
  settled, the run returns with no goroutine left;
- publisher: only a verified commit is released, once, and a success that is
  reported is one.

## Modules

- `Pricing`: the overflow guard and the int64 product of `Service.Accept`, with
  `MaxInt64` as a parameter so that TLC meets the boundary with small numbers.
- `UsageLedger`: the abstract promise. Admit, Settle and Reactivate change the
  durable state atomically; there are no statements, connections or faults.
  `Reactivate(e, g)` is granted for the current generation of a quarantined event
  and recorded in `granted`, so a retry that names another generation has no
  abstract step.
- `Store`: the implementation. One action per SQL statement whose outcome
  another transaction can influence.
- `StoreProperties`: the properties of `Store` and the refinement mapping
  (`Promise`) to `UsageLedger`.
- `Reports`: Summary and QueueStats, each one SQL statement and therefore an
  operator over the tables of one state.
- `WorkerContract`: what a caller of `Worker.Run` relies on.
- `Worker`: the polling loop, with any number of calls of `Run` on one worker;
  it is shown to keep `WorkerContract`.
- `Serve`: `run` and `serve`, composed with a worker that keeps `WorkerContract`.
- `HttpApi`: handlers, from the arrival of a request to its counter, over a
  repository reduced to the commits of `Store`; the metrics collector and the
  request identifiers.
- `RequestDecoder`: decodeInput and decodeRetry, token by token.
- `Startup`: loadConfig as a function of the environment, and the checks of the
  components, as operators.
- `Migrations`: the six migration files and the transactions of instances built
  for schema 2 and for schema 3.
- `LoadTest`: run of the load test with its goroutines and the service it loads.
- `Publisher`: publish of the release script, against GitHub and maintainers.
- `MCStore`, `MCWorker`, `MCServe`, `MCHttpApi`, `MCRequestDecoder`,
  `MCMigrations`, `MCLoadTest`, `MCPublisher` with their `.cfg` files: the
  instances TLC checks.
- `StoreProofs` (with `Pricing`, `UsageLedger` and `Reports`), `WorkerProofs`
  (with `WorkerContract`), `ServeProofs` (with `Startup`), `HttpApiProofs`,
  `RequestDecoderProofs`, `MigrationsProofs`, `LoadTestProofs`,
  `PublisherProofs`: the theorems.

### How `Store` corresponds to the code

`usage`, `pending` and `ledger` are the committed tables. A row of `pending`
keeps `processing_failures`, `failure_code`, `retry_generation` and
`enqueued_at` (a stamp drawn from `clock`). A usage row keeps the input, the
price and the amount; identifiers of requests, the meter, the currency and the
creation time are left out because no decision depends on them.

A connection `s` serves one call at a time: `call[s]` is the call, `pc[s]` the
next statement, and `tx[s]` what the transaction has written but not committed.
Others see of it only its locks: the unique key of an uncommitted usage row
(`InsertUsage` waits for it, as `ON CONFLICT DO NOTHING` does), the row locks
(`tx[s].locks`) and the advisory lock (`admission`). `Apply` publishes the whole
draft at once.

| Code | Actions |
| --- | --- |
| `Service.Accept`, `Store.Accept` | `BeginAccept`, `InsertUsage`, `LockAdmission`, `CountQueue`, `Enqueue`, `ReadAccepted`, `Commit`; `AnswerOverflowing` for the path that only reads |
| `Store.ProcessBatchWithResults` | `ClaimBatch`, `EmptyBatch`, `PostBulk`, `PostOne`, `Commit` |
| `Store.Retry` | `BeginRetry`, `LockRow` (SELECT ... FOR UPDATE and the switch), `UpdateRow`, `ReadRetried`, `Commit` |
| `Store.transaction` | `Rollback` (inside the actions that return an error), `Commit`, `Fault`, `Reap`, `LateCommit` |
| PostgreSQL | `Crash`, `Break`, `Mend` |

`Fault` is every error that is not an integrity error of a ledger insert: a
cancelled context, a timeout, a lost connection. The caller is told of an error
and its session is left to the server, with draft and locks, because pgx closes
a cancelled connection asynchronously. If the error hit COMMIT, the server may
have committed (`LateCommit`) or not (`Reap`). `Break` and `Mend` stand for a
ledger constraint that starts or stops to reject an event.

Statements are merged only when no other transaction can tell: the bulk insert
with the bulk delete, one turn of the isolation loop, and the claim with its
row locks all work on rows that the transaction has locked exclusively.
`Retry`'s SELECT and UPDATE are two steps although the SELECT locks the row,
because the properties are to tell what that lock is for: the UPDATE locks the row
by itself and adds one to the generation that it finds, whatever was read before.
Requests that fail validation never reach the store and are not actions.

Four variables are history: `quoted`, `fresh` and `reported` record what callers
were told, and `revived[e][g]` how many reactivations of `e` were committed for
requests that named the generation `g`, confirmed or not. They never appear in a
guard.

### How `Worker` and `Serve` correspond to the code

In `Worker`, `pc[r]` is the position of the call `r` of `Run`; `cancelled[r]`,
`expired[r]` and `timer[r]` are its context, the deadline of its attempt and its
timer; `stats` is `Worker.stats`, which every method changes under the mutex in
one action. `SelectDone` and `SelectTimer` are the two cases of the select, both
possible when both are ready. The processor returns any outcome; an error that
wraps a context error need not come from the context of the attempt, because
the driver has timeouts of its own. A failed batch has count 0, as
`ProcessBatchWithResults` returns it. `FinishAttempt` reads the context and
counts in one step: a cancellation between the two has the same effect as one
after both. The check of the configuration at the top of `Run` is the assumption
on the constants, which `loadConfig` enforces (`Startup`). `fails`, `seen` and `posted` are
history.

In `Serve`, `spc` is the position of main, from the setup of `run` to the exit.
A channel of capacity one holds "empty" or its message. The signal cancels
`workerCtx`, which derives from the main context, and leaves `requestCtx`, which
does not. `net/http` is external: Serve returns ErrServerClosed once Shutdown
was called, before or after Serve began; Shutdown waits for the accept loop and
then for the connections, or returns the error of its deadline; Close waits for
no handler. `pool.Close` waits for the connections in use. `SetupFails` stands
for every early return of `run`. Not modelled: an error of closing the listener,
and panics. `serve` takes any `runWorker`, so the model lets the worker fail at
once, which `Worker.Run` itself does only when it is already running.

A worker that fails while a signal arrives may go unreported: the select may take
`workerDone`, whose error it drops, and then `ctx.Err()` is set. `VerdictTrue`
states this exception.

### How the other modules correspond to the code

`HttpApi`. `hpc[q]` is the position of the handler of request `q`. `Arrive` makes
every check that needs only the request, in the order of `serve`, `readBody` and
the service (`Refusal`); of a body only its class is kept, and which bodies decode
is `RequestDecoder`. A call then takes one step for each commit or read that
decides its answer; `Retry` takes two when it finds no queue row, as the code
does (`RetryMisses`, `Reread`). The statements in between are `Store`'s subject.
`late[e]` is a transaction whose COMMIT failed ambiguously: its client has been
told 500, it holds its locks, and it lands (`Land`) or not (`Vanish`). `CallFails`
is every other error, the deadline of the request included. `AcceptElsewhere` is
an instance with another rate, `Work` the worker of any instance, with three
failures in one step. A scrape loads the counters of one route per step, queries
the queue, and loads the error counter after it has counted; `Count` is the
increment after the answer. `acked`, `knew` and `before` are history. A request is
never repeated by the server, so a client that tries again is another `q`.

`RequestDecoder` has one action per token that the code reads and may reject;
values are abstracted to their JSON type and, for numbers, whether they fit.
`DecodesDocuments` compares it with a definition of the documents that does not
mention the order of reading.

`Startup` has no variables. A text is empty, a number or garbage; the limits are
those of the code, with `MaxInt64` as a parameter.

`Migrations`. A migration file is one transaction; it is split where it takes a
table lock, since a statement of another session fits in between. `LOCK TABLE` and
`ALTER`/`DROP` exclude every transaction that has touched the table and has not
ended (`MayLock`, `Unused`); a guard that only selects does not. A session is
started by a binary for schema 2 or 3 and fails at the first statement that names
a column which is not there. `Legacy` are events accepted under schema 1;
a column that is not there has its default. `acked`, the ids that were answered,
is history.

`LoadTest`. `lpc` is the position of `run`, `client[w]` and `index[w]` those of the
clients, `results` the channel with its capacity, `monitor` the queue monitor.
Samples are counted by whether they are errors; latencies and rates are left out.
The service accepts what was sent at any later time, also when the client has
given up, and posts it or not.

`Publisher`. One action per API call of `publish`, in its order. Any call may fail;
a POST may time out and be carried out later or never. Between two calls main
moves, checks run again, and maintainers tag and release by hand. The three reads
about the release pull request are one step: a merged pull request does not
change. Nobody deletes or moves a tag or a release: `ReportsTrue` and
`NeverPostsAgain` rest on that, as a deletion after the last read of the script would
make its report untrue. A late POST that lands after a job run again has looked
for a release is met by `ReportsTrue` alone; `NeverPostsAgain` speaks of releases
that exist when the job begins.

## Runs

| Run | Instance | Shows |
| --- | --- | --- |
| accepts | 2 events (1 breakable), 2 customers, 2 rates, MaxInt64 = 3, 3 connections, 1 slot, 3 calls, 1 fault | `QuotesFrozen`: the first committed row is what every answer quotes; `WithinCapacity`; `ReportsAgree`, `BillNeverShrinks` |
| recovery | 2 events (1 breakable), 2 connections, batch of 2, amounts and generations up to MaxInt64 = 2, 4 calls, 1 fault | `ConstraintsHold`: no amount wraps, no generation passes the largest one, the failure code follows the count; `OneHome`, `CountsConfirmed`, `OneReactivation` (one for each event and generation that retries name), `ClaimsExclusive`, and `KeepsPromise`, the refinement of `UsageLedger` |
| settles | 3 events (1 breakable), 2 slots, batch of 1, 3 calls, 1 fault | `Settles`, `CallsReturn` |
| retry_race | 1 event, 2 connections, 2 calls | a violation of `RetryAnswerDocumented`, see below |
| worker | 2 calls of Run, interval 1, cap 6 (delays 1, 2, 4, 6), 4 batches | `OneLoop`, `Accounting`, `BackoffExact`, `KeepsContract` (safety and liveness of the contract), `KeepsPolling` |
| lifecycle | 2 connections of clients | `Joined`, `CleanExit`, `VerdictTrue`, `ShutdownEnds` |
| http | 2 requests out of a menu of 12, 2 events, 1 slot, an input that overflows, another instance, the worker | `CreatorIsStored`, `ShownIsStored`, `RefusedWroteNothing`, `AcknowledgedIsFound`, `ScrapeBetween`, `TypeOK`, `EveryRequestCompletes` |
| decoder | all bodies of up to 5 members | `DecodesDocuments` |
| migrations | 2 events (1 from schema 1), 2 sessions of this binary, any sequence of migrations | `RequestIdsDurable`, `RecoveryNeverErased`, `TooNewBinaryIdle` |
| migrations_race | the same with a schema-2 binary | a violation of `RecoveryNeverErased`, see below |
| load_test | 3 events, 2 clients, channel of 2 | `ReportComplete`, `SuccessIsReal`, `NobodyLeftBehind`, `RunReturns` |
| publisher | 2 commits, of which the first merges the release | `SentWasVerified`, `LookedUnderMain`, `ReportsTrue`, `NeverPostsAgain` |

The runs of the store, of the migrations and of the publisher check for deadlock;
an idle worker that polls an empty queue is the step `EmptyBatch`. Calls of `Run`,
requests, bodies, the load test and the process end, so the other runs do not:
that nothing hangs is a liveness property there. The lifecycle run also evaluates
`NeverRefused` of `Startup` at every limit of the configuration and its neighbour
(`MCServe!StartsAreAccepted`). Type invariants that are proved are left out of the
runs, but for that of `HttpApi`, which types the counters and the pages of
unfinished scrapes too.

**Bounds.** `MaxCalls` bounds accepts and retries, `MaxFaults` failed calls and
crashes; batches are not bounded. Two events are enough for every interference
the code has between events (order in the queue, one slot, a batch with one
good and one bad event); two connections put any two calls against each other,
and the accepts run has a third, because an admission can wait for one session
while another session's late commit fills the slot. The settles run has three events, so that the
queue is full and a third admission waits for it. The generation bound lets a
retry meet the largest generation, and the inputs of the same run have a product
on either side of the largest amount. Connections are symmetric in the safety runs; the liveness runs use
no symmetry. Two requests of the API are enough, since each of its
properties speaks of one request against the database or of two requests. Three events over two clients
let one client of the load test loop and the channel fill up. Two commits let
main move once past the release; a job, once ended, is followed by another.

**Fairness.** A connection executes the statements of its call (`WF` of
`Statement(s)`): the code has no other reason to stop than an error, which is
`Fault`. The server ends abandoned sessions: `run` sets `statement_timeout` and
`idle_in_transaction_session_timeout`. The worker's timer keeps polling, so some
connection claims whenever claiming stays possible. Calls, faults and schema
changes are never assumed to happen. In `Worker`, goroutines run, time passes,
and a processor returns once the context of its attempt is done: every database
call takes that context. In `Serve`, the goroutines run, the drain deadline
passes and database calls end (`statement_timeout`); clients and handlers are
under no fairness, so `ShutdownEnds` holds with a handler that never returns.
In `HttpApi` every handler runs, and its call
returns: ServeHTTP gives each request a deadline of five seconds and readiness one
second. Commits in doubt are under no fairness, so a request that waits for one
is answered by its deadline. In `LoadTest` the goroutines run, a request ends
within the client's timeout, and the deadline of the run passes; the service owes
nothing. `MaxAttempts` bounds the batches, and `KeepsPolling` excepts a worker at that
bound.

## Findings

`retry_race`: `Store.Retry` takes "no queue row" to mean processed or unknown,
then reads the event with a later snapshot. If an Accept of the same event
commits in between, the retry is answered 200 although the event is pending and
was never reactivated; `docs/EVENT_RECOVERY.md` promises 409 for that case. No
state is damaged: the other invariants hold in the same behaviours.

`migrations_race`: 000002 down refuses to run while there is recovery state, but
its guard reads `pending_events` without a lock against writers, and the first
statement that takes one is `DROP INDEX`. A failure that a schema-2 worker commits
in between is dropped with the columns, although the file says "Refuse to
reactivate quarantined work or erase active retry preconditions" and
`docs/EVENT_RECOVERY.md` says that the migration refuses to erase any active
failure. 000003 down takes `LOCK TABLE` before its guard and has no such gap. The
binary of this repository does not meet it: below schema 3 its transactions fail
before they commit, which is what the migrations run and `RecoverySurvives` show.

## Proofs

Every invariant, action property and refinement that a passing run checks is also
proved for every value of the constants, except where fairness is needed. The
assumptions are the named `ASSUME`s of the modules; events, customers and fields
are finite sets, connections, requests and sessions need not be (but for the
requests of `HttpApi`, which are counted). Each inductive invariant was checked
by TLC before it was proved.

**Store** (`StoreProofs`), in five parts.

1. `GuardExact`: for every `MaxInt64` the guard of `Service.Accept` refuses
   exactly the products that do not fit, and the int64 product of what passes is
   the exact one.
2. `TypeCorrect`, `ExactlyOneHome` and `CapacityBound` from `StoreInv`. None of
   the three is inductive alone, because a commit applies a draft written several
   statements before. `StoreInv` adds: `Shape` (what a draft may contain, by kind
   of call and step), `KeyInv` (an uncommitted usage row has its key to itself and
   no committed row has it), `LockInv` (a locked row exists and has one holder),
   `AdmissionInv` (from the count on, an admission holds the advisory lock) and
   `RoomInv` (the slot that was counted stays free until the holder commits,
   because only the holder can add to the queue). `LocalStep` reduces a statement
   that writes no table to facts about its own connection, `ClosingStep` does so
   for the end of a transaction, `ApplyInv` treats the three kinds of commit.
3. `WritesPassConstraints`, `AnswersQuoteFrozenRow`, `ReportedIsPosted`,
   `RetriesReactivateOnce` and `ClaimsAreExclusive` from a second layer,
   `SafetyInv`, on top of `StoreInv`. `StoreInv` says which rows a draft holds,
   `SafetyInv` what they are worth: an admission holds the exact product
   (`AcceptDraft`), a retry the successor of the quarantined row of its generation
   (`RetryDraft`), a batch one more failure or a posting of rows that are still
   eligible (`BatchDraft`), a waiting answer the row that is or will be stored
   (`AnswerDraft`). It is inductive because a draft row is computed from a row that
   its transaction has locked (`OtherDrafts`). `StampInv` (no two events share an
   `enqueued_at`) is what bounds a batch: without it the rows that are older than
   the last one claimed could be more than the limit (`OldestBound`). `ToldInv`
   relates the history variables to the tables. `GrantInv` does so for `revived`: the
   generations that were granted are those below the generation of the queued row,
   so a retry that finds its own generation under the row lock is the first one
   (`ApplyGrants`); that the row has not changed since `LockRow` is what the lock
   gives (`RetryStep`, `RetryDraft`).
4. `StoreKeepsPromise`: the refinement of `UsageLedger`. `ApplyCases` reduces a
   commit to one of three table changes, and each is an Admit, a Settle, a
   Reactivate of the generation that was asked for, or nothing
   (`CommitKeepsPromise`). `NoSlotAssumption` says that
   `NoRow` is not mistaken for a slot of the promise.
5. `ReportsAlwaysAgree` and `BillsNeverShrink`. A sum over a set is the library's
   recursion over subsets. `AddsExists` shows that this recursion has a solution
   on a finite set, `AddsAgree` and `AddsAny` that its value depends neither on
   the order nor on the surrounding set, all by induction over the size
   (`AllNumbers`, from the well-foundedness of the naturals, with the property
   given as a set of numbers so that first-order provers can use it). `SumOfParts`
   and `SumGrows` are what the two reports need.

**Worker** (`WorkerProofs`): `WorkerTypes`, `LoopExclusive`, `BooksBalance` and
`BackoffBounded` for every interval, cap and set of calls. `Accounting` speaks of
states in which no batch is being counted; `Books` adds what holds in the others
(the counters are one batch behind), and needs `OneLoop`, since two loops would be
two behind. `BackoffIsExact` gives the delay in closed form (`PowerDoubles`
derives 2^(n+1) = 2 * 2^n from the number of subsets of a set). The code doubles
only below half of the cap, which gives the closed form only when the cap is
even: with an odd cap the delay can reach it one doubling early. 30 seconds in
nanoseconds is even, which `CapAssumption` records. `RunKeepsItsContract` is the
safety part of `KeepsContract`: each call starts as `WorkerContract` does and
takes only its steps.

**Lifecycle and configuration** (`ServeProofs`): `ServeTypes`, `GoroutinesJoined`,
`ExitClean` and `VerdictAlwaysTrue` for every set of requests. `ServeInv` relates
each channel to its goroutine and to the flag of main that says it was received
(`HTTPInv`, `WorkerInv`), the position of main to what it has done (`MainInv`), and
the requests to the drain (`DrainInv`). `LoadedIsAccepted` is `NeverRefused` of
`Startup` for all texts and tokens.

**HTTP API** (`HttpApiProofs`), in three layers. `HttpInv` gives `HttpTypes`,
`ShownStays`, `RefusalsWriteNothing` and `AcceptedIsFound`. An answer is compared with tables that have gone on since, so
the invariant says what a commit in doubt may still turn a row into (`LateInv`),
which requests a row, committed or in doubt, may name (`NameInv`), and what an
answer owes the row from then on (`AnswersInv`); rows only grow (`Grows`).
`TwinInv` adds what `CreatedNamesItsRequest` needs beyond it: retries of one event
that were told 202 named different generations, because a reactivation finds its
own generation in the row and the row has left those granted before (`NewlyTold`,
`TwinNext`).
`ScrapeInv` gives `ScrapesAreBetween`: it says of a scrape that is under way that
the counters it has loaded lie between its beginning and now, route by route
(`CountInv`, `PageInv`), that the error counter is the number of failed queries, of
which a finished page counts its own and those before it (`FailInv`), and it orders
that counter with those of earlier pages.

**Decoder** (`RequestDecoderProofs`): `OnlyDocumentsDecode` for any finite set of
fields and bodies of any length. What was read can be completed because its keys
are different (`Completion`, with an enumeration of the missing fields); a bad or
repeated member spoils every continuation because a document has no member to
spare (`NoneToSpare`, a pigeonhole argument).

**Migrations** (`MigrationsProofs`): `TypeCorrect`, `IdsSurvive`, `TooNewIsIdle` and
`RecoverySurvives` for any number of events, ids and sessions, with binaries for
both schemas beside each other in the first two. `RequestIdsDurable` is not
inductive: the row that a transaction will commit was written against a schema
that a migration may since have changed. The invariant adds `Solo` (open
transactions work on different events), `Known` (what a transaction knows from its
locks at each statement), `Stage` (the position of a migration fixes the version),
`Fence` (from its lock on, 000003 down has usage_events to itself) and `IdsSince3`
(ids exist at schema 3 only). `TooNewIsIdle` adds `Serves`: an open transaction
belongs to a running binary, and the schema it claimed rows under stays. `RecoverySurvives` assumes that all binaries are for
schema 3 and adds `Current`. That assumption is needed: migrations_race is the
counterexample without it.

**Load test** (`LoadTestProofs`): `GoroutinesAreJoined` and `SuccessHolds` from the
control layer (`Phases`: who has ended at each position of `run`; `Verdicts`), and
`ReportIsComplete` from the data layer. Client w sends the indices w, w + C,
w + 2C, ...; `Division`, `SameTurn` and `NextTurn` show that these strides neither
meet nor leave a gap, so the events below each client's loop variable are exactly
those whose samples went into the channel (`Loops`, `SentInv`, `Counts`).

**Publisher** (`PublisherProofs`): `PublisherTypes`, `OnlyVerified`, `MainAtLook`,
`ReportsAlwaysTrue` and `PostsOnce` for any number of commits. The invariant
carries each fact from the call that established it to the POST that relies on
it: the checks that were read (`Verified`, `GreenKept`), main at the second look
(`Looked`), the release that existed when the job began (`Existing`), and the tag
that was read (`Tagged`).

Only model-checked: what needs fairness, which is out of the prover's reach:
`Settles`, `CallsReturn`, `KeepsPolling`, `ShutdownEnds`, `EveryRequestCompletes`,
`RunReturns`, and the liveness part of `KeepsContract` (`Promptness`). The two
violation runs are counterexamples and stay with TLC by their nature.

## Plan

Every part that keeps state is modelled, and every safety property of the passing
runs is proved. What could still be added: the steps behind the liveness
properties that are safety facts of their own (which locks a waiting transaction
waits for, and that this relation has no cycle; the number of failures an event
can still take), so that only the appeal to fairness is left to TLC.

## Not modelled

- The percentiles, rates and flag validation of the load test: functions of
  numbers and text, in floating point.
- `requestid.ForLog`, the text of metrics, logs, answers and release notes: no
  decision depends on them. `writeJSON`'s answer to a value that cannot be
  marshalled is unreachable from its callers.
- golang-migrate's own bookkeeping of a failed file (the dirty flag): the files
  are single transactions, so a failed one changes nothing else.
- The monitoring configuration, container files and shell scripts keep no state
  that the service's behaviour depends on.

-------------------------------- MODULE Store --------------------------------
(***************************************************************************)
(* The PostgreSQL store of usage-billing (internal/postgres/store.go) with *)
(* the calls of internal/billing/service.go that reach it, one action per  *)
(* SQL statement whose outcome another transaction can influence.          *)
(*                                                                         *)
(* A connection runs one READ COMMITTED transaction at a time.  Its writes *)
(* are a draft tx[s] that nobody else sees before COMMIT; what others do   *)
(* see early is its locks: the unique key of an uncommitted usage row, the *)
(* row locks of FOR UPDATE and the advisory admission lock.  A connection  *)
(* whose caller gave up keeps draft and locks until the server notices.    *)
(***************************************************************************)
EXTENDS Pricing, FiniteSets

CONSTANTS
    Events,       \* event identifiers
    Inputs,       \* request bodies: records with fields customer and units
    Rates,        \* configured prices of the running instances
    Conns,        \* server sessions (pool connections of every instance)
    Codes,        \* SQLSTATEs that integrityCode recognises
    Breakable,    \* events whose ledger insert may violate a constraint
    MaxPending,   \* Store.maxPending
    BatchLimit,   \* argument of ProcessBatch
    RetryGens,    \* generations that retry requests carry
    MaxCalls,     \* bound: accept and retry calls in a behaviour
    MaxFaults,    \* bound: failed calls and server crashes in a behaviour
    NoRow,        \* "no such row"
    NoConn        \* "nobody holds the admission lock"

ASSUME InputsAssumption ==
    \A i \in Inputs : {"customer", "units"} = DOMAIN i /\ i.units \in Nat \ {0}
ASSUME RatesAssumption == Rates \subseteq Nat \ {0}
ASSUME EventsAssumption == IsFiniteSet(Events) /\ Breakable \subseteq Events
ASSUME CodesAssumption == "" \notin Codes
ASSUME RetryGensAssumption == RetryGens \subseteq 0..MaxInt64
ASSUME LimitsAssumption ==
    MaxPending \in Nat \ {0} /\ BatchLimit \in Nat \ {0}
    /\ MaxCalls \in Nat /\ MaxFaults \in Nat
ASSUME NoConnAssumption == NoConn \notin Conns

\* Three confirmed failures set an event aside.
Quarantine == 3

UsageRow == [input : Inputs, price : Rates, amount : Int]
PendingRow == [failures : Int, code : Codes \cup {""}, gen : Int, at : Nat]
EventView == [row : UsageRow, processed : BOOLEAN, failures : Int, gen : Int]

ASSUME NoRowAssumption == NoRow \notin UsageRow \cup PendingRow \cup EventView

VARIABLES
    usage,      \* usage_events: usage[e] is a row or NoRow
    pending,    \* pending_events: pending[e] is a row or NoRow
    ledger,     \* ledger_entries: the posted events
    broken,     \* events whose ledger insert violates a constraint now
    clock,      \* the next clock_timestamp()
    admission,  \* holder of the advisory admission lock, or NoConn
    pc,         \* pc[s]: the statement that connection s executes next
    call,       \* call[s]: the call that s serves
    tx,         \* tx[s]: the uncommitted work of s
    calls,      \* calls made so far
    faults,     \* faults so far
    quoted,     \* quoted[e]: the usage rows returned to callers for e
    fresh,      \* fresh[e]: how many callers were told that they created e
    revived,    \* revived[e][g]: committed reactivations of e that were asked
                \* for with generation g, whether their callers know or not
    reported    \* the sum of the processed counts returned to the worker

tables == <<usage, pending, ledger>>
session == <<admission, pc, call, tx>>
budget == <<calls, faults>>
history == <<quoted, fresh, revived, reported>>
vars == <<tables, broken, clock, session, budget, history>>

NoCall == [op |-> "none"]
AcceptCall == [op : {"accept"}, id : Events, input : Inputs, price : Rates]
RetryCall == [op : {"retry"}, id : Events, gen : RetryGens]
ProcessCall == [op |-> "process"]

\* The uncommitted writes of a transaction: the usage row it inserts, the queue
\* rows it inserts or updates and deletes, the events it posts; its row locks;
\* and the event it has read back for its caller.
Drafts == [usage : UsageRow \cup {NoRow},
           put : [Events -> PendingRow \cup {NoRow}],
           gone : SUBSET Events, posted : SUBSET Events, locks : SUBSET Events,
           answer : EventView \cup {NoRow}]

NoTx == [usage |-> NoRow, put |-> [e \in Events |-> NoRow], gone |-> {},
         posted |-> {}, locks |-> {}, answer |-> NoRow]

Steps == {"idle", "insert", "admit", "count", "enqueue", "claimed", "single",
          "rowlock", "update", "read", "commit", "doomed", "indoubt"}

\* Whether s still runs for a caller that waits for its answer.
Attended(s) == pc[s] \notin {"idle", "doomed", "indoubt"}
-----------------------------------------------------------------------------
Init ==
    /\ usage = [e \in Events |-> NoRow]
    /\ pending = [e \in Events |-> NoRow]
    /\ ledger = {}
    /\ broken = {}
    /\ clock = 0
    /\ admission = NoConn
    /\ pc = [s \in Conns |-> "idle"]
    /\ call = [s \in Conns |-> NoCall]
    /\ tx = [s \in Conns |-> NoTx]
    /\ calls = 0
    /\ faults = 0
    /\ quoted = [e \in Events |-> {}]
    /\ fresh = [e \in Events |-> 0]
    /\ revived = [e \in Events |-> [g \in RetryGens |-> 0]]
    /\ reported = 0

\* The queue, whose length the admission limit bounds: quarantined rows too.
Queue == {e \in Events : pending[e] # NoRow}

\* The pending row of e as the transaction of s sees it: its own writes first.
PendingSeen(s, e) ==
    IF e \in tx[s].gone THEN NoRow
    ELSE IF tx[s].put[e] # NoRow THEN tx[s].put[e] ELSE pending[e]

UsageSeen(s, e) ==
    IF tx[s].usage # NoRow /\ call[s].id = e THEN tx[s].usage ELSE usage[e]

\* readEvent: the frozen row with the COALESCEd state of its pending row.
View(row, posted, item) ==
    [row |-> row, processed |-> posted,
     failures |-> IF item = NoRow THEN 0 ELSE item.failures,
     gen |-> IF item = NoRow THEN 0 ELSE item.gen]

ReadEvent(s, e) ==
    IF UsageSeen(s, e) = NoRow THEN NoRow
    ELSE View(UsageSeen(s, e), e \in ledger \cup tx[s].posted, PendingSeen(s, e))

\* Row locks that nobody respects.
UnlockedAlways(s, e) == TRUE

\* No other transaction holds the FOR UPDATE lock of e's queue row.
Unlocked(s, e) == \A t \in Conns \ {s} : e \notin tx[t].locks

\* An admission lock that belongs to the session and outlives the transaction.
CloseKeepingAdmission(s) ==
    /\ pc' = [pc EXCEPT ![s] = "idle"]
    /\ call' = [call EXCEPT ![s] = NoCall]
    /\ tx' = [tx EXCEPT ![s] = NoTx]
    /\ UNCHANGED admission

\* The transaction of s is over: its locks are free and its draft is gone.
Close(s) ==
    /\ pc' = [pc EXCEPT ![s] = "idle"]
    /\ call' = [call EXCEPT ![s] = NoCall]
    /\ tx' = [tx EXCEPT ![s] = NoTx]
    /\ admission' = IF admission = s THEN NoConn ELSE admission

\* An early return of the transaction function: the deferred Rollback runs and
\* the caller is told the error.
Rollback(s) == Close(s) /\ UNCHANGED <<tables, clock>>

\* The draft of s becomes visible to everybody, all of it at once.
Apply(s) ==
    /\ usage' = [e \in Events |-> UsageSeen(s, e)]
    /\ pending' = [e \in Events |-> PendingSeen(s, e)]
    /\ ledger' = ledger \cup tx[s].posted
    /\ revived' = IF call[s].op = "retry" /\ tx[s].put[call[s].id] # NoRow
                  THEN [revived EXCEPT ![call[s].id][call[s].gen] = @ + 1]
                  ELSE revived
    /\ Close(s)

Goto(s, step) == pc' = [pc EXCEPT ![s] = step]
-----------------------------------------------------------------------------
(* Service.Accept and Store.Accept *)

\* The row that the service prices; the request's own rate is what it freezes.
Priced(i, r) == [input |-> i, price |-> r, amount |-> Amount(i.units, r)]

BeginAccept(s, e, i, r) ==
    /\ pc[s] = "idle"
    /\ calls < MaxCalls
    /\ ~Overflows(i.units, r)
    /\ Goto(s, "insert")
    /\ call' = [call EXCEPT ![s] =
                  [op |-> "accept", id |-> e, input |-> i, price |-> r]]
    /\ calls' = calls + 1
    /\ UNCHANGED <<tables, broken, clock, admission, tx, faults, history>>

\* A request too large for the current rate is answered from the stored event
\* or refused: ErrInvalid for a new event, ErrConflict for a different input.
AnswerOverflowing(e, i, r) ==
    /\ calls < MaxCalls
    /\ Overflows(i.units, r)
    /\ calls' = calls + 1
    /\ quoted' = IF usage[e] # NoRow /\ usage[e].input = i
                 THEN [quoted EXCEPT ![e] = @ \cup {usage[e]}]
                 ELSE quoted
    /\ UNCHANGED <<tables, broken, clock, session, faults,
                   fresh, revived, reported>>

\* INSERT ... ON CONFLICT DO NOTHING waits for the transaction that has the
\* same key uncommitted, then finds the row or is free to insert its own.
InsertUsage(s) ==
    LET e == call[s].id IN
    /\ pc[s] = "insert"
    /\ \A t \in Conns \ {s} : tx[t].usage # NoRow => call[t].id # e
    /\ IF usage[e] = NoRow
       THEN /\ tx' = [tx EXCEPT ![s].usage =
                        Priced(call[s].input, call[s].price)]
            /\ Goto(s, "admit")
       ELSE Goto(s, "read") /\ UNCHANGED tx
    /\ UNCHANGED <<tables, broken, clock, admission, call, budget, history>>

\* Admission without the advisory lock: nobody waits.
AdmissionOpen == TRUE

\* pg_advisory_xact_lock: one admission at a time, until its transaction ends.
AdmissionFree == admission = NoConn

LockAdmission(s) ==
    /\ pc[s] = "admit"
    /\ AdmissionFree
    /\ admission' = s
    /\ Goto(s, "count")
    /\ UNCHANGED <<tables, broken, clock, call, tx, budget, history>>

\* SELECT COUNT(*) with a fresh snapshot; at the limit ErrQueueFull rolls the
\* usage row back too.
CountQueue(s) ==
    /\ pc[s] = "count"
    /\ IF Cardinality(Queue) >= MaxPending
       THEN Rollback(s)
       ELSE Goto(s, "enqueue") /\ UNCHANGED <<tables, clock, admission, call, tx>>
    /\ UNCHANGED <<broken, budget, history>>

NewItem == [failures |-> 0, code |-> "", gen |-> 0, at |-> clock]

Enqueue(s) ==
    /\ pc[s] = "enqueue"
    /\ tx' = [tx EXCEPT ![s].put[call[s].id] = NewItem]
    /\ clock' = clock + 1
    /\ Goto(s, "read")
    /\ UNCHANGED <<tables, broken, admission, call, budget, history>>

\* An acknowledgement that echoes the request instead of the stored row.
EchoRequest(s) ==
    [ReadEvent(s, call[s].id) EXCEPT !.row = Priced(call[s].input, call[s].price)]

\* What the accept call returns: the event as its transaction reads it back.
StoredAnswer(s) == ReadEvent(s, call[s].id)

\* The replay must carry the input of the stored event; prices may differ.
ReadAccepted(s) ==
    LET stored == ReadEvent(s, call[s].id) IN
    /\ pc[s] = "read"
    /\ call[s].op = "accept"
    /\ IF stored = NoRow \/ stored.row.input # call[s].input
       THEN Rollback(s)
       ELSE /\ tx' = [tx EXCEPT ![s].answer = StoredAnswer(s)]
            /\ Goto(s, "commit")
            /\ UNCHANGED <<tables, clock, admission, call>>
    /\ UNCHANGED <<broken, budget, history>>
-----------------------------------------------------------------------------
(* Store.ProcessBatchWithResults and processIndividually *)

Eligible(e) == pending[e] # NoRow /\ pending[e].failures < Quarantine

Claimable(s) == {e \in Events : Eligible(e) /\ Unlocked(s, e)}

\* ORDER BY enqueued_at LIMIT BatchLimit, over the rows of S.
Oldest(S) ==
    {e \in S : Cardinality({f \in S : pending[f].at < pending[e].at}) < BatchLimit}

ClaimBatch(s) ==
    /\ pc[s] = "idle"
    /\ Claimable(s) # {}
    /\ tx' = [tx EXCEPT ![s].locks = Oldest(Claimable(s))]
    /\ call' = [call EXCEPT ![s] = ProcessCall]
    /\ Goto(s, "claimed")
    /\ UNCHANGED <<tables, broken, clock, admission, budget, history>>

\* A poll that claims nothing commits an empty transaction.
EmptyBatch(s) == pc[s] = "idle" /\ Claimable(s) = {} /\ UNCHANGED vars

\* The bulk insert and the bulk delete, or ROLLBACK TO SAVEPOINT, which keeps
\* the row locks.  Nobody else can touch the locked rows in between.
PostBulk(s) ==
    /\ pc[s] = "claimed"
    /\ IF tx[s].locks \cap broken = {}
       THEN /\ tx' = [tx EXCEPT ![s].posted = tx[s].locks, ![s].gone = tx[s].locks]
            /\ Goto(s, "commit")
       ELSE Goto(s, "single") /\ UNCHANGED tx
    /\ UNCHANGED <<tables, broken, clock, admission, call, budget, history>>

\* The claimed rows that processIndividually has not come to yet.
Remaining(s) == {e \in tx[s].locks : e \notin tx[s].gone /\ tx[s].put[e] = NoRow}

\* A failure that is seen and not counted.
UncountedFailure(e, code) == [pending[e] EXCEPT !.code = code]

\* UPDATE ... SET processing_failures = processing_failures + 1, failure_code.
CountedFailure(e, code) ==
    [pending[e] EXCEPT !.failures = @ + 1, !.code = code]

\* A posted event whose queue row is left behind.
PostKeepingRow(s, e) == [tx[s] EXCEPT !.posted = @ \cup {e}]

\* The ledger insert of one event with the removal of its queue row.
PostRemovingRow(s, e) ==
    [tx[s] EXCEPT !.posted = @ \cup {e}, !.gone = @ \cup {e}]

\* One turn of the loop, in claim order: the event is posted, or its insert
\* fails alone and consumes one attempt.
PostOne(s) ==
    /\ pc[s] = "single"
    /\ \E e \in Remaining(s) :
        /\ \A f \in Remaining(s) : pending[e].at <= pending[f].at
        /\ IF e \in broken
           THEN \E code \in Codes :
                  tx' = [tx EXCEPT ![s].put[e] = CountedFailure(e, code)]
           ELSE tx' = [tx EXCEPT ![s] = PostRemovingRow(s, e)]
        /\ Goto(s, IF Remaining(s) = {e} THEN "commit" ELSE "single")
    /\ UNCHANGED <<tables, broken, clock, admission, call, budget, history>>
-----------------------------------------------------------------------------
(* Service.Retry and Store.Retry *)

\* A check that forgets the largest generation.
NonNegative(g) == g >= 0

\* ErrInvalid otherwise: the largest generation has no successor.
ValidGeneration(g) == g >= 0 /\ g # MaxInt64

BeginRetry(s, e, g) ==
    /\ pc[s] = "idle"
    /\ calls < MaxCalls
    /\ ValidGeneration(g)
    /\ Goto(s, "rowlock")
    /\ call' = [call EXCEPT ![s] = [op |-> "retry", id |-> e, gen |-> g]]
    /\ calls' = calls + 1
    /\ UNCHANGED <<tables, broken, clock, admission, tx, faults, history>>

\* A plain SELECT, which does not take the row lock.
LockedByNobody(s) == {}

\* SELECT ... FOR UPDATE locks the row it finds.
LockedByRetry(s) == {call[s].id}

\* case failures == 3: the event is quarantined.
Failed(item) == item.failures = Quarantine

\* Any retry of a quarantined event counts, also one meant for an earlier
\* quarantine of it.
AnyGeneration(item, g) == TRUE

\* current == generation: the request is about the quarantine it found.
SameGeneration(item, g) == item.gen = g

\* The row lock is what a retry and a worker compete for.  A row that does not
\* exist (processed, unknown, or not committed yet) cannot be waited for.
LockRow(s) ==
    LET e    == call[s].id
        item == pending[e]
        g    == call[s].gen
    IN  /\ pc[s] = "rowlock"
        /\ Unlocked(s, e)
        /\ \/ /\ item = NoRow
              /\ Goto(s, "read")
              /\ UNCHANGED <<tables, clock, admission, call, tx>>
           \/ /\ item # NoRow
              /\ \/ Failed(item) /\ SameGeneration(item, g) /\ Goto(s, "update")
                 \/ item.failures < Quarantine /\ item.gen = g + 1 /\ Goto(s, "read")
              /\ tx' = [tx EXCEPT ![s].locks = LockedByRetry(s)]
              /\ UNCHANGED <<tables, clock, admission, call>>
           \/ /\ item # NoRow
              /\ ~(Failed(item) /\ SameGeneration(item, g))
              /\ ~(item.failures < Quarantine /\ item.gen = g + 1)
              /\ Rollback(s)
        /\ UNCHANGED <<broken, budget, history>>

\* SET ... retry_generation = retry_generation + 1, in SQL: of the row as the
\* UPDATE finds it, whatever the SELECT has read.
Reactivated(e) ==
    [failures |-> 0, code |-> "", gen |-> pending[e].gen + 1, at |-> clock]

\* The UPDATE waits for the row and locks it by itself, with or without the
\* lock of the SELECT.
UpdateRow(s) ==
    LET e == call[s].id IN
    /\ pc[s] = "update"
    /\ Unlocked(s, e)
    /\ tx' = IF pending[e] = NoRow THEN tx
             ELSE [tx EXCEPT ![s].locks = {e}, ![s].put[e] = Reactivated(e)]
    /\ clock' = clock + 1
    /\ Goto(s, "read")
    /\ UNCHANGED <<tables, broken, admission, call, budget, history>>

\* readEvent at the end of Retry: ErrNotFound for an unknown event.
ReadRetried(s) ==
    LET stored == ReadEvent(s, call[s].id) IN
    /\ pc[s] = "read"
    /\ call[s].op = "retry"
    /\ IF stored = NoRow
       THEN Rollback(s)
       ELSE /\ tx' = [tx EXCEPT ![s].answer = stored]
            /\ Goto(s, "commit")
            /\ UNCHANGED <<tables, clock, admission, call>>
    /\ UNCHANGED <<broken, budget, history>>
-----------------------------------------------------------------------------
(* Store.transaction: commit, failure, cleanup *)

\* A confirmed commit: the caller gets its answer.  created, retried and the
\* processed count are what the transaction function left behind.
Commit(s) ==
    /\ pc[s] = "commit"
    /\ Apply(s)
    /\ quoted' = IF call[s].op \in {"accept", "retry"}
                 THEN [quoted EXCEPT ![call[s].id] = @ \cup {tx[s].answer.row}]
                 ELSE quoted
    /\ fresh' = IF call[s].op = "accept" /\ tx[s].usage # NoRow
                THEN [fresh EXCEPT ![call[s].id] = @ + 1]
                ELSE fresh
    /\ reported' = IF call[s].op = "process"
                   THEN reported + Cardinality(tx[s].gone)
                   ELSE reported
    /\ UNCHANGED <<broken, clock, budget>>

\* A failed call that reports the tentative count of its batch.
TentativeCount(s) == reported + Cardinality(tx[s].gone)

\* On an error no outcome is confirmed: the caller learns nothing.
CountOnError(s) == reported

\* Any error but an integrity error of a ledger insert: a cancelled context, a
\* lost connection, a failed statement.  The caller is told of an error while
\* the server session keeps draft and locks; an error of COMMIT is ambiguous.
Fault(s) ==
    /\ Attended(s)
    /\ faults < MaxFaults
    /\ faults' = faults + 1
    /\ Goto(s, IF pc[s] = "commit" THEN "indoubt" ELSE "doomed")
    /\ reported' = CountOnError(s)
    /\ UNCHANGED <<tables, broken, clock, admission, call, tx, calls,
                   quoted, fresh, revived>>

\* The server rolls an abandoned transaction back...
Reap(s) ==
    /\ pc[s] \in {"doomed", "indoubt"}
    /\ Rollback(s)
    /\ UNCHANGED <<broken, budget, history>>

\* ... or had received the COMMIT, which nobody will ever be told.
LateCommit(s) ==
    /\ pc[s] = "indoubt"
    /\ Apply(s)
    /\ UNCHANGED <<broken, clock, budget, quoted, fresh, reported>>

\* The database server is killed and restarted: only committed rows survive.
Crash ==
    /\ faults < MaxFaults
    /\ \E s \in Conns : pc[s] # "idle"
    /\ faults' = faults + 1
    /\ admission' = NoConn
    /\ pc' = [s \in Conns |-> "idle"]
    /\ call' = [s \in Conns |-> NoCall]
    /\ tx' = [s \in Conns |-> NoTx]
    /\ UNCHANGED <<tables, broken, clock, calls, history>>
-----------------------------------------------------------------------------
(* The environment: a constraint of ledger_entries starts or stops to reject
   an event.  The schema change waits for uncommitted ledger inserts. *)
NoOpenPosting == \A s \in Conns : tx[s].posted = {}

Break(e) ==
    /\ e \in Breakable \ (broken \cup ledger)
    /\ NoOpenPosting
    /\ broken' = broken \cup {e}
    /\ UNCHANGED <<tables, clock, session, budget, history>>

Mend(e) ==
    /\ e \in broken
    /\ NoOpenPosting
    /\ broken' = broken \ {e}
    /\ UNCHANGED <<tables, clock, session, budget, history>>
-----------------------------------------------------------------------------
\* The statements that connection s executes for a call it has begun.
Statement(s) ==
    \/ InsertUsage(s) \/ LockAdmission(s) \/ CountQueue(s) \/ Enqueue(s)
    \/ ReadAccepted(s)
    \/ PostBulk(s) \/ PostOne(s)
    \/ LockRow(s) \/ UpdateRow(s) \/ ReadRetried(s)
    \/ Commit(s)

Next ==
    \/ \E s \in Conns, e \in Events, i \in Inputs, r \in Rates :
         BeginAccept(s, e, i, r)
    \/ \E e \in Events, i \in Inputs, r \in Rates : AnswerOverflowing(e, i, r)
    \/ \E s \in Conns, e \in Events, g \in RetryGens : BeginRetry(s, e, g)
    \/ \E s \in Conns : ClaimBatch(s) \/ EmptyBatch(s)
    \/ \E s \in Conns : Statement(s)
    \/ \E s \in Conns : Fault(s) \/ Reap(s) \/ LateCommit(s)
    \/ Crash
    \/ \E e \in Events : Break(e) \/ Mend(e)

Spec == Init /\ [][Next]_vars

\* A connection executes the statements of its call, the server ends abandoned
\* sessions, and the worker's ticker keeps polling.  Calls, faults and schema
\* changes are never forced.
Fairness ==
    /\ \A s \in Conns : WF_vars(Statement(s))
    /\ \A s \in Conns : WF_vars(Reap(s) \/ LateCommit(s))
    /\ WF_vars(\E s \in Conns : ClaimBatch(s))

FairSpec == Spec /\ Fairness
=============================================================================

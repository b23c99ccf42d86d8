------------------------------- MODULE HttpApi -------------------------------
(***************************************************************************)
(* The HTTP API (internal/httpapi/httpapi.go) with the service validation  *)
(* behind it, the metrics collector (internal/telemetry/metrics.go) and    *)
(* request identifiers: what clients are told, against what the database   *)
(* holds.  A handler runs beside others, other instances and the worker.   *)
(* The repository is reduced to the commits of module Store; a commit      *)
(* whose caller was told of an error may still land later (late).          *)
(*                                                                         *)
(* The request id of request q is q itself.  Whether an answer reaches its *)
(* client makes no difference to the server: a client that did not get one *)
(* sends the same request again, as another q.                             *)
(***************************************************************************)
EXTENDS Integers, FiniteSets

CONSTANTS
    Requests,     \* HTTP requests, and their request identifiers
    Menu,         \* what a request may ask: records, see Asked
    Events,       \* event identifiers
    Inputs,       \* decoded bodies of acceptances
    Overflowing,  \* inputs too large for this instance's rate
    MaxPending,   \* Store.maxPending
    Elsewhere,    \* the request id of acceptances by other instances
    NoRow         \* "no such row"

Routes == {"unmatched", "health", "ready", "accept", "event", "summary", "metrics", "retry"}
Classes == 1..5
Bodies == {"decoded", "json_required", "body_too_large", "unreadable", "undecodable"}

\* valid: the identifiers, meter, units and generation pass billing.Service.
Asked == [route : Routes, authorized : BOOLEAN, method : {"GET", "POST"}, body : Bodies,
          valid : BOOLEAN, e : Events, input : Inputs, gen : Nat]

ASSUME MenuAssumption == Menu \subseteq Asked
ASSUME OverflowingAssumption == Overflowing \subseteq Inputs
ASSUME LimitAssumption == MaxPending \in Nat \ {0}
ASSUME ElsewhereAssumption == Elsewhere \notin Requests
ASSUME FiniteAssumption == IsFiniteSet(Requests) /\ IsFiniteSet(Events)

\* An event: its frozen input, the id of the acceptance, its state in the queue
\* and the retry request that reactivated it last.
Rows == [input : Inputs, id : Requests \cup {Elsewhere}, posted : BOOLEAN,
         failed : BOOLEAN, gen : Nat, by : Requests \cup {Elsewhere}]
ASSUME NoRowAssumption == NoRow \notin Rows \cup Menu

VARIABLES
    hpc,      \* hpc[q]: how far the handler of q is
    req,      \* req[q]: what q asks, NoRow before it arrives
    status,   \* status[q]: the status code of its answer, 0 before
    shown,    \* shown[q]: the event in the body of its answer, or NoRow
    rows,     \* rows[e]: the committed event, or NoRow
    late,     \* late[e]: a row whose commit nobody was told of, or NoRow
    counts,   \* h.requests: completed requests by route and status class
    errors,   \* Collector.queueErrors
    printed,  \* printed[q]: the counters that the scrape q has read
    acked,    \* events whose acceptance has been answered with 200 or 202
    knew,     \* knew[q]: its event was among them when q arrived
    before    \* before[q]: the requests completed when the scrape q arrived

handlers == <<hpc, req, status, shown>>
database == <<rows, late>>
metered == <<counts, errors, printed>>
history == <<acked, knew, before>>
vars == <<handlers, database, metered, history>>

\* What a scrape has put together: the counters, the routes it has not come to,
\* and the outcome of its queue query with the error counter.
Pages == [cells : [Routes -> [Classes -> Nat]], left : SUBSET Routes,
          success : BOOLEAN, errors : Nat]

NoScrape == [cells |-> [r \in Routes |-> [c \in Classes |-> 0]], left |-> Routes,
             success |-> FALSE, errors |-> 0]

Init ==
    /\ hpc = [q \in Requests |-> "idle"]
    /\ req = [q \in Requests |-> NoRow]
    /\ status = [q \in Requests |-> 0]
    /\ shown = [q \in Requests |-> NoRow]
    /\ rows = [e \in Events |-> NoRow]
    /\ late = [e \in Events |-> NoRow]
    /\ counts = [r \in Routes |-> [c \in Classes |-> 0]]
    /\ errors = 0
    /\ printed = [q \in Requests |-> NoScrape]
    /\ acked = {}
    /\ knew = [q \in Requests |-> FALSE]
    /\ before = [q \in Requests |-> {}]
-----------------------------------------------------------------------------
(* ServeHTTP, serve: the checks that need nothing but the request *)

Posts == {"accept", "retry"}
Open == {"health", "ready"}
Method(r) == IF r \in Posts THEN "POST" ELSE "GET"

\* readBody and the decoders.
BodyStatus(b) ==
    CASE b = "json_required" -> 415
      [] b = "body_too_large" -> 413
      [] b \in {"unreadable", "undecodable"} -> 400

\* Every route but the probes needs the bearer token.
Unauthorized(r) == r.route \notin Open /\ ~r.authorized

\* The status of a request that fails a check, in the order of the checks; 0 if
\* it passes them all.
Refusal(r) ==
    IF Unauthorized(r) THEN 401
    ELSE IF r.route = "unmatched" THEN 404
    ELSE IF r.method # Method(r.route) THEN 405
    ELSE IF r.route \in Posts /\ r.body # "decoded" THEN BodyStatus(r.body)
    ELSE IF r.route \in Posts \cup {"event", "summary"} /\ ~r.valid THEN 400
    ELSE 0

Completed == {q \in Requests : hpc[q] = "done"}

Arrive(q, r) ==
    /\ hpc[q] = "idle"
    /\ req' = [req EXCEPT ![q] = r]
    /\ status' = [status EXCEPT ![q] =
                    IF Refusal(r) = 0 /\ r.route = "health" THEN 200 ELSE Refusal(r)]
    /\ hpc' = [hpc EXCEPT ![q] = IF status'[q] # 0 THEN "answer"
                                 ELSE IF r.route = "metrics" THEN "scrape" ELSE "call"]
    /\ knew' = [knew EXCEPT ![q] = r.e \in acked]
    /\ before' = [before EXCEPT ![q] = IF r.route = "metrics" THEN Completed ELSE {}]
    /\ UNCHANGED <<shown, database, metered, acked>>
-----------------------------------------------------------------------------
(* The service and the repository *)

Calls(q, r) == hpc[q] = "call" /\ req[q].route = r

\* requestid.New: an identifier of its own for every request, which the context
\* carries to the repository.
RequestID(q) == q

\* The call returns: status s, and the event v in the body.
Return(q, s, v) ==
    /\ hpc' = [hpc EXCEPT ![q] = "answer"]
    /\ status' = [status EXCEPT ![q] = s]
    /\ shown' = [shown EXCEPT ![q] = v]
    /\ UNCHANGED <<req, metered, history>>

\* A handler that waits for the repository as long as it takes.
CallFailsNever(q) == FALSE /\ UNCHANGED vars

\* Any other error of the call: the request's five seconds pass (one second for
\* readiness), the client leaves, the database is away.
CallFails(q) ==
    /\ hpc[q] \in {"call", "reread"}
    /\ Return(q, IF req[q].route = "ready" THEN 503 ELSE 500, NoRow)
    /\ UNCHANGED database

\* The rows that occupy the queue: quarantined ones too.
Queue == {e \in Events : rows[e] # NoRow /\ ~rows[e].posted}

\* An acceptance in doubt holds the admission lock and its key.
Admitting == \E e \in Events : late[e] # NoRow /\ rows[e] = NoRow

\* An acceptance that loses the request id on its way to the repository.
NewRowUnnamed(i, id) == [input |-> i, id |-> NoRow, posted |-> FALSE, failed |-> FALSE,
                         gen |-> 0, by |-> Elsewhere]

NewRow(i, id) == [input |-> i, id |-> id, posted |-> FALSE, failed |-> FALSE,
                  gen |-> 0, by |-> Elsewhere]

\* An acceptance finds its key and a queue slot free; it waits for a transaction
\* in doubt that has either.
Creates(q) ==
    /\ Calls(q, "accept")
    /\ req[q].input \notin Overflowing
    /\ rows[req[q].e] = NoRow
    /\ ~Admitting
    /\ Cardinality(Queue) < MaxPending

\* The first acceptance commits.
Create(q) ==
    LET e == req[q].e
        v == NewRow(req[q].input, RequestID(q))
    IN  /\ Creates(q)
        /\ rows' = [rows EXCEPT ![e] = v]
        /\ Return(q, 202, v)
        /\ UNCHANGED late

\* An ambiguous COMMIT reported as a refusal that may be retried.
CreateRefused(q) ==
    /\ Creates(q)
    /\ late' = [late EXCEPT ![req[q].e] = NewRow(req[q].input, RequestID(q))]
    /\ Return(q, 503, NoRow)
    /\ UNCHANGED rows

\* Its COMMIT fails ambiguously: an internal error for the client.
CreateInDoubt(q) ==
    /\ Creates(q)
    /\ late' = [late EXCEPT ![req[q].e] = NewRow(req[q].input, RequestID(q))]
    /\ Return(q, 500, NoRow)
    /\ UNCHANGED rows

\* A capacity check that comes before the look at the event.
QueueFullFirst(q) ==
    /\ Calls(q, "accept")
    /\ Cardinality(Queue) >= MaxPending
    /\ Return(q, 503, NoRow)
    /\ UNCHANGED database

\* The queue is full: the usage row is rolled back too.
QueueFull(q) ==
    /\ Calls(q, "accept")
    /\ req[q].input \notin Overflowing
    /\ rows[req[q].e] = NoRow
    /\ ~Admitting
    /\ Cardinality(Queue) >= MaxPending
    /\ Return(q, 503, NoRow)
    /\ UNCHANGED database

\* A replay that answers with the id of its own request.
ReplayRenamed(q) ==
    LET e == req[q].e IN
    /\ Calls(q, "accept")
    /\ rows[e] # NoRow
    /\ IF rows[e].input = req[q].input
       THEN Return(q, 200, [rows[e] EXCEPT !.id = q])
       ELSE Return(q, 409, NoRow)
    /\ UNCHANGED database

\* The event exists: its stored row for the same input, else a conflict.  The
\* price overflow path finds the row with Get, the normal one with Accept.
Replay(q) ==
    LET e == req[q].e IN
    /\ Calls(q, "accept")
    /\ rows[e] # NoRow
    /\ IF rows[e].input = req[q].input
       THEN Return(q, 200, rows[e])
       ELSE Return(q, 409, NoRow)
    /\ UNCHANGED database

\* A new event whose price overflows.
TooLarge(q) ==
    /\ Calls(q, "accept")
    /\ req[q].input \in Overflowing
    /\ rows[req[q].e] = NoRow
    /\ Return(q, 400, NoRow)
    /\ UNCHANGED database

Get(q) ==
    LET e == req[q].e IN
    /\ Calls(q, "event")
    /\ Return(q, IF rows[e] = NoRow THEN 404 ELSE 200, rows[e])
    /\ UNCHANGED database

\* GET summary and GET /readyz answer from one read.
Read(q) ==
    /\ hpc[q] = "call" /\ req[q].route \in {"summary", "ready"}
    /\ Return(q, 200, NoRow)
    /\ UNCHANGED database

\* A retry of whatever generation, as long as the event is quarantined.
RevivesStale(q) ==
    LET row == rows[req[q].e] IN
    /\ Calls(q, "retry")
    /\ row # NoRow
    /\ late[req[q].e] = NoRow
    /\ row.failed

\* The request that reactivates its event: quarantined, of its generation, and
\* not locked by a reactivation in doubt.
Revives(q) ==
    LET row == rows[req[q].e] IN
    /\ Calls(q, "retry")
    /\ row # NoRow
    /\ late[req[q].e] = NoRow
    /\ row.failed /\ row.gen = req[q].gen

Revived(q) == [rows[req[q].e] EXCEPT !.failed = FALSE, !.gen = @ + 1, !.by = RequestID(q)]

Revive(q) ==
    /\ Revives(q)
    /\ rows' = [rows EXCEPT ![req[q].e] = Revived(q)]
    /\ Return(q, 202, Revived(q))
    /\ UNCHANGED late

ReviveInDoubt(q) ==
    /\ Revives(q)
    /\ late' = [late EXCEPT ![req[q].e] = Revived(q)]
    /\ Return(q, 500, NoRow)
    /\ UNCHANGED rows

\* The row is queued but not this request's to reactivate: a repeated request
\* for the generation that was reactivated last is a no-op.
RetryNothing(q) ==
    LET row == rows[req[q].e] IN
    /\ Calls(q, "retry")
    /\ row # NoRow /\ ~row.posted
    /\ late[req[q].e] = NoRow
    /\ ~Revives(q)
    /\ IF ~row.failed /\ row.gen = req[q].gen + 1
       THEN Return(q, 200, row)
       ELSE Return(q, 409, NoRow)
    /\ UNCHANGED database

\* There is no queue row: the event is posted or unknown.
RetryMisses(q) ==
    /\ Calls(q, "retry")
    /\ rows[req[q].e] # NoRow => rows[req[q].e].posted
    /\ hpc' = [hpc EXCEPT ![q] = "reread"]
    /\ UNCHANGED <<req, status, shown, database, metered, history>>

\* Its event is read by a later statement, which may see a new acceptance.
Reread(q) ==
    LET row == rows[req[q].e] IN
    /\ hpc[q] = "reread"
    /\ Return(q, IF row = NoRow THEN 404 ELSE 200, row)
    /\ UNCHANGED database

Call(q) ==
    \/ CallFails(q) \/ Create(q) \/ CreateInDoubt(q) \/ QueueFull(q) \/ Replay(q)
    \/ TooLarge(q) \/ Get(q) \/ Read(q) \/ Revive(q) \/ ReviveInDoubt(q) \/ RetryNothing(q)
    \/ RetryMisses(q) \/ Reread(q)
-----------------------------------------------------------------------------
(* metrics and Collector.Metrics *)

\* The counters are loaded one after the other; those of a route in one step.
Order == <<"unmatched", "health", "ready", "accept", "event", "summary", "metrics", "retry">>
NextRoute(L) == Order[CHOOSE n \in 1..8 : Order[n] \in L /\ \A m \in 1..8 : Order[m] \in L => n <= m]

LoadRoute(q) ==
    LET L == printed[q].left
        r == NextRoute(L)
    IN  /\ hpc[q] = "scrape"
        /\ L # {}
        /\ printed' = [printed EXCEPT ![q].cells[r] = counts[r], ![q].left = L \ {r}]
        /\ UNCHANGED <<handlers, database, counts, errors, history>>

\* queueStats succeeds, or its error is counted.
QueryQueue(q) ==
    /\ hpc[q] = "scrape"
    /\ printed[q].left = {}
    /\ \E ok \in BOOLEAN :
        /\ printed' = [printed EXCEPT ![q].success = ok]
        /\ errors' = IF ok THEN errors ELSE errors + 1
    /\ hpc' = [hpc EXCEPT ![q] = "collect"]
    /\ UNCHANGED <<req, status, shown, database, counts, history>>

\* queueErrors.Load(), and the page is complete.
LoadErrors(q) ==
    /\ hpc[q] = "collect"
    /\ printed' = [printed EXCEPT ![q].errors = errors]
    /\ hpc' = [hpc EXCEPT ![q] = "answer"]
    /\ status' = [status EXCEPT ![q] = 200]
    /\ UNCHANGED <<req, shown, database, counts, errors, history>>

Scrape(q) == LoadRoute(q) \/ QueryQueue(q) \/ LoadErrors(q)
-----------------------------------------------------------------------------
(* writeJSON, then the counter of ServeHTTP *)

Answer(q) ==
    /\ hpc[q] = "answer"
    /\ hpc' = [hpc EXCEPT ![q] = "count"]
    /\ acked' = IF req[q].route = "accept" /\ status[q] \in {200, 202}
                THEN acked \cup {req[q].e} ELSE acked
    /\ UNCHANGED <<req, status, shown, database, metered, knew, before>>

\* A counter that is only kept for answers without error.
CountSuccess(q) ==
    /\ hpc[q] = "count"
    /\ hpc' = [hpc EXCEPT ![q] = "done"]
    /\ counts' = IF status[q] < 300
                 THEN [counts EXCEPT ![req[q].route][status[q] \div 100] = @ + 1] ELSE counts
    /\ UNCHANGED <<req, status, shown, database, errors, printed, history>>

Count(q) ==
    /\ hpc[q] = "count"
    /\ hpc' = [hpc EXCEPT ![q] = "done"]
    /\ counts' = [counts EXCEPT ![req[q].route][status[q] \div 100] = @ + 1]
    /\ UNCHANGED <<req, status, shown, database, errors, printed, history>>

Handle(q) == Call(q) \/ Scrape(q) \/ Answer(q) \/ Count(q)
-----------------------------------------------------------------------------
(* The rest of the system *)

\* A commit in doubt lands, or the server rolls it back.
Land(e) ==
    /\ late[e] # NoRow
    /\ rows' = [rows EXCEPT ![e] = late[e]]
    /\ late' = [late EXCEPT ![e] = NoRow]
    /\ UNCHANGED <<handlers, metered, history>>

Vanish(e) ==
    /\ late[e] # NoRow
    /\ late' = [late EXCEPT ![e] = NoRow]
    /\ UNCHANGED <<handlers, rows, metered, history>>

\* The worker posts a queued event, or sets it aside at its third failure.
Work(e) ==
    /\ e \in Queue
    /\ ~rows[e].failed
    /\ late[e] = NoRow
    /\ \/ rows' = [rows EXCEPT ![e].posted = TRUE]
       \/ rows' = [rows EXCEPT ![e].failed = TRUE]
    /\ UNCHANGED <<handlers, late, metered, history>>

\* An instance with another rate accepts an event.
AcceptElsewhere(e, i) ==
    /\ rows[e] = NoRow
    /\ ~Admitting
    /\ Cardinality(Queue) < MaxPending
    /\ rows' = [rows EXCEPT ![e] = NewRow(i, Elsewhere)]
    /\ UNCHANGED <<handlers, late, metered, history>>

Next ==
    \/ \E q \in Requests : Handle(q) \/ \E r \in Menu : Arrive(q, r)
    \/ \E e \in Events : Land(e) \/ Vanish(e) \/ Work(e)
                         \/ \E i \in Inputs : AcceptElsewhere(e, i)

Spec == Init /\ [][Next]_vars

\* A handler goroutine that can take a step takes one; its deadline makes sure
\* that its call returns.  Nothing is asked of clients, worker or database.
FairSpec == Spec /\ \A q \in Requests : WF_vars(Handle(q))
-----------------------------------------------------------------------------
TypeOK ==
    /\ hpc \in [Requests -> {"idle", "call", "reread", "scrape", "collect", "answer", "count", "done"}]
    /\ req \in [Requests -> Menu \cup {NoRow}]
    /\ status \in [Requests -> {0, 200, 202, 400, 401, 404, 405, 409, 413, 415, 500, 503}]
    /\ shown \in [Requests -> Rows \cup {NoRow}]
    /\ rows \in [Events -> Rows \cup {NoRow}]
    /\ late \in [Events -> Rows \cup {NoRow}]
    /\ counts \in [Routes -> [Classes -> Nat]]
    /\ errors \in Nat
    /\ printed \in [Requests -> Pages]
    /\ acked \subseteq Events
    /\ knew \in [Requests -> BOOLEAN]
    /\ before \in [Requests -> SUBSET Requests]

Told(q, route, s) == req[q] # NoRow /\ req[q].route = route /\ status[q] = s

\* 202 names a creator: the stored event carries the request id of the only
\* acceptance that was answered 202.  A retry answered 202 shows the generation
\* after the one it named and is named by the row of that generation; no other
\* retry of the event with the same generation is ever answered 202 (accept,
\* retry, Service.Accept, Service.Retry and the created flag).
CreatorIsStored ==
    \A q \in Requests :
        /\ Told(q, "accept", 202) =>
              rows[req[q].e] # NoRow /\ rows[req[q].e].id = q
        /\ Told(q, "retry", 202) =>
              /\ shown[q].gen = req[q].gen + 1
              /\ rows[req[q].e].gen > shown[q].gen \/ rows[req[q].e].by = q
              /\ \A p \in Requests \ {q} :
                    Told(p, "retry", 202) /\ req[p].e = req[q].e => req[p].gen # req[q].gen

\* Every answer that shows an event shows the request id, the input and no later
\* generation than is stored, for as long as the event exists (replay keeps the
\* original request id: Service.Accept, readEvent).
ShownIsStored ==
    \A q \in Requests : shown[q] # NoRow =>
        LET row == rows[req[q].e] IN
        /\ row # NoRow
        /\ shown[q].id = row.id /\ shown[q].input = row.input /\ shown[q].gen <= row.gen

\* A request that was refused has changed nothing and never will: only 500
\* leaves its client in doubt (serve, readBody, serviceError; "a rejected event
\* is never acknowledged").
RefusedWroteNothing ==
    \A q \in Requests : status[q] \in {400, 401, 404, 405, 409, 413, 415, 503} =>
        \A e \in Events : \A v \in {rows[e], late[e]} :
            v # NoRow => v.id # q /\ v.by # q

\* Once an acceptance has been answered, a request that arrives later finds the
\* event: no 404, no second 202, no 503, and a conflict only for another input.
AcknowledgedIsFound ==
    \A q \in Requests : knew[q] /\ Refusal(req[q]) = 0 =>
        CASE req[q].route = "accept" ->
               /\ status[q] \in {0, 200, 409, 500}
               /\ status[q] = 409 => rows[req[q].e].input # req[q].input
          [] req[q].route \in {"event", "retry"} -> status[q] # 404
          [] OTHER -> TRUE

Cell(p) == <<req[p].route, status[p] \div 100>>

\* The scrapes whose queue query has failed.
QueryFailed ==
    {q \in Requests : (hpc[q] = "collect" \/ Told(q, "metrics", 200)) /\ ~printed[q].success}

\* A scrape prints, for every route and class, at least the requests that were
\* completed when it arrived and at most those completed now, though it loads
\* the counters while other handlers count (metrics, ServeHTTP).  So does its
\* error counter with the failed queue queries, of concurrent scrapes too and its
\* own included (Collector.Metrics counts, then loads); and it is not behind the
\* error counter of a scrape completed before, and ahead if its own query failed.
ScrapeBetween ==
    \A q \in Requests : Told(q, "metrics", 200) =>
        /\ \A r \in Routes, c \in Classes :
            /\ Cardinality({p \in before[q] : Cell(p) = <<r, c>>}) <= printed[q].cells[r][c]
            /\ printed[q].cells[r][c] <= Cardinality({p \in Completed : Cell(p) = <<r, c>>})
        /\ Cardinality(QueryFailed \cap (before[q] \cup {q})) <= printed[q].errors
        /\ printed[q].errors <= Cardinality(QueryFailed)
        /\ \A p \in before[q] : Told(p, "metrics", 200) =>
            /\ printed[p].errors <= printed[q].errors
            /\ ~printed[q].success => printed[p].errors < printed[q].errors

\* Every request that arrives is answered and counted: a call that waits for
\* locks nobody releases ends at the request's deadline (ServeHTTP).
EveryRequestCompletes ==
    \A q \in Requests : hpc[q] # "idle" ~> hpc[q] = "done"
=============================================================================

------------------------------ MODULE LoadTest ------------------------------
(***************************************************************************)
(* The load test (cmd/loadtest/main.go): run with its closed-loop clients, *)
(* the goroutine that closes the results channel, the queue monitor, and   *)
(* the demo service they talk to.  An answer may be lost, and a request    *)
(* whose client gave up may still be accepted later.  Latencies and rates  *)
(* are left out; of sample errors it matters only whether there were any.  *)
(***************************************************************************)
EXTENDS Integers, FiniteSets

CONSTANTS
    Total,        \* cfg.requests
    Concurrency   \* cfg.concurrency, and the capacity of results

ASSUME ConfigAssumption == Total \in Nat \ {0} /\ Concurrency \in Nat \ {0}

Indices == 0..(Total - 1)
Clients == 0..(Concurrency - 1)

VARIABLES
    lpc,        \* where run is
    expired,    \* ctx is done: the deadline passed or a signal arrived
    client,     \* client[w]: the position of the client w
    index,      \* index[w]: its loop variable i
    results,    \* samples in the channel: how many ok, how many not
    closed,     \* the channel is closed
    monitor,    \* the position of the monitor goroutine
    stopped,    \* stopMonitor() was called
    sampleErr,  \* monErr and sampleErr: QueueSampleErrors is not zero,
    monErr,     \* in the report of run and in that of the monitor
    out,        \* attempted, accepted and errors of the report
    settled,    \* out.Settled
    outcome,    \* what run returned: "none", "nil" or "error"
    sends,      \* sends[i]: how often the event i was sent
    flying,     \* events that the server may still accept
    created,    \* events in the database
    posted      \* events the worker has posted

runvars == <<lpc, out, sampleErr, settled, outcome>>
clientvars == <<client, index, sends>>
channel == <<results, closed>>
monitorvars == <<monitor, monErr>>
server == <<flying, created, posted>>
vars == <<runvars, expired, clientvars, channel, monitorvars, stopped, server>>

Init ==
    /\ lpc = "probe"
    /\ expired = FALSE
    /\ client = [w \in Clients |-> "new"]
    /\ index = [w \in Clients |-> w]
    /\ results = [ok |-> 0, bad |-> 0]
    /\ closed = FALSE
    /\ monitor = "new"
    /\ stopped = FALSE
    /\ sampleErr = FALSE /\ monErr = FALSE
    /\ out = [attempted |-> 0, accepted |-> 0, errors |-> 0]
    /\ settled = FALSE
    /\ outcome = "none"
    /\ sends = [i \in Indices |-> 0]
    /\ flying = {} /\ created = {} /\ posted = {}
-----------------------------------------------------------------------------
(* run *)

Return(err) == lpc' = "returned" /\ outcome' = IF err THEN "error" ELSE "nil"

\* The first summary fails: nothing was started.
ProbeFails ==
    /\ lpc = "probe"
    /\ Return(TRUE)
    /\ UNCHANGED <<out, sampleErr, settled, expired, clientvars, channel, monitorvars,
                   stopped, server>>

\* It succeeds: the monitor, the clients and the closer start.
Start ==
    /\ lpc = "probe"
    /\ lpc' = "collect"
    /\ client' = [w \in Clients |-> "loop"]
    /\ monitor' = "select"
    /\ UNCHANGED <<out, sampleErr, settled, outcome, expired, index, sends, channel, monErr,
                   stopped, server>>

\* for result := range results.
Collect(ok) ==
    /\ lpc = "collect"
    /\ IF ok THEN results.ok > 0 ELSE results.bad > 0
    /\ results' = IF ok THEN [results EXCEPT !.ok = @ - 1] ELSE [results EXCEPT !.bad = @ - 1]
    /\ out' = [attempted |-> out.attempted + 1,
               accepted |-> IF ok THEN out.accepted + 1 ELSE out.accepted,
               errors |-> IF ok THEN out.errors ELSE out.errors + 1]
    /\ UNCHANGED <<lpc, sampleErr, settled, outcome, expired, clientvars, closed, monitorvars,
                   stopped, server>>

Buffered == results.ok + results.bad

\* A collector that also stops at the deadline.
CollectedEarly ==
    /\ lpc = "collect"
    /\ (closed \/ expired) /\ Buffered = 0
    /\ lpc' = "join"
    /\ stopped' = TRUE
    /\ UNCHANGED <<out, sampleErr, settled, outcome, expired, clientvars, channel, monitorvars,
                   server>>

\* The channel is closed and drained: stopMonitor().
Collected ==
    /\ lpc = "collect"
    /\ closed /\ Buffered = 0
    /\ lpc' = "join"
    /\ stopped' = TRUE
    /\ UNCHANGED <<out, sampleErr, settled, outcome, expired, clientvars, channel, monitorvars,
                   server>>

\* A run that reads the monitor's report without waiting for it.
JoinMonitorNever ==
    /\ lpc = "join"
    /\ sampleErr' = monErr
    /\ lpc' = "drain"
    /\ UNCHANGED <<out, settled, outcome, expired, clientvars, channel, monitorvars, stopped,
                   server>>

\* observed := <-queueDone.
JoinMonitor ==
    /\ lpc = "join"
    /\ monitor = "returned"
    /\ sampleErr' = monErr
    /\ lpc' = "drain"
    /\ UNCHANGED <<out, settled, outcome, expired, clientvars, channel, monitorvars, stopped,
                   server>>

\* One turn of the drain loop: the summary fails, or shows the run settled, or
\* does not and the loop waits for its ticker.  One snapshot answers it.
Drain ==
    /\ lpc = "drain"
    /\ ~expired
    /\ \/ sampleErr' = TRUE /\ lpc' = "verdict" /\ UNCHANGED settled
       \/ /\ posted = Indices
          /\ settled' = TRUE /\ lpc' = "verdict" /\ UNCHANGED sampleErr
       \/ /\ posted # Indices
          /\ UNCHANGED <<lpc, sampleErr, settled>>
    /\ UNCHANGED <<out, outcome, expired, clientvars, channel, monitorvars, stopped, server>>

\* for ctx.Err() == nil: the deadline ends the loop.
DrainExpires ==
    /\ lpc = "drain"
    /\ expired
    /\ lpc' = "verdict"
    /\ UNCHANGED <<out, sampleErr, settled, outcome, expired, clientvars, channel, monitorvars,
                   stopped, server>>

Unattempted == Total - out.attempted

\* A verdict that looks at the settlement only.
FailedUnsettled == ~settled

\* The condition of the final error.
Failed == out.errors # 0 \/ Unattempted # 0 \/ sampleErr \/ ~settled

Verdict ==
    /\ lpc = "verdict"
    /\ Return(Failed)
    /\ UNCHANGED <<out, sampleErr, settled, expired, clientvars, channel, monitorvars, stopped,
                   server>>

Run ==
    \/ ProbeFails \/ Start \/ (\E ok \in BOOLEAN : Collect(ok)) \/ Collected
    \/ JoinMonitor \/ Drain \/ DrainExpires \/ Verdict
-----------------------------------------------------------------------------
(* the clients and the closer *)

\* The head of the loop: send the next event, or stop.
Loop(w) ==
    /\ client[w] = "loop"
    /\ IF index[w] < Total /\ ~expired
       THEN /\ client' = [client EXCEPT ![w] = "waiting"]
            /\ sends' = [sends EXCEPT ![index[w]] = @ + 1]
            /\ flying' = flying \cup {index[w]}
       ELSE client' = [client EXCEPT ![w] = "exited"] /\ UNCHANGED <<sends, flying>>
    /\ UNCHANGED <<runvars, expired, index, channel, monitorvars, stopped, created, posted>>

\* 202 with the expected event: the server has created it.
Accepted(w) ==
    /\ client[w] = "waiting"
    /\ index[w] \in created
    /\ client' = [client EXCEPT ![w] = "accepted"]
    /\ UNCHANGED <<runvars, expired, index, sends, channel, monitorvars, stopped, server>>

\* Any other answer, or none in time: an error whatever the server does with it.
GaveUp(w) ==
    /\ client[w] = "waiting"
    /\ client' = [client EXCEPT ![w] = "failed"]
    /\ UNCHANGED <<runvars, expired, index, sends, channel, monitorvars, stopped, server>>

\* i += cfg.concurrency: the clients' shares are disjoint.
Stride(w) == index[w] + Concurrency

\* results <- sample, which blocks while the channel is full.
Push(w) ==
    /\ client[w] \in {"accepted", "failed"}
    /\ Buffered < Concurrency
    /\ results' = IF client[w] = "accepted" THEN [results EXCEPT !.ok = @ + 1]
                  ELSE [results EXCEPT !.bad = @ + 1]
    /\ client' = [client EXCEPT ![w] = "loop"]
    /\ index' = [index EXCEPT ![w] = Stride(w)]
    /\ UNCHANGED <<runvars, expired, sends, closed, monitorvars, stopped, server>>

Client(w) == Loop(w) \/ Accepted(w) \/ GaveUp(w) \/ Push(w)

\* clients.Wait(); close(results).
Close ==
    /\ ~closed
    /\ \A w \in Clients : client[w] = "exited"
    /\ closed' = TRUE
    /\ UNCHANGED <<runvars, expired, clientvars, results, monitorvars, stopped, server>>
-----------------------------------------------------------------------------
(* the monitor *)

MonitorCancelled == expired \/ stopped

\* A monitor that only looks at its context after a sample.
MonitorReturnsNever == FALSE /\ UNCHANGED vars

\* case <-ctx.Done(), or ctx.Err() after a summary.
MonitorReturns ==
    /\ monitor \in {"select", "sampling"}
    /\ MonitorCancelled
    /\ monitor' = "returned"
    /\ UNCHANGED <<runvars, expired, clientvars, channel, monErr, stopped, server>>

\* case <-ticker.C.
Tick ==
    /\ monitor = "select"
    /\ monitor' = "sampling"
    /\ UNCHANGED <<runvars, expired, clientvars, channel, monErr, stopped, server>>

\* The summary comes back while the context is alive.
Sampled ==
    /\ monitor = "sampling"
    /\ ~MonitorCancelled
    /\ monErr' \in {monErr, TRUE}
    /\ monitor' = "select"
    /\ UNCHANGED <<runvars, expired, clientvars, channel, stopped, server>>

Monitor == MonitorReturns \/ Tick \/ Sampled
-----------------------------------------------------------------------------
(* the clock and the service *)

Expire ==
    /\ ~expired
    /\ expired' = TRUE
    /\ UNCHANGED <<runvars, clientvars, channel, monitorvars, stopped, server>>

\* A request in flight is accepted or refused, also when nobody waits for it.
Arrive(i) ==
    /\ i \in flying
    /\ flying' = flying \ {i}
    /\ created' \in {created, created \cup {i}}
    /\ UNCHANGED <<runvars, expired, clientvars, channel, monitorvars, stopped, posted>>

Post(i) ==
    /\ i \in created \ posted
    /\ posted' = posted \cup {i}
    /\ UNCHANGED <<runvars, expired, clientvars, channel, monitorvars, stopped, flying, created>>

Next ==
    \/ Run \/ (\E w \in Clients : Client(w)) \/ Close \/ Monitor \/ Expire
    \/ \E i \in Indices : Arrive(i) \/ Post(i)

Spec == Init /\ [][Next]_vars

\* Every goroutine runs; a request returns within its client's five seconds and
\* the whole run's deadline passes.  The service owes nothing.
FairSpec ==
    /\ Spec
    /\ WF_vars(Run) /\ WF_vars(Close) /\ WF_vars(Expire)
    /\ \A w \in Clients : WF_vars(Client(w))
    /\ WF_vars(MonitorReturns) /\ WF_vars(Sampled)
-----------------------------------------------------------------------------
Sent == {i \in Indices : sends[i] > 0}

\* The report accounts for every request that was sent, none of them twice
\* ("Failed requests are not retried"), and claims no more acceptances than there
\* are events (the loops of the clients, the results channel and its closing).
ReportComplete ==
    lpc \in {"join", "drain", "verdict"} =>
        /\ out.attempted = Cardinality(Sent)
        /\ out.attempted = out.accepted + out.errors
        /\ out.accepted <= Cardinality(created)

\* A run that returns nil has had every event accepted by its own request, and
\* every one is posted: "a zero error rate is not sufficient" (run).
SuccessIsReal ==
    outcome = "nil" => out.accepted = Total /\ created = Indices /\ posted = Indices

\* run leaves no goroutine behind that it started (WaitGroup, queueDone).
NobodyLeftBehind ==
    lpc = "returned" =>
        /\ monitor \in {"new", "returned"}
        /\ \A w \in Clients : client[w] \in {"new", "exited"}

\* run returns, whatever the service does: nobody waits for ever on the results
\* channel, on the clients or on the monitor.
RunReturns == <>(lpc = "returned")
=============================================================================

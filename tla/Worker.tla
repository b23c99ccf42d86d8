------------------------------- MODULE Worker -------------------------------
(***************************************************************************)
(* The polling loop of internal/worker/worker.go.  Several goroutines may  *)
(* call Run on one Worker; each call has its own context, timer and delay, *)
(* and they share the statistics.  Durations are whole units of time.      *)
(***************************************************************************)
EXTENDS Integers

CONSTANTS
    Runs,         \* calls of Run
    Interval,     \* Worker.interval
    Cap,          \* 30*time.Second
    Counts,       \* what a successful ProcessBatch may report
    MaxAttempts   \* bound: batches in a behaviour

ASSUME IntervalAssumption == Interval \in Nat \ {0}
\* 30*time.Second is an even number of nanoseconds, so halving it is exact.
ASSUME CapAssumption == Cap \in Nat /\ Cap % 2 = 0
ASSUME CountsAssumption == Counts \subseteq Nat
ASSUME MaxAttemptsAssumption == MaxAttempts \in Nat

\* Run: maxDelay := max(30*time.Second, w.interval).
MaxDelay == IF Cap > Interval THEN Cap ELSE Interval

VARIABLES
    pc,         \* pc[r]: where the call r of Run is
    cancelled,  \* cancelled[r]: its context is done
    expired,    \* expired[r]: the deadline of its attempt has passed
    timer,      \* timer[r]: "armed", "fired" (its channel is ready) or "off"
    delay,      \* delay[r]: the local variable
    outcome,    \* outcome[r]: what processBatch returned
    stats,      \* Worker.stats
    fails,      \* history: fails[r] counts r's consecutive failed batches
    seen,       \* history: seen[k] counts the batches that returned with k
    posted      \* history: events posted by the batches that returned

vars == <<pc, cancelled, expired, timer, delay, outcome, stats, fails, seen, posted>>

\* An error of the processor: from the driver, or one that wraps
\* context.Canceled or context.DeadlineExceeded (of any context).
Errors == {"driver", "context"}
Kinds == Errors \cup {"none"}
Outcome == {o \in [count : Counts \cup {0}, err : Kinds] : o.err # "none" => o.count = 0}
NoOutcome == [count |-> 0, err |-> "none"]

Stats == [running : BOOLEAN, inFlight : BOOLEAN, attempts : Nat, errors : Nat,
          cancellations : Nat, processed : Nat]

\* A Worker as New returns it, and the calls of Run about to be made.
Init ==
    /\ pc = [r \in Runs |-> "new"]
    /\ cancelled = [r \in Runs |-> FALSE]
    /\ expired = [r \in Runs |-> FALSE]
    /\ timer = [r \in Runs |-> "off"]
    /\ delay = [r \in Runs |-> Interval]
    /\ outcome = [r \in Runs |-> NoOutcome]
    /\ stats = [running |-> FALSE, inFlight |-> FALSE, attempts |-> 0,
                errors |-> 0, cancellations |-> 0, processed |-> 0]
    /\ fails = [r \in Runs |-> 0]
    /\ seen = [k \in Kinds |-> 0]
    /\ posted = 0

history == <<fails, seen, posted>>

Goto(r, from, to) == pc[r] = from /\ pc' = [pc EXCEPT ![r] = to]

\* A loop that watches a context nobody cancels.
DetachedCtx(r) == FALSE

\* ctx.Done() is ready, ctx.Err() # nil.
CtxDone(r) == cancelled[r]

\* A check of Running that does not survive until it is set.
StartUnchecked(r) ==
    /\ Goto(r, "new", "select")
    /\ stats' = [stats EXCEPT !.running = TRUE]
    /\ timer' = [timer EXCEPT ![r] = "armed"]
    /\ delay' = [delay EXCEPT ![r] = Interval]
    /\ UNCHANGED <<cancelled, expired, outcome, history>>

\* start() succeeds; the first timer has a delay of zero.
Start(r) ==
    /\ ~stats.running
    /\ Goto(r, "new", "select")
    /\ stats' = [stats EXCEPT !.running = TRUE]
    /\ timer' = [timer EXCEPT ![r] = "armed"]
    /\ delay' = [delay EXCEPT ![r] = Interval]
    /\ UNCHANGED <<cancelled, expired, outcome, history>>

\* start() fails: the worker is already running.
Refuse(r) ==
    /\ stats.running
    /\ Goto(r, "new", "refused")
    /\ UNCHANGED <<cancelled, expired, timer, delay, outcome, stats, history>>

\* select: case <-ctx.Done().
SelectDone(r) ==
    /\ CtxDone(r)
    /\ Goto(r, "select", "stopping")
    /\ UNCHANGED <<cancelled, expired, timer, delay, outcome, stats, history>>

\* select: case <-timer.C, which the runtime may choose although the context
\* is done too, and the test of ctx.Err() that follows.
SelectTimer(r) ==
    /\ timer[r] = "fired"
    /\ stats.attempts < MaxAttempts
    /\ Goto(r, "select", IF CtxDone(r) THEN "stopping" ELSE "begin")
    /\ timer' = [timer EXCEPT ![r] = "off"]
    /\ UNCHANGED <<cancelled, expired, delay, outcome, stats, history>>

\* context.WithTimeout and beginAttempt().
BeginAttempt(r) ==
    /\ Goto(r, "begin", "process")
    /\ expired' = [expired EXCEPT ![r] = FALSE]
    /\ stats' = [stats EXCEPT !.inFlight = TRUE]
    /\ UNCHANGED <<cancelled, timer, delay, outcome, history>>

\* The processor returns o.
ProcessBatch(r, o) ==
    /\ Goto(r, "process", "finish")
    /\ outcome' = [outcome EXCEPT ![r] = o]
    /\ fails' = [fails EXCEPT ![r] = IF o.err = "none" THEN 0 ELSE @ + 1]
    /\ seen' = [seen EXCEPT ![o.err] = @ + 1]
    /\ posted' = posted + o.count
    /\ UNCHANGED <<cancelled, expired, timer, delay, stats>>

\* A cancelled batch is forgotten instead of counted.
RecordedForgettingCancelled(r) ==
    LET o == outcome[r]
        cut == o.err # "none" /\ (expired[r] \/ CtxDone(r) \/ o.err = "context")
    IN  [stats EXCEPT
            !.inFlight = FALSE,
            !.attempts = IF cut THEN @ ELSE @ + 1,
            !.errors = IF o.err # "none" /\ ~cut THEN @ + 1 ELSE @,
            !.processed = @ + o.count]

\* finishAttempt(count, err, attemptCtx.Err()).  A driver error counts as a
\* cancellation when the context of the attempt was done by the time it is read.
Recorded(r) ==
    LET o == outcome[r]
        cut == expired[r] \/ CtxDone(r) \/ o.err = "context"
    IN  [stats EXCEPT
            !.inFlight = FALSE,
            !.attempts = @ + 1,
            !.cancellations = IF o.err # "none" /\ cut THEN @ + 1 ELSE @,
            !.errors = IF o.err # "none" /\ ~cut THEN @ + 1 ELSE @,
            !.processed = IF o.err = "none" THEN @ + o.count ELSE @]

FinishAttempt(r) ==
    /\ Goto(r, "finish", "check")
    /\ stats' = Recorded(r)
    /\ UNCHANGED <<cancelled, expired, timer, delay, outcome, history>>

\* Doubling without the cap.
BackoffUncapped(r) ==
    IF outcome[r].err = "none" THEN Interval ELSE 2 * delay[r]

\* The delay after a batch.
Backoff(r) ==
    IF outcome[r].err = "none" THEN Interval
    ELSE IF delay[r] >= MaxDelay \div 2 THEN MaxDelay ELSE 2 * delay[r]

\* A loop that forgets to rearm the timer after a failed batch.
ContinueForgetful(r) ==
    /\ ~CtxDone(r)
    /\ Goto(r, "check", "select")
    /\ delay' = [delay EXCEPT ![r] = Backoff(r)]
    /\ timer' = [timer EXCEPT ![r] = IF outcome[r].err = "none" THEN "armed" ELSE "off"]
    /\ UNCHANGED <<cancelled, expired, outcome, stats, history>>

\* ctx.Err() = nil after a batch: new delay, timer.Reset.
Continue(r) ==
    /\ ~CtxDone(r)
    /\ Goto(r, "check", "select")
    /\ delay' = [delay EXCEPT ![r] = Backoff(r)]
    /\ timer' = [timer EXCEPT ![r] = "armed"]
    /\ UNCHANGED <<cancelled, expired, outcome, stats, history>>

\* ctx.Err() # nil after a batch.
Break(r) ==
    /\ CtxDone(r)
    /\ Goto(r, "check", "stopping")
    /\ UNCHANGED <<cancelled, expired, timer, delay, outcome, stats, history>>

\* The deferred timer.Stop() and stop().
Stop(r) ==
    /\ Goto(r, "stopping", "returned")
    /\ timer' = [timer EXCEPT ![r] = "off"]
    /\ stats' = [stats EXCEPT !.running = FALSE, !.inFlight = FALSE]
    /\ UNCHANGED <<cancelled, expired, delay, outcome, history>>

\* The environment of a run.  The caller cancels its context ...
Cancel(r) ==
    /\ ~cancelled[r]
    /\ cancelled' = [cancelled EXCEPT ![r] = TRUE]
    /\ UNCHANGED <<pc, expired, timer, delay, outcome, stats, history>>

\* ... the ten seconds of an attempt pass before cancel() is called ...
Expire(r) ==
    /\ pc[r] \in {"process", "finish"}
    /\ ~expired[r]
    /\ expired' = [expired EXCEPT ![r] = TRUE]
    /\ UNCHANGED <<pc, cancelled, timer, delay, outcome, stats, history>>

\* ... and the delay of the timer passes.
Fire(r) ==
    /\ timer[r] = "armed"
    /\ timer' = [timer EXCEPT ![r] = "fired"]
    /\ UNCHANGED <<pc, cancelled, expired, delay, outcome, stats, history>>

\* The code of a run up to and after the call of the processor.
Code(r) ==
    \/ Start(r) \/ Refuse(r) \/ SelectDone(r) \/ SelectTimer(r) \/ BeginAttempt(r)
    \/ FinishAttempt(r) \/ Continue(r) \/ Break(r) \/ Stop(r)

Processor(r) == \E o \in Outcome : ProcessBatch(r, o)

Next == \E r \in Runs : Code(r) \/ Processor(r) \/ Cancel(r) \/ Expire(r) \/ Fire(r)

Spec == Init /\ [][Next]_vars

\* A goroutine runs, time passes, and a processor returns once the context of
\* its attempt is done, which the deadline brings about; nobody need cancel.
Fairness ==
    \A r \in Runs :
        /\ WF_vars(Code(r))
        /\ WF_vars(Fire(r))
        /\ WF_vars(Expire(r))
        /\ WF_vars((expired[r] \/ CtxDone(r)) /\ Processor(r))

FairSpec == Spec /\ Fairness
-----------------------------------------------------------------------------
TypeOK ==
    /\ pc \in [Runs -> {"new", "refused", "select", "begin", "process", "finish",
                        "check", "stopping", "returned"}]
    /\ cancelled \in [Runs -> BOOLEAN]
    /\ expired \in [Runs -> BOOLEAN]
    /\ timer \in [Runs -> {"armed", "fired", "off"}]
    /\ delay \in [Runs -> Nat]
    /\ outcome \in [Runs -> [count : Nat, err : Kinds]]
    /\ stats \in Stats
    /\ fails \in [Runs -> Nat]
    /\ seen \in [Kinds -> Nat]
    /\ posted \in Nat

Looping == {"select", "begin", "process", "finish", "check", "stopping"}

\* start() and the deferred stop() let one call of Run at a time into the
\* loop, and the snapshot tells the truth about it: Running exactly while a call
\* loops, BatchInFlight exactly while its batch has begun and is not counted.
OneLoop ==
    /\ \A r, q \in Runs : pc[r] \in Looping /\ pc[q] \in Looping => r = q
    /\ stats.running <=> \E r \in Runs : pc[r] \in Looping
    /\ stats.inFlight <=> \E r \in Runs : pc[r] \in {"process", "finish"}

\* finishAttempt accounts for every batch that returned, but for the one that
\* is being counted: each failed batch is one error or one cancellation, an
\* error is never one of context, and the events are those of confirmed batches.
Accounting ==
    (\A r \in Runs : pc[r] # "finish") =>
        /\ stats.attempts = seen["none"] + seen["driver"] + seen["context"]
        /\ stats.errors + stats.cancellations = seen["driver"] + seen["context"]
        /\ stats.cancellations >= seen["context"]
        /\ stats.processed = posted

\* While Run waits, its delay is the interval doubled once per consecutive
\* failure and cut off at maxDelay: "exponentially back off to
\* max(30s, interval); a successful batch resets the normal polling delay".
BackoffExact ==
    \A r \in Runs : pc[r] = "select" =>
        LET wanted == Interval * 2 ^ fails[r]
        IN  delay[r] = IF wanted < MaxDelay THEN wanted ELSE MaxDelay

\* Run never stops polling by itself: from every wait it comes to a
\* batch or to the end of a cancelled run.
KeepsPolling ==
    \A r \in Runs : pc[r] = "select" ~>
        \/ pc[r] \in {"process", "stopping"}
        \/ stats.attempts = MaxAttempts

\* A run as its caller sees it.
Phase(r) ==
    IF pc[r] \in Looping THEN "looping" ELSE pc[r]

Contract(r) == INSTANCE WorkerContract WITH phase <- Phase(r), cancelled <- cancelled[r]

\* Every call of Run keeps its contract: it returns nil only after its context
\* was cancelled, and it does return then, from whatever point of the loop,
\* batch in flight, backoff or idle wait.
KeepsContract ==
    /\ \A r \in Runs : Contract(r)!Init
    /\ [][\A r \in Runs : Contract(r)!Step]_vars
    /\ \A r \in Runs : Contract(r)!Promptness
=============================================================================

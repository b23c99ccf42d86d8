-------------------------------- MODULE Serve --------------------------------
(***************************************************************************)
(* The life of the process: run and serve of cmd/usage-billing/main.go.    *)
(* Three goroutines (main, the HTTP server, the worker), the handlers of   *)
(* the server, a signal, and the channels and contexts between them.  The  *)
(* worker is any run that keeps WorkerContract; net/http and the pool are  *)
(* external and modelled as main.go uses them.                             *)
(***************************************************************************)
CONSTANT Requests   \* connections that clients open

VARIABLES
    spc,         \* where main is
    signalled,   \* ctx of main is done: SIGINT or SIGTERM arrived
    http,        \* the goroutine of server.Serve, and how Serve returned
    httpDone,    \* the channel httpDone: "empty" or the error in it
    worker,      \* the goroutine of runWorker: phase of its contract
    workerCtx,   \* workerCtx is done
    workerDone,  \* the channel workerDone: "empty" or the result in it
    isHTTPDone, isWorkerDone,   \* local variables of serve
    inShutdown,  \* server.Shutdown was called: no connection is accepted
    requestCtx,  \* requestCtx is done: handlers see a cancelled context
    reqs,        \* reqs[q]: how far the connection q has come
    result       \* result of run: the set of errors joined in it

vars == <<spc, signalled, http, httpDone, worker, workerCtx, workerDone,
          isHTTPDone, isWorkerDone, inShutdown, requestCtx, reqs, result>>
main == <<spc, isHTTPDone, isWorkerDone, result>>
server == <<http, httpDone, inShutdown>>
clients == <<requestCtx, reqs>>
job == <<worker, workerCtx, workerDone>>

Goroutine == INSTANCE WorkerContract WITH phase <- worker, cancelled <- workerCtx

Init ==
    /\ spc = "setup"
    /\ signalled = FALSE
    /\ http = "none" /\ httpDone = "empty"
    /\ Goroutine!Init /\ workerDone = "empty"
    /\ isHTTPDone = FALSE /\ isWorkerDone = FALSE
    /\ inShutdown = FALSE
    /\ requestCtx = FALSE
    /\ reqs = [q \in Requests |-> "none"]
    /\ result = {}
-----------------------------------------------------------------------------
(* main: run and serve *)

\* run fails before it serves: pool, ping, handler or listener.
SetupFails ==
    /\ spc = "setup"
    /\ spc' = "closing"
    /\ result' = {"setup failed"}
    /\ UNCHANGED <<signalled, isHTTPDone, isWorkerDone, server, clients, job>>

\* serve starts both goroutines.
SetupDone ==
    /\ spc = "setup"
    /\ spc' = "select"
    /\ http' = "new"
    /\ UNCHANGED <<signalled, isHTTPDone, isWorkerDone, result, httpDone, inShutdown, clients, job>>

\* select: case <-ctx.Done().
SelectSignal ==
    /\ spc = "select"
    /\ signalled
    /\ spc' = "stop"
    /\ UNCHANGED <<signalled, isHTTPDone, isWorkerDone, result, server, clients, job>>

\* select: case err := <-httpDone.
SelectHTTP ==
    /\ spc = "select"
    /\ httpDone # "empty"
    /\ spc' = "stop"
    /\ httpDone' = "empty"
    /\ isHTTPDone' = TRUE
    /\ result' = IF httpDone = "failed" THEN {"http stopped"} ELSE {}
    /\ UNCHANGED <<signalled, isWorkerDone, http, inShutdown, clients, job>>

\* A worker that has returned is always taken for a failure.
SelectWorkerAlarming ==
    /\ spc = "select"
    /\ workerDone # "empty"
    /\ spc' = "stop"
    /\ workerDone' = "empty"
    /\ isWorkerDone' = TRUE
    /\ result' = {"worker stopped"}
    /\ UNCHANGED <<signalled, isHTTPDone, server, clients, worker, workerCtx>>

\* select: case <-workerDone, its result ignored and ctx.Err() tested instead.
SelectWorker ==
    /\ spc = "select"
    /\ workerDone # "empty"
    /\ spc' = "stop"
    /\ workerDone' = "empty"
    /\ isWorkerDone' = TRUE
    /\ result' = IF signalled THEN {} ELSE {"worker stopped"}
    /\ UNCHANGED <<signalled, isHTTPDone, server, clients, worker, workerCtx>>

\* cancelWorker(), and server.Shutdown closes the listener.
BeginShutdown ==
    /\ spc = "stop"
    /\ spc' = "draining"
    /\ workerCtx' = TRUE
    /\ inShutdown' = TRUE
    /\ UNCHANGED <<signalled, isHTTPDone, isWorkerDone, result, http, httpDone, clients,
                   worker, workerDone>>

Open == {"new", "running", "querying"}

\* server.Shutdown returns nil: Serve has left its loop and every connection
\* has been answered or closed.
Drained ==
    /\ spc = "draining"
    /\ http # "accepting"
    /\ \A q \in Requests : reqs[q] \notin Open
    /\ spc' = "joinHTTP"
    /\ UNCHANGED <<signalled, isHTTPDone, isWorkerDone, result, server, clients, job>>

\* server.Shutdown returns the error of its deadline: cancelRequests() and
\* server.Close(), which closes connections and waits for no handler.
DrainTimeout ==
    /\ spc = "draining"
    /\ http # "accepting"
    /\ spc' = "joinHTTP"
    /\ requestCtx' = TRUE
    /\ reqs' = [q \in Requests |-> IF reqs[q] = "new" THEN "gone" ELSE reqs[q]]
    /\ result' = result \cup {"deadline"}
    /\ UNCHANGED <<signalled, isHTTPDone, isWorkerDone, server, job>>

\* A join that forgets that the select may have received from the channel.
JoinHTTPAgain ==
    /\ spc = "joinHTTP"
    /\ httpDone # "empty"
    /\ httpDone' = "empty"
    /\ result' = result \cup (IF httpDone = "failed" THEN {"http stopped"} ELSE {})
    /\ spc' = "joinWorker"
    /\ UNCHANGED <<signalled, isHTTPDone, isWorkerDone, http, inShutdown, clients, job>>

\* if !isHTTPDone { <-httpDone }.
JoinHTTP ==
    /\ spc = "joinHTTP"
    /\ \/ isHTTPDone /\ UNCHANGED <<httpDone, result>>
       \/ /\ ~isHTTPDone
          /\ httpDone # "empty"
          /\ httpDone' = "empty"
          /\ result' = result \cup (IF httpDone = "failed" THEN {"http stopped"} ELSE {})
    /\ spc' = "joinWorker"
    /\ UNCHANGED <<signalled, isHTTPDone, isWorkerDone, http, inShutdown, clients, job>>

\* serve returns without waiting for the worker.
JoinWorkerNever ==
    /\ spc = "joinWorker"
    /\ spc' = "closing"
    /\ requestCtx' = TRUE
    /\ UNCHANGED <<signalled, isHTTPDone, isWorkerDone, result, server, reqs, job>>

\* if !isWorkerDone { <-workerDone }; serve returns, its deferred calls cancel
\* the requests.
JoinWorker ==
    /\ spc = "joinWorker"
    /\ \/ isWorkerDone /\ UNCHANGED <<workerDone, result>>
       \/ /\ ~isWorkerDone
          /\ workerDone # "empty"
          /\ workerDone' = "empty"
          /\ result' = result \cup (IF workerDone = "error" THEN {"worker shutdown failed"} ELSE {})
    /\ spc' = "closing"
    /\ requestCtx' = TRUE
    /\ UNCHANGED <<signalled, isHTTPDone, isWorkerDone, server, reqs, worker, workerCtx>>

\* The deferred pool.Close() of run waits for the connections in use; then
\* main exits and takes every handler with it.
ClosePool ==
    /\ spc = "closing"
    /\ \A q \in Requests : reqs[q] # "querying"
    /\ spc' = "exited"
    /\ reqs' = [q \in Requests |-> IF reqs[q] \in Open THEN "cut" ELSE reqs[q]]
    /\ UNCHANGED <<signalled, isHTTPDone, isWorkerDone, result, server, requestCtx, job>>

Main ==
    \/ SetupFails \/ SetupDone
    \/ SelectSignal \/ SelectHTTP \/ SelectWorker
    \/ BeginShutdown \/ Drained \/ DrainTimeout \/ JoinHTTP \/ JoinWorker \/ ClosePool
-----------------------------------------------------------------------------
(* the goroutine of server.Serve *)

ServeStart ==
    /\ http = "new"
    /\ ~inShutdown
    /\ http' = "accepting"
    /\ UNCHANGED <<main, signalled, httpDone, inShutdown, clients, job>>

\* Serve returns http.ErrServerClosed, also when Shutdown came before it.
ServeClosed ==
    /\ http \in {"new", "accepting"}
    /\ inShutdown
    /\ http' = "closed"
    /\ httpDone' = "closed"
    /\ UNCHANGED <<main, signalled, inShutdown, clients, job>>

\* The listener fails.
ServeFails ==
    /\ http = "accepting"
    /\ ~inShutdown
    /\ http' = "failed"
    /\ httpDone' = "failed"
    /\ UNCHANGED <<main, signalled, inShutdown, clients, job>>

-----------------------------------------------------------------------------
(* the goroutine of runWorker *)

WorkerEnters ==
    /\ http # "none"
    /\ Goroutine!Enter
    /\ UNCHANGED <<main, signalled, server, clients, workerDone>>

WorkerRefuses ==
    /\ http # "none"
    /\ Goroutine!Refuse
    /\ workerDone' = "error"
    /\ UNCHANGED <<main, signalled, server, clients>>

WorkerReturns ==
    /\ Goroutine!Leave
    /\ workerDone' = "nil"
    /\ UNCHANGED <<main, signalled, server, clients>>

-----------------------------------------------------------------------------
(* connections and their handlers *)

Serving == spc # "exited"

\* The server accepts a connection.
Connect(q) ==
    /\ Serving
    /\ http = "accepting" /\ ~inShutdown
    /\ reqs[q] = "none"
    /\ reqs' = [reqs EXCEPT ![q] = "new"]
    /\ UNCHANGED <<main, signalled, server, job, requestCtx>>

\* A connection ends before its request was read: the client leaves, a read
\* timeout passes, or Shutdown closes it as idle.
Disconnect(q) ==
    /\ Serving
    /\ reqs[q] = "new"
    /\ reqs' = [reqs EXCEPT ![q] = "gone"]
    /\ UNCHANGED <<main, signalled, server, job, requestCtx>>

\* A request is read and its handler called, during Shutdown too.
Handle(q) ==
    /\ Serving
    /\ reqs[q] = "new"
    /\ reqs' = [reqs EXCEPT ![q] = "running"]
    /\ UNCHANGED <<main, signalled, server, job, requestCtx>>

\* The handler gets a pool connection: not with a cancelled context, and not
\* once pool.Close() has begun.
Query(q) ==
    /\ reqs[q] = "running"
    /\ ~requestCtx /\ spc \notin {"closing", "exited"}
    /\ reqs' = [reqs EXCEPT ![q] = "querying"]
    /\ UNCHANGED <<main, signalled, server, job, requestCtx>>

\* The call of the database ends and the connection is released.
QueryDone(q) ==
    /\ reqs[q] = "querying"
    /\ reqs' = [reqs EXCEPT ![q] = "running"]
    /\ UNCHANGED <<main, signalled, server, job, requestCtx>>

\* The handler returns; with a cancelled context its caller has no answer.
Answer(q) ==
    /\ Serving
    /\ reqs[q] = "running"
    /\ reqs' = [reqs EXCEPT ![q] = IF requestCtx THEN "cut" ELSE "answered"]
    /\ UNCHANGED <<main, signalled, server, job, requestCtx>>

-----------------------------------------------------------------------------
\* A signal that cancels the requests in flight with the worker.
SignalRequestsToo ==
    /\ ~signalled
    /\ signalled' = TRUE
    /\ workerCtx' = TRUE
    /\ requestCtx' = TRUE
    /\ UNCHANGED <<main, server, reqs, worker, workerDone>>

\* signal.NotifyContext: ctx is done, and with it workerCtx, which is derived
\* from it; requestCtx is derived from context.WithoutCancel(ctx).
Signal ==
    /\ ~signalled
    /\ signalled' = TRUE
    /\ workerCtx' = TRUE
    /\ UNCHANGED <<main, server, clients, worker, workerDone>>

Next ==
    \/ Main
    \/ ServeStart \/ ServeClosed \/ ServeFails
    \/ WorkerEnters \/ WorkerRefuses \/ WorkerReturns
    \/ \E q \in Requests :
        Connect(q) \/ Disconnect(q) \/ Handle(q) \/ Query(q) \/ QueryDone(q) \/ Answer(q)
    \/ Signal

Spec == Init /\ [][Next]_vars

\* The goroutines of main.go run, the deadline of Shutdown passes, the worker
\* keeps its contract, and a call of the database ends (its context and
\* statement_timeout see to it).  Nothing makes a handler or a client go on.
Fairness ==
    /\ WF_vars(Main)
    /\ WF_vars(ServeStart \/ ServeClosed)
    /\ WF_vars(WorkerEnters \/ WorkerRefuses)
    /\ WF_vars(WorkerReturns)
    /\ \A q \in Requests : WF_vars(QueryDone(q))

FairSpec == Spec /\ Fairness
-----------------------------------------------------------------------------
Problems == {"setup failed", "http stopped", "worker stopped", "deadline",
             "worker shutdown failed"}

TypeOK ==
    /\ spc \in {"setup", "select", "stop", "draining", "joinHTTP", "joinWorker",
                "closing", "exited"}
    /\ signalled \in BOOLEAN /\ workerCtx \in BOOLEAN /\ requestCtx \in BOOLEAN
    /\ http \in {"none", "new", "accepting", "closed", "failed"}
    /\ httpDone \in {"empty", "closed", "failed"}
    /\ worker \in {"new", "looping", "refused", "returned"}
    /\ workerDone \in {"empty", "nil", "error"}
    /\ isHTTPDone \in BOOLEAN /\ isWorkerDone \in BOOLEAN /\ inShutdown \in BOOLEAN
    /\ reqs \in [Requests -> {"none", "new", "gone", "running", "querying", "answered", "cut"}]
    /\ result \subseteq Problems

\* "serve ... joins both HTTP and worker goroutines before return": when
\* run goes on to close the pool, neither goroutine that serve started is left,
\* so no batch and no accept loop outlives the pool.
Joined ==
    spc \in {"closing", "exited"} /\ http # "none" =>
        /\ http \in {"closed", "failed"}
        /\ worker \in {"refused", "returned"}

\* A process that exits with status 0 was asked to by a signal, its server had
\* not failed, and no request that reached a handler was left without its answer.
CleanExit ==
    spc = "exited" /\ result = {} =>
        /\ signalled
        /\ http = "closed"
        /\ \A q \in Requests : reqs[q] # "cut"

\* The errors that main logs are the ones that happened: a failed server is
\* always reported, a worker only if it did not keep running, and a worker that
\* failed goes unreported only when a signal had arrived.
VerdictTrue ==
    spc = "exited" =>
        /\ http = "failed" <=> "http stopped" \in result
        /\ {"worker stopped", "worker shutdown failed"} \cap result # {} => worker = "refused"
        /\ worker = "refused" => result # {} \/ signalled

\* A signal, a failed server or a failed worker ends the process, whatever its
\* clients and handlers do and in whatever order the goroutines finish.
ShutdownEnds ==
    (signalled \/ http = "failed" \/ worker = "refused") ~> spc = "exited"
=============================================================================

----------------------------- MODULE ServeProofs -----------------------------
(***************************************************************************)
(* What a process leaves behind, proved for every set of requests: the     *)
(* goroutines are joined, a clean exit is clean, the verdict is true.      *)
(***************************************************************************)
EXTENDS Serve, Startup, TLAPS

Over == {"closed", "failed"}
Ended == {"refused", "returned"}

\* The channel of the server holds its result from its return until main
\* receives it, and main receives it once.
HTTPInv ==
    /\ httpDone # "empty" => http = httpDone
    /\ isHTTPDone => http \in Over /\ httpDone = "empty"
    /\ spc \in {"joinWorker", "closing", "exited"} /\ http # "none" =>
        http \in Over /\ httpDone = "empty"
    /\ "http stopped" \in result <=> http = "failed" /\ httpDone = "empty"
    /\ http = "closed" => inShutdown

\* The same for the worker; a worker returns only with its context, and main
\* cancels that context only after the select.
WorkerInv ==
    /\ workerDone = "nil" => worker = "returned"
    /\ workerDone = "error" => worker = "refused"
    /\ isWorkerDone => worker \in Ended /\ workerDone = "empty"
    /\ spc \in {"closing", "exited"} /\ http # "none" => worker \in Ended /\ workerDone = "empty"
    /\ worker = "returned" => workerCtx
    /\ workerCtx => signalled \/ inShutdown
    /\ worker = "refused" => workerDone = "error" \/ result # {} \/ signalled
    /\ "worker stopped" \in result => worker = "refused"
    /\ "worker shutdown failed" \in result => worker = "refused"

\* Where main is, against what it has done.
MainInv ==
    /\ spc = "setup" => http = "none"
    /\ http = "none" => worker = "new" /\ ~inShutdown /\ spc \in {"setup", "closing", "exited"}
    /\ http = "none" /\ spc # "setup" => result # {}
    /\ spc \in {"setup", "select"} => result = {}
    /\ spc \in {"setup", "select", "stop"} => ~inShutdown
    /\ spc \notin {"setup", "select"} => signalled \/ result # {}
    /\ spc \in {"draining", "joinHTTP", "joinWorker", "closing", "exited"} =>
        inShutdown \/ http = "none"

\* Requests are cancelled only after the drain, which left none unless the
\* deadline is on record.
DrainInv ==
    /\ requestCtx => spc \in {"joinHTTP", "joinWorker", "closing", "exited"}
    /\ \A q \in Requests : reqs[q] = "cut" => spc \in {"joinHTTP", "joinWorker", "closing", "exited"}
    /\ \A q \in Requests :
        spc \in {"joinHTTP", "joinWorker", "closing", "exited"} /\ result = {} =>
            reqs[q] \notin Open /\ reqs[q] # "cut"

ServeInv == TypeOK /\ HTTPInv /\ WorkerInv /\ MainInv /\ DrainInv

\* TypeOK by parts: the contexts and flags, the positions, and the data.
FlagsOK ==
    /\ signalled \in BOOLEAN /\ workerCtx \in BOOLEAN /\ requestCtx \in BOOLEAN
    /\ isHTTPDone \in BOOLEAN /\ isWorkerDone \in BOOLEAN /\ inShutdown \in BOOLEAN

PositionsOK ==
    /\ spc \in {"setup", "select", "stop", "draining", "joinHTTP", "joinWorker",
                "closing", "exited"}
    /\ http \in {"none", "new", "accepting", "closed", "failed"}
    /\ httpDone \in {"empty", "closed", "failed"}
    /\ worker \in {"new", "looping", "refused", "returned"}
    /\ workerDone \in {"empty", "nil", "error"}

ReqsOK ==
    reqs \in [Requests -> {"none", "new", "gone", "running", "querying", "answered", "cut"}]

\* TypeOK is the conjunction of its parts.
LEMMA TypeParts == TypeOK <=> FlagsOK /\ PositionsOK /\ ReqsOK /\ result \subseteq Problems
  BY DEF TypeOK, FlagsOK, PositionsOK, ReqsOK

\* The same of the next state.
LEMMA TypePartsNext ==
  FlagsOK' /\ PositionsOK' /\ ReqsOK' /\ (result \subseteq Problems)' => TypeOK'
  BY DEF TypeOK, FlagsOK, PositionsOK, ReqsOK

\* The invariant holds when the process starts.
LEMMA InitInv == Init => ServeInv
  BY DEF Init, Goroutine!Init, ServeInv, TypeOK, HTTPInv, WorkerInv, MainInv, DrainInv,
         Open, Problems, Over, Ended

\* Every step of main, of the goroutines, of a handler and of the signal keeps it.
LEMMA NextInv == ServeInv /\ [Next]_vars => ServeInv'
<1> SUFFICES ASSUME ServeInv, [Next]_vars PROVE ServeInv'
  OBVIOUS
<1> USE DEF ServeInv, main, server, clients, job, Problems, Over, Ended
<1>1. CASE SetupFails
  BY <1>1 DEF SetupFails, TypeOK, HTTPInv, WorkerInv, MainInv, DrainInv
<1>2. CASE SetupDone
  BY <1>2 DEF SetupDone, TypeOK, HTTPInv, WorkerInv, MainInv, DrainInv
<1>3. CASE SelectSignal
  BY <1>3 DEF SelectSignal, TypeOK, HTTPInv, WorkerInv, MainInv, DrainInv
<1>4. CASE SelectHTTP
  BY <1>4 DEF SelectHTTP, TypeOK, HTTPInv, WorkerInv, MainInv, DrainInv
<1>5. CASE SelectWorker
  BY <1>5 DEF SelectWorker, TypeOK, HTTPInv, WorkerInv, MainInv, DrainInv
<1>6. CASE BeginShutdown
  BY <1>6 DEF BeginShutdown, TypeOK, HTTPInv, WorkerInv, MainInv, DrainInv
<1>7. CASE Drained
  BY <1>7 DEF Drained, Open, TypeOK, HTTPInv, WorkerInv, MainInv, DrainInv
<1>8. CASE DrainTimeout
  BY <1>8 DEF DrainTimeout, TypeOK, HTTPInv, WorkerInv, MainInv, DrainInv
<1>9. CASE JoinHTTP
  BY <1>9 DEF JoinHTTP, TypeOK, HTTPInv, WorkerInv, MainInv, DrainInv
<1>10. CASE JoinWorker
  BY <1>10 DEF JoinWorker, TypeOK, HTTPInv, WorkerInv, MainInv, DrainInv
<1>11. CASE ClosePool
  BY <1>11 DEF ClosePool, Open, TypeOK, HTTPInv, WorkerInv, MainInv, DrainInv
<1>12. CASE ServeStart
  BY <1>12 DEF ServeStart, TypeOK, HTTPInv, WorkerInv, MainInv, DrainInv
<1>13. CASE ServeClosed
  BY <1>13 DEF ServeClosed, TypeOK, HTTPInv, WorkerInv, MainInv, DrainInv
<1>14. CASE ServeFails
  BY <1>14 DEF ServeFails, TypeOK, HTTPInv, WorkerInv, MainInv, DrainInv
<1>15. CASE WorkerEnters
  BY <1>15 DEF WorkerEnters, Goroutine!Enter, TypeOK, HTTPInv, WorkerInv, MainInv, DrainInv
<1>16. CASE WorkerRefuses
  BY <1>16 DEF WorkerRefuses, Goroutine!Refuse, TypeOK, HTTPInv, WorkerInv, MainInv, DrainInv
<1>17. CASE WorkerReturns
  BY <1>17 DEF WorkerReturns, Goroutine!Leave, TypeOK, HTTPInv, WorkerInv, MainInv, DrainInv
<1>18. ASSUME NEW q \in Requests,
              Connect(q) \/ Disconnect(q) \/ Handle(q) \/ Query(q) \/ QueryDone(q) \/ Answer(q)
       PROVE  ServeInv'
  <2>1. UNCHANGED <<spc, isHTTPDone, isWorkerDone, result, signalled, http, httpDone, inShutdown,
                    worker, workerCtx, workerDone, requestCtx>>
    BY <1>18 DEF Connect, Disconnect, Handle, Query, QueryDone, Answer
  <2>2. PICK to \in {"new", "gone", "running", "querying", "answered", "cut"} :
            reqs' = [reqs EXCEPT ![q] = to]
    BY <1>18 DEF Connect, Disconnect, Handle, Query, QueryDone, Answer
  <2>3. TypeOK'
    <3>1. FlagsOK'
      BY <2>1, TypeParts DEF FlagsOK
    <3>2. PositionsOK' /\ (result \subseteq Problems)'
      BY <2>1, TypeParts DEF PositionsOK
    <3>3. ReqsOK'
      BY <2>2, TypeParts DEF ReqsOK
    <3> QED
      BY <3>1, <3>2, <3>3, TypePartsNext
  <2>4. HTTPInv' /\ WorkerInv' /\ MainInv'
    BY <2>1 DEF HTTPInv, WorkerInv, MainInv
  <2>5. ReqsOK
    BY TypeParts
  <2>6. DrainInv'
    <3>1. CASE Connect(q)
      BY <2>1, <2>5, <3>1 DEF Connect, Open, MainInv, DrainInv, ReqsOK
    <3>2. CASE Disconnect(q)
      BY <2>1, <2>5, <3>2 DEF Disconnect, Open, DrainInv, ReqsOK
    <3>3. CASE Handle(q)
      BY <2>1, <2>5, <3>3 DEF Handle, Open, DrainInv, ReqsOK
    <3>4. CASE Query(q)
      BY <2>1, <2>5, <3>4 DEF Query, Open, DrainInv, ReqsOK
    <3>5. CASE QueryDone(q)
      BY <2>1, <2>5, <3>5 DEF QueryDone, Open, DrainInv, ReqsOK
    <3>6. CASE Answer(q)
      BY <2>1, <2>5, <3>6 DEF Answer, Open, DrainInv, ReqsOK
    <3> QED
      BY <1>18, <3>1, <3>2, <3>3, <3>4, <3>5, <3>6
  <2> QED
    BY <2>3, <2>4, <2>6
<1>19. CASE Signal
  <2>1. TypeOK'
    <3>1. FlagsOK'
      BY <1>19, TypeParts DEF Signal, FlagsOK
    <3>2. PositionsOK' /\ (result \subseteq Problems)'
      BY <1>19, TypeParts DEF Signal, PositionsOK
    <3>3. ReqsOK'
      BY <1>19, TypeParts DEF Signal, ReqsOK
    <3> QED
      BY <3>1, <3>2, <3>3, TypePartsNext
  <2>2. HTTPInv' /\ MainInv'
    BY <1>19 DEF Signal, HTTPInv, MainInv
  <2>3. WorkerInv'
    BY <1>19 DEF Signal, TypeOK, WorkerInv
  <2>4. DrainInv'
    BY <1>19 DEF Signal, DrainInv
  <2> QED
    BY <2>1, <2>2, <2>3, <2>4
<1>20. CASE UNCHANGED vars
  <2>1. TypeOK'
    <3>1. FlagsOK'
      BY <1>20, TypeParts DEF vars, FlagsOK
    <3>2. PositionsOK' /\ (result \subseteq Problems)'
      BY <1>20, TypeParts DEF vars, PositionsOK
    <3>3. ReqsOK'
      BY <1>20, TypeParts DEF vars, ReqsOK
    <3> QED
      BY <3>1, <3>2, <3>3, TypePartsNext
  <2>2. HTTPInv' /\ WorkerInv' /\ MainInv'
    BY <1>20 DEF vars, HTTPInv, WorkerInv, MainInv
  <2>3. DrainInv'
    BY <1>20 DEF vars, DrainInv
  <2> QED
    BY <2>1, <2>2, <2>3
<1> QED
  BY <1>1, <1>2, <1>3, <1>4, <1>5, <1>6, <1>7, <1>8, <1>9, <1>10, <1>11, <1>12, <1>13, <1>14,
     <1>15, <1>16, <1>17, <1>18, <1>19, <1>20 DEF Next, Main

\* ServeInv is an invariant of the process.
LEMMA Invariance == Spec => []ServeInv
  BY InitInv, NextInv, PTL DEF Spec

\* run closes the pool only after serve has joined both goroutines.
THEOREM GoroutinesJoined == Spec => []Joined
<1>1. ServeInv => Joined
  BY DEF ServeInv, HTTPInv, WorkerInv, Joined, Over, Ended
<1> QED
  BY <1>1, Invariance, PTL

\* A process that exits with status 0 was signalled and has answered every
\* request that reached a handler.
THEOREM ExitClean == Spec => []CleanExit
<1>1. ServeInv => CleanExit
  BY DEF ServeInv, TypeOK, HTTPInv, MainInv, DrainInv, CleanExit, Over
<1> QED
  BY <1>1, Invariance, PTL

\* The errors in the result of run are the failures that happened.
THEOREM VerdictAlwaysTrue == Spec => []VerdictTrue
<1>1. ServeInv => VerdictTrue
  BY DEF ServeInv, TypeOK, HTTPInv, WorkerInv, MainInv, VerdictTrue, Over, Ended
<1> QED
  BY <1>1, Invariance, PTL

\* The state of the process is well typed: main, the goroutines and the channels
\* are where the code can be.
THEOREM ServeTypes == Spec => []TypeOK
<1>1. ServeInv => TypeOK
  BY DEF ServeInv
<1> QED
  BY <1>1, Invariance, PTL
-----------------------------------------------------------------------------
(* Startup: what loadConfig accepts, the components accept, for every environment. *)

\* A number that loadConfig takes for a field is an integer within its limits.
LEMMA LoadedFits ==
    ASSUME NEW f \in Fields, NEW x \in Texts(f), Loads(f, x)
    PROVE  Value(f, x) \in Int /\ (Value(f, x) = Defaults[f] \/ Fits(f, Value(f, x)))
<1>1. CASE x.is = "empty"
  <2>1. Value(f, x) = Defaults[f]
    BY <1>1 DEF Value
  <2>2. Defaults[f] \in Int
    BY DEF Fields, Defaults
  <2> QED
    BY <2>1, <2>2
<1>2. CASE x.is # "empty"
  <2>1. x.is = "number" /\ Fits(f, x.n)
    BY <1>2 DEF Loads
  <2>2. x \in [is : {"number"}, n : Numbers[f]]
    BY <2>1 DEF Texts
  <2>3. x.n \in Int
    BY <2>2, NumbersAssumption
  <2> QED
    BY <1>2, <2>1, <2>3 DEF Value
<1> QED
  BY <1>1, <1>2

\* Every configuration that loadConfig returns passes the checks of the store,
\* the service, the handler and the worker, for all texts and tokens.
THEOREM LoadedIsAccepted == NeverRefused
<1> SUFFICES ASSUME NEW env \in Environments, Loadable(env)
             PROVE  /\ StoreAccepts(Config(env))
                    /\ ServiceAccepts(Config(env))
                    /\ HandlerAccepts(env.token)
                    /\ WorkerAccepts(Config(env))
  BY DEF NeverRefused
<1> DEFINE value(f) == Value(f, env.text[f])
<1>1. \A f \in Fields : env.text[f] \in Texts(f)
  BY DEF Environments, Fields
<1>2. \A f \in Fields : Loads(f, env.text[f])
  BY DEF Loadable
<1>3. \A f \in Fields : value(f) \in Int /\ (value(f) = Defaults[f] \/ Fits(f, value(f)))
  BY <1>1, <1>2, LoadedFits
<1>4. \A f \in Fields : Config(env)[f] = value(f)
  BY DEF Config
<1> HIDE DEF value
<1>5. StoreAccepts(Config(env))
  BY <1>3, <1>4 DEF StoreAccepts, Fields, Defaults, Fits
<1>6. ServiceAccepts(Config(env))
  BY <1>3, <1>4 DEF ServiceAccepts, Fields, Defaults, Fits
<1>7. WorkerAccepts(Config(env))
  BY <1>3, <1>4 DEF WorkerAccepts, Fields, Defaults, Fits
<1>8. HandlerAccepts(env.token)
  BY DEF Loadable, TokenFits, HandlerAccepts
<1> QED
  BY <1>5, <1>6, <1>7, <1>8
=============================================================================

--------------------------- MODULE LoadTestProofs ---------------------------
(***************************************************************************)
(* What a finished load test may claim, for every number of requests and   *)
(* clients.                                                                *)
(*                                                                         *)
(* The first layer (Control) is about the goroutines: who has ended when   *)
(* run goes on.  The second (Data) counts: the events before a client's    *)
(* loop variable are the ones whose samples went into the channel, because *)
(* the clients' strides share no event.                                    *)
(***************************************************************************)
EXTENDS LoadTest, FiniteSetTheorems, TLAPS

Busy == {"waiting", "accepted", "failed"}
Tallies == [attempted : Nat, accepted : Nat, errors : Nat]
Samples == [ok : Nat, bad : Nat]

Typed ==
    /\ lpc \in {"probe", "collect", "join", "drain", "verdict", "returned"}
    /\ client \in [Clients -> {"new", "loop", "exited"} \cup Busy]
    /\ index \in [Clients -> Nat]
    /\ results \in Samples
    /\ out \in Tallies
    /\ monitor \in {"new", "select", "sampling", "returned"}
    /\ sends \in [Indices -> Nat]
    /\ flying \subseteq Indices /\ created \subseteq Indices /\ posted \subseteq created

\* Who has ended at each position of run.
Phases ==
    /\ lpc = "probe" => monitor = "new" /\ \A w \in Clients : client[w] = "new"
    /\ lpc \in {"join", "drain", "verdict"} => closed /\ Buffered = 0
    /\ lpc \in {"drain", "verdict"} => monitor = "returned"
    /\ lpc = "returned" =>
         \/ monitor = "returned" /\ closed
         \/ monitor = "new" /\ \A w \in Clients : client[w] = "new"
    /\ closed => \A w \in Clients : client[w] = "exited"

\* What run has seen when it is content.
Verdicts ==
    /\ settled => posted = Indices
    /\ lpc # "returned" => outcome = "none"
    /\ outcome = "nil" => settled /\ out.errors = 0 /\ out.attempted = Total
    /\ out.attempted = out.accepted + out.errors

Control == Typed /\ Phases /\ Verdicts

\* The client that sends event i.
Owner(i) == i % Concurrency

\* The events whose samples went into the channel.
Pushed == {i \in Indices : i < index[Owner(i)]}

Loops ==
    \A w \in Clients :
        /\ Owner(index[w]) = w
        /\ client[w] \in Busy => index[w] \in Indices
        /\ client[w] = "accepted" => index[w] \in created

\* Sent are the pushed events and those that a client is busy with.
SentInv ==
    \A i \in Indices :
        sends[i] > 0 <=> i \in Pushed \/ (client[Owner(i)] \in Busy /\ index[Owner(i)] = i)

Counts ==
    /\ out.attempted + Buffered = Cardinality(Pushed)
    /\ out.accepted + results.ok <= Cardinality(Pushed \cap created)

Data == Loops /\ SentInv /\ Counts
-----------------------------------------------------------------------------
LEMMA ControlInit == Init => Control
  <1> SUFFICES ASSUME Init PROVE Control
    OBVIOUS
  <1>1. Typed
    <2>1. index \in [Clients -> Nat]
      BY ConfigAssumption DEF Init, Clients
    <2>. QED
      BY <2>1 DEF Init, Typed, Samples, Tallies
  <1>2. Phases
    BY DEF Init, Phases
  <1>3. Verdicts
    BY DEF Init, Verdicts
  <1>. QED
    BY <1>1, <1>2, <1>3 DEF Control

\* run goes on, alone.
LEMMA RunControl ==
    ASSUME Control, ProbeFails \/ Collected \/ JoinMonitor \/ Drain \/ DrainExpires \/ Verdict
    PROVE  Control'
  <1>1. UNCHANGED <<out, clientvars, channel, monitorvars, server>>
    BY DEF ProbeFails, Collected, JoinMonitor, Drain, DrainExpires, Verdict
  <1>2. UNCHANGED <<out, client, index, sends, results, closed, monitor, flying, created, posted>>
    BY <1>1 DEF clientvars, channel, monitorvars, server
  <1>3. Typed'
    BY <1>2 DEF ProbeFails, Collected, JoinMonitor, Drain, DrainExpires, Verdict, Return,
                Control, Typed
  <1>4. Phases'
    <2>1. Phases /\ Buffered' = Buffered
      BY <1>2 DEF Control, Buffered
    <2>2. CASE ProbeFails
      BY <1>2, <2>1, <2>2 DEF ProbeFails, Return, Phases
    <2>3. CASE Collected
      BY <1>2, <2>1, <2>3 DEF Collected, Phases
    <2>4. CASE JoinMonitor
      BY <1>2, <2>1, <2>4 DEF JoinMonitor, Phases
    <2>5. CASE Drain \/ DrainExpires
      BY <1>2, <2>1, <2>5 DEF Drain, DrainExpires, Phases
    <2>6. CASE Verdict
      BY <1>2, <2>1, <2>6 DEF Verdict, Return, Phases
    <2>. QED
      BY <2>2, <2>3, <2>4, <2>5, <2>6
  <1>5. Verdicts'
    <2>1. Verdicts /\ out' = out /\ posted' = posted
      BY <1>2 DEF Control
    <2>2. CASE ProbeFails
      BY <2>1, <2>2 DEF ProbeFails, Return, Verdicts
    <2>3. CASE Collected \/ JoinMonitor \/ DrainExpires
      BY <2>1, <2>3 DEF Collected, JoinMonitor, DrainExpires, Verdicts
    <2>4. CASE Drain
      BY <2>1, <2>4 DEF Drain, Verdicts
    <2>5. CASE Verdict
      <3>1. lpc' = "returned" /\ settled' = settled /\ outcome' = IF Failed THEN "error" ELSE "nil"
        BY <2>5 DEF Verdict, Return
      <3>2. ~Failed => settled /\ out.errors = 0 /\ out.attempted = Total
        <4>1. out.attempted \in Nat /\ Total \in Nat
          BY ConfigAssumption DEF Control, Typed, Tallies
        <4>. QED
          BY <4>1 DEF Failed, Unattempted
      <3>. QED
        BY <2>1, <3>1, <3>2 DEF Verdicts
    <2>. QED
      BY <2>2, <2>3, <2>4, <2>5
  <1>. QED
    BY <1>3, <1>4, <1>5 DEF Control

\* The clients and the monitor start; nothing was closed before.
LEMMA StartControl ==
    ASSUME Control, Start
    PROVE  Control'
  <1>1. /\ lpc = "probe" /\ lpc' = "collect" /\ client' = [w \in Clients |-> "loop"]
        /\ monitor' = "select"
        /\ UNCHANGED <<out, settled, outcome, index, sends, results, closed, flying, created, posted>>
    BY DEF Start, channel, server
  <1>2. Typed'
    BY <1>1 DEF Control, Typed
  <1>3. ~closed
    <2>1. 0 \in Clients
      BY ConfigAssumption DEF Clients
    <2>. QED
      BY <1>1, <2>1 DEF Control, Phases
  <1>4. Phases'
    BY <1>1, <1>3 DEF Phases
  <1>5. Verdicts'
    BY <1>1 DEF Control, Verdicts
  <1>. QED
    BY <1>2, <1>4, <1>5 DEF Control

\* run takes a sample from the channel.
LEMMA CollectControl ==
    ASSUME Control, NEW ok \in BOOLEAN, Collect(ok)
    PROVE  Control'
  <1>1. /\ lpc = "collect"
        /\ IF ok THEN results.ok > 0 ELSE results.bad > 0
        /\ results' = IF ok THEN [results EXCEPT !.ok = @ - 1] ELSE [results EXCEPT !.bad = @ - 1]
        /\ out' = [attempted |-> out.attempted + 1,
                   accepted |-> IF ok THEN out.accepted + 1 ELSE out.accepted,
                   errors |-> IF ok THEN out.errors ELSE out.errors + 1]
        /\ UNCHANGED <<lpc, settled, outcome, client, index, sends, closed, monitor, flying, created,
                       posted>>
    BY DEF Collect, clientvars, monitorvars, server
  <1>2. /\ out \in Tallies /\ results \in Samples
    BY DEF Control, Typed
  <1>3. out' \in Tallies /\ results' \in Samples
    BY <1>1, <1>2 DEF Tallies, Samples
  <1>4. Typed'
    BY <1>1, <1>3 DEF Control, Typed
  <1>5. Phases'
    BY <1>1 DEF Control, Phases
  <1>6. Verdicts'
    <2>1. out'.attempted = out'.accepted + out'.errors
      BY <1>1, <1>2 DEF Control, Verdicts, Tallies
    <2>. QED
      BY <1>1, <2>1 DEF Control, Verdicts
  <1>. QED
    BY <1>4, <1>5, <1>6 DEF Control

\* A client takes a step: it has been started and run still collects.
LEMMA ClientControl ==
    ASSUME Control, NEW w \in Clients, Client(w)
    PROVE  Control'
  <1>1. /\ client[w] \in {"loop"} \cup Busy
        /\ \E c \in {"loop", "exited"} \cup Busy : client' = [client EXCEPT ![w] = c]
        /\ UNCHANGED <<lpc, out, settled, outcome, closed, monitor, created, posted>>
    BY DEF Client, Loop, Accepted, GaveUp, Push, Busy, runvars, channel, monitorvars, server
  <1>2. ~closed /\ lpc = "collect"
    BY <1>1 DEF Control, Phases, Typed, Busy
  <1>3. index' \in [Clients -> Nat]
    <2>1. index \in [Clients -> Nat] /\ Concurrency \in Nat
      BY ConfigAssumption DEF Control, Typed
    <2>2. index' = index \/ index' = [index EXCEPT ![w] = index[w] + Concurrency]
      BY DEF Client, Loop, Accepted, GaveUp, Push, Stride
    <2>. QED
      BY <2>1, <2>2
  <1>4. sends' \in [Indices -> Nat] /\ flying' \subseteq Indices
    <2>1. CASE Loop(w) /\ index[w] < Total /\ ~expired
      <3>1. index[w] \in Indices
        BY <2>1, ConfigAssumption DEF Control, Typed, Indices
      <3>. QED
        BY <2>1, <3>1 DEF Loop, Control, Typed
    <2>2. CASE ~(Loop(w) /\ index[w] < Total /\ ~expired)
      <3>1. UNCHANGED <<sends, flying>>
        BY <2>2 DEF Client, Loop, Accepted, GaveUp, Push, server
      <3>. QED
        BY <3>1 DEF Control, Typed
    <2>. QED
      BY <2>1, <2>2
  <1>5. results' \in Samples
    <2>1. results \in Samples
      BY DEF Control, Typed
    <2>2. \/ results' = results
          \/ results' = [results EXCEPT !.ok = @ + 1]
          \/ results' = [results EXCEPT !.bad = @ + 1]
      BY DEF Client, Loop, Accepted, GaveUp, Push, channel
    <2>. QED
      BY <2>1, <2>2 DEF Samples
  <1>6. client' \in [Clients -> {"new", "loop", "exited"} \cup Busy]
    BY <1>1 DEF Control, Typed, Busy
  <1>7. Typed'
    BY <1>1, <1>3, <1>4, <1>5, <1>6 DEF Control, Typed
  <1>8. Phases'
    BY <1>1, <1>2 DEF Phases
  <1>9. Verdicts'
    BY <1>1 DEF Control, Verdicts
  <1>. QED
    BY <1>7, <1>8, <1>9 DEF Control

\* The closer, the monitor, the clock and the service.
LEMMA OtherControl ==
    ASSUME Control,
           Close \/ Monitor \/ Expire \/ \E i \in Indices : Arrive(i) \/ Post(i)
    PROVE  Control'
  <1>1. UNCHANGED <<lpc, out, settled, outcome, client, index, sends, results>>
    BY DEF Close, Monitor, MonitorReturns, Tick, Sampled, Expire, Arrive, Post, runvars,
           clientvars, channel
  <1>2. \/ closed' = closed
        \/ closed' = TRUE /\ \A w \in Clients : client[w] = "exited"
    BY DEF Close, Monitor, MonitorReturns, Tick, Sampled, Expire, Arrive, Post, channel
  <1>3. \/ monitor' = monitor
        \/ /\ monitor \in {"select", "sampling"}
           /\ monitor' \in {"select", "sampling", "returned"}
    BY DEF Close, Monitor, MonitorReturns, Tick, Sampled, Expire, Arrive, Post, monitorvars
  <1>4. /\ flying' \subseteq Indices /\ created' \subseteq Indices
        /\ posted' \subseteq created' /\ posted \subseteq posted'
    BY DEF Close, Monitor, MonitorReturns, Tick, Sampled, Expire, Arrive, Post, server,
           Control, Typed
  <1>5. Typed'
    BY <1>1, <1>3, <1>4 DEF Control, Typed
  <1>6. Phases'
    <2>1. Buffered' = Buffered
      BY <1>1 DEF Buffered
    <2>. QED
      BY <1>1, <1>2, <1>3, <2>1 DEF Control, Phases
  <1>7. Verdicts'
    BY <1>1, <1>4 DEF Control, Verdicts
  <1>. QED
    BY <1>5, <1>6, <1>7 DEF Control

LEMMA ControlNext == Control /\ [Next]_vars => Control'
  <1> SUFFICES ASSUME Control, [Next]_vars PROVE Control'
    OBVIOUS
  <1>1. CASE UNCHANGED vars
    <2>1. UNCHANGED <<lpc, out, settled, outcome, client, index, sends, results, closed, monitor,
                      flying, created, posted>>
      BY <1>1 DEF vars, runvars, clientvars, channel, monitorvars, server
    <2>. QED
      BY <2>1 DEF Control, Typed, Phases, Verdicts, Buffered
  <1>2. CASE Run
    BY <1>2, RunControl, StartControl, CollectControl DEF Run
  <1>3. CASE Next /\ ~Run
    BY <1>3, ClientControl, OtherControl DEF Next
  <1>. QED
    BY <1>1, <1>2, <1>3
-----------------------------------------------------------------------------
(* The strides of the clients. *)

\* Division with remainder.
LEMMA Division ==
    ASSUME NEW c \in Nat \ {0}, NEW i \in Nat
    PROVE  /\ i \div c \in Nat /\ i % c \in Nat /\ i % c < c
           /\ i = c * (i \div c) + (i % c)
  <1>1. i \div c \in Nat
    OBVIOUS
  <1>2. i % c \in Nat /\ i % c < c
    OBVIOUS
  <1>3. i = c * (i \div c) + (i % c)
    OBVIOUS
  <1>. QED
    BY <1>1, <1>2, <1>3

\* Two events of one client are a stride apart.
LEMMA SameTurn ==
    ASSUME NEW c \in Nat \ {0}, NEW i \in Nat, NEW j \in Nat, i % c = j % c, j <= i, i < j + c
    PROVE  i = j
  <1> DEFINE a == i \div c
             b == j \div c
             m == i % c
  <1>1. a \in Nat /\ b \in Nat /\ m \in Nat /\ i = c * a + m /\ j = c * b + m
    BY Division
  <1> HIDE DEF a, b, m
  <1>2. c * a \in Nat /\ c * b \in Nat /\ c * a >= c * b /\ c * a < c * b + c
    BY <1>1
  <1>3. a >= b
    <2> SUFFICES ASSUME a + 1 <= b PROVE FALSE
      BY <1>1
    <2>1. c * (a + 1) <= c * b /\ c * (a + 1) = c * a + c
      BY <1>1
    <2>. QED
      BY <1>2, <2>1
  <1>4. a <= b
    <2> SUFFICES ASSUME b + 1 <= a PROVE FALSE
      BY <1>1
    <2>1. c * (b + 1) <= c * a /\ c * (b + 1) = c * b + c
      BY <1>1
    <2>. QED
      BY <1>2, <2>1
  <1>. QED
    BY <1>1, <1>3, <1>4

\* A stride later it is the same client's turn.
LEMMA NextTurn ==
    ASSUME NEW c \in Nat \ {0}, NEW i \in Nat
    PROVE  (i + c) % c = i % c
  <1> DEFINE a == i \div c
             m == i % c
             b == (i + c) \div c
             n == (i + c) % c
  <1>1. a \in Nat /\ m \in Nat /\ m < c /\ i = c * a + m
    BY Division
  <1>2. b \in Nat /\ n \in Nat /\ n < c /\ i + c = c * b + n
    BY Division
  <1> HIDE DEF a, b, m, n
  <1>3. c * (a + 1) = c * a + c /\ c * b \in Nat /\ c * a \in Nat
    BY <1>1, <1>2
  <1>4. b >= a + 1
    <2> SUFFICES ASSUME b + 1 <= a + 1 PROVE FALSE
      BY <1>1, <1>2
    <2>1. c * (b + 1) <= c * (a + 1) /\ c * (b + 1) = c * b + c
      BY <1>1, <1>2
    <2>. QED
      BY <1>1, <1>2, <1>3, <2>1
  <1>5. b <= a + 1
    <2> SUFFICES ASSUME a + 2 <= b PROVE FALSE
      BY <1>1, <1>2
    <2>1. c * (a + 2) <= c * b /\ c * (a + 2) = c * (a + 1) + c
      BY <1>1, <1>2
    <2>. QED
      BY <1>1, <1>2, <1>3, <2>1
  <1>6. b = a + 1
    BY <1>1, <1>2, <1>4, <1>5
  <1>7. c * b = c * a + c
    BY <1>3, <1>6
  <1>8. n = m
    BY <1>1, <1>2, <1>3, <1>7
  <1>. QED
    BY <1>8 DEF m, n

\* Every event has a client.
LEMMA OwnerIsClient ==
    /\ \A i \in Indices : i \in Nat /\ Owner(i) \in Clients
    /\ \A w \in Clients : w \in Nat /\ Owner(w) = w
  <1>1. ASSUME NEW i \in Indices PROVE i \in Nat /\ Owner(i) \in Clients
    <2>1. i \in Nat /\ Concurrency \in Nat \ {0}
      BY ConfigAssumption DEF Indices
    <2>2. i % Concurrency \in Nat /\ i % Concurrency < Concurrency
      BY <2>1, Division
    <2>. QED
      BY <2>1, <2>2 DEF Owner, Clients
  <1>2. ASSUME NEW w \in Clients PROVE w \in Nat /\ Owner(w) = w
    BY ConfigAssumption DEF Owner, Clients
  <1>. QED
    BY <1>1, <1>2

LEMMA IndicesFinite == IsFiniteSet(Indices) /\ \A S \in SUBSET Indices : IsFiniteSet(S)
  <1>1. IsFiniteSet(Indices)
    BY ConfigAssumption, FS_Interval DEF Indices
  <1>. QED
    BY <1>1, FS_Subset
-----------------------------------------------------------------------------
LEMMA DataInit == Init => Data
  <1> SUFFICES ASSUME Init PROVE Data
    OBVIOUS
  <1>1. Pushed = {}
    <2> SUFFICES ASSUME NEW i \in Indices, i < index[Owner(i)] PROVE FALSE
      BY DEF Pushed
    <2>1. i \in Nat /\ Owner(i) \in Clients /\ index[Owner(i)] = Owner(i)
      BY OwnerIsClient DEF Init
    <2>2. Owner(i) <= i
      <3> DEFINE d == i \div Concurrency
                 k == Concurrency
      <3>1. /\ d \in Nat /\ Owner(i) \in Nat /\ k \in Nat /\ i = k * d + Owner(i)
        BY <2>1, ConfigAssumption, Division DEF Owner
      <3> HIDE DEF d, k
      <3>2. k * d \in Nat
        BY <3>1
      <3>. QED
        BY <2>1, <3>1, <3>2
    <2>3. Owner(i) \in Nat
      BY <2>1, OwnerIsClient
    <2>. QED
      BY <2>1, <2>2, <2>3
  <1>2. Loops
    BY OwnerIsClient DEF Init, Loops, Busy
  <1>3. SentInv
    BY <1>1, OwnerIsClient DEF Init, SentInv, Busy
  <1>4. Counts
    <2>1. Pushed \cap created = {}
      BY <1>1
    <2>. QED
      BY <1>1, <2>1, FS_EmptySet DEF Init, Counts, Buffered
  <1>. QED
    BY <1>2, <1>3, <1>4 DEF Data

\* Steps that change neither the clients nor the sum of report and channel; the
\* database may grow.
LEMMA QuietData ==
    ASSUME Control, Control', Data, UNCHANGED <<client, index, sends>>,
           created \subseteq created',
           out'.attempted + Buffered' = out.attempted + Buffered,
           out'.accepted + results'.ok = out.accepted + results.ok
    PROVE  Data'
  <1>1. Pushed' = Pushed
    BY DEF Pushed
  <1>2. Loops' /\ SentInv'
    BY <1>1 DEF Data, Loops, SentInv
  <1>3. Cardinality(Pushed \cap created) <= Cardinality(Pushed \cap created')
    <2>1. Pushed \cap created \subseteq Pushed \cap created' /\ Pushed \cap created' \subseteq Indices
      BY DEF Pushed
    <2>2. IsFiniteSet(Pushed \cap created')
      BY <2>1, IndicesFinite
    <2>. QED
      BY <2>1, <2>2, FS_Subset
  <1>4. /\ Cardinality(Pushed \cap created) \in Nat /\ Cardinality(Pushed \cap created') \in Nat
    <2>1. IsFiniteSet(Pushed \cap created) /\ IsFiniteSet(Pushed \cap created')
      BY IndicesFinite DEF Pushed
    <2>. QED
      BY <2>1, FS_CardinalityType
  <1>5. out.accepted + results.ok \in Nat
    BY DEF Control, Typed, Tallies, Samples
  <1>6. Counts'
    <2>1. Counts
      BY DEF Data
    <2>2. out.accepted + results.ok <= Cardinality(Pushed \cap created')
      BY <1>3, <1>4, <1>5, <2>1 DEF Counts
    <2>. QED
      BY <1>1, <2>1, <2>2 DEF Counts
  <1>. QED
    BY <1>2, <1>6 DEF Data

\* A client sends its next event, gets its answer or ends.
LEMMA ClientData ==
    ASSUME Control, Control', Data, NEW w \in Clients, Loop(w) \/ Accepted(w) \/ GaveUp(w)
    PROVE  Data'
  <1>1. UNCHANGED <<index, results, out, created>>
    BY DEF Loop, Accepted, GaveUp, runvars, channel, server
  <1>2. Pushed' = Pushed
    BY <1>1 DEF Pushed
  <1>3. Counts'
    BY <1>1, <1>2 DEF Data, Counts, Buffered
  <1>4. client \in [Clients -> {"new", "loop", "exited"} \cup Busy] /\ index \in [Clients -> Nat]
        /\ sends \in [Indices -> Nat]
    BY DEF Control, Typed
  <1>5. Loops /\ SentInv
    BY DEF Data
  <1>6. CASE Loop(w) /\ index[w] < Total /\ ~expired
    <2>1. index[w] \in Indices
      BY <1>4, <1>6, ConfigAssumption DEF Indices
    <2>2. /\ client' = [client EXCEPT ![w] = "waiting"] /\ client[w] = "loop"
          /\ sends' = [sends EXCEPT ![index[w]] = sends[index[w]] + 1]
      BY <1>6 DEF Loop
    <2>3. Loops'
      BY <1>1, <1>4, <1>5, <2>1, <2>2 DEF Loops, Busy
    <2>4. ASSUME NEW i \in Indices
          PROVE  sends'[i] > 0 <=> i \in Pushed
                                   \/ (client'[Owner(i)] \in Busy /\ index[Owner(i)] = i)
      <3>1. Owner(i) \in Clients /\ sends[i] \in Nat
        BY <1>4, OwnerIsClient
      <3>2. CASE i = index[w]
        <4>1. Owner(i) = w /\ client'[w] \in Busy
          BY <1>4, <1>5, <2>2, <3>2 DEF Loops, Busy
        <4>2. sends'[i] > 0
          BY <1>4, <2>2, <3>1, <3>2
        <4>. QED
          BY <3>2, <4>1, <4>2
      <3>3. CASE i # index[w]
        <4>1. sends'[i] = sends[i]
          BY <1>4, <2>1, <2>2, <3>3
        <4>2. client'[Owner(i)] \in Busy /\ index[Owner(i)] = i
                <=> client[Owner(i)] \in Busy /\ index[Owner(i)] = i
          BY <1>4, <2>2, <3>1, <3>3
        <4>. QED
          BY <1>5, <4>1, <4>2 DEF SentInv
      <3>. QED
        BY <3>2, <3>3
    <2>5. SentInv'
      BY <1>1, <1>2, <2>4 DEF SentInv
    <2>. QED
      BY <1>3, <2>3, <2>5 DEF Data
  <1>7. CASE ~(Loop(w) /\ index[w] < Total /\ ~expired)
    <2>1. /\ sends' = sends
          /\ \/ client[w] = "loop" /\ client' = [client EXCEPT ![w] = "exited"]
             \/ /\ client[w] = "waiting" /\ client' = [client EXCEPT ![w] = "accepted"]
                /\ index[w] \in created
             \/ client[w] = "waiting" /\ client' = [client EXCEPT ![w] = "failed"]
      BY <1>7 DEF Loop, Accepted, GaveUp
    <2>2. \A v \in Clients : client'[v] \in Busy <=> client[v] \in Busy
      BY <1>4, <2>1 DEF Busy
    <2>3. Loops'
      BY <1>1, <1>4, <1>5, <2>1, <2>2 DEF Loops, Busy
    <2>4. SentInv'
      BY <1>1, <1>2, <1>5, <2>1, <2>2, OwnerIsClient DEF SentInv
    <2>. QED
      BY <1>3, <2>3, <2>4 DEF Data
  <1>. QED
    BY <1>6, <1>7

\* A sample goes into the channel: its event, and no other, joins the pushed ones.
LEMMA PushData ==
    ASSUME Control, Control', Data, NEW w \in Clients, Push(w)
    PROVE  Data'
  <1> DEFINE k == index[w]
  <1>1. /\ client[w] \in {"accepted", "failed"} /\ client' = [client EXCEPT ![w] = "loop"]
        /\ index' = [index EXCEPT ![w] = k + Concurrency]
        /\ results' = IF client[w] = "accepted" THEN [results EXCEPT !.ok = @ + 1]
                      ELSE [results EXCEPT !.bad = @ + 1]
        /\ UNCHANGED <<out, sends, created>>
    BY DEF Push, Stride, runvars, server
  <1>2. /\ client \in [Clients -> {"new", "loop", "exited"} \cup Busy] /\ index \in [Clients -> Nat]
        /\ results \in Samples /\ out \in Tallies /\ Concurrency \in Nat \ {0}
    BY ConfigAssumption DEF Control, Typed
  <1>3. Loops /\ SentInv /\ Counts
    BY DEF Data
  <1>4. /\ k \in Indices /\ k \in Nat /\ Owner(k) = w
        /\ client[w] = "accepted" => k \in created
    BY <1>1, <1>2, <1>3 DEF Loops, Busy
  <1>5. k \notin Pushed
    BY <1>4 DEF Pushed
  <1> HIDE DEF k
  <1>6. Pushed' = Pushed \cup {k}
    <2>1. ASSUME NEW i \in Indices
          PROVE  i < index'[Owner(i)] <=> i < index[Owner(i)] \/ i = k
      <3>1. i \in Nat /\ Owner(i) \in Clients
        BY OwnerIsClient
      <3>2. CASE Owner(i) = w
        <4>1. index'[Owner(i)] = k + Concurrency /\ index[Owner(i)] = k
          BY <1>1, <1>2, <3>2 DEF k
        <4>2. ASSUME i < k + Concurrency, ~(i < k) PROVE i = k
          <5>1. k <= i /\ i % Concurrency = k % Concurrency
            BY <1>4, <3>1, <3>2, <4>2 DEF Owner
          <5>. QED
            BY <1>2, <1>4, <3>1, <4>2, <5>1, SameTurn
        <4>. QED
          BY <1>2, <1>4, <3>1, <4>1, <4>2
      <3>3. CASE Owner(i) # w
        BY <1>1, <1>2, <1>4, <3>1, <3>3
      <3>. QED
        BY <3>2, <3>3
    <2>. QED
      BY <1>4, <2>1 DEF Pushed
  <1>7. Loops'
    <2>1. Owner(k + Concurrency) = w
      BY <1>2, <1>4, NextTurn DEF Owner
    <2>. QED
      BY <1>1, <1>2, <1>3, <2>1 DEF Loops, Busy
  <1>8. SentInv'
    <2> SUFFICES ASSUME NEW i \in Indices
                 PROVE  sends[i] > 0 <=> i \in Pushed'
                                         \/ (client'[Owner(i)] \in Busy /\ index'[Owner(i)] = i)
      BY <1>1 DEF SentInv
    <2>1. Owner(i) \in Clients
      BY OwnerIsClient
    <2>2. sends[i] > 0 <=> i \in Pushed \/ (client[Owner(i)] \in Busy /\ index[Owner(i)] = i)
      BY <1>3 DEF SentInv
    <2>3. CASE Owner(i) = w
      BY <1>1, <1>2, <1>6, <2>2, <2>3 DEF Busy, k
    <2>4. CASE Owner(i) # w
      <3>1. i # k
        BY <1>4, <2>4
      <3>. QED
        BY <1>1, <1>2, <1>6, <2>1, <2>2, <2>4, <3>1
    <2>. QED
      BY <2>3, <2>4
  <1>9. Counts'
    <2>1. IsFiniteSet(Pushed) /\ IsFiniteSet(Pushed \cap created)
      BY IndicesFinite DEF Pushed
    <2>2. /\ Cardinality(Pushed) \in Nat /\ Cardinality(Pushed \cap created) \in Nat
          /\ Cardinality(Pushed \cup {k}) = Cardinality(Pushed) + 1
      BY <1>5, <2>1, FS_AddElement, FS_CardinalityType
    <2>3. /\ results.ok \in Nat /\ results.bad \in Nat
          /\ results'.ok = IF client[w] = "accepted" THEN results.ok + 1 ELSE results.ok
          /\ results'.ok + results'.bad = results.ok + results.bad + 1
      BY <1>1, <1>2 DEF Samples
    <2>4. out.attempted \in Nat /\ out.accepted \in Nat
      BY <1>2 DEF Tallies
    <2>5. out'.attempted + Buffered' = Cardinality(Pushed')
      BY <1>1, <1>3, <1>6, <2>2, <2>3, <2>4 DEF Counts, Buffered
    <2>6. CASE k \in created
      <3>1. Pushed' \cap created' = (Pushed \cap created) \cup {k} /\ k \notin Pushed \cap created
        BY <1>1, <1>5, <1>6, <2>6
      <3>2. Cardinality((Pushed \cap created) \cup {k}) = Cardinality(Pushed \cap created) + 1
        BY <2>1, <3>1, FS_AddElement
      <3>3. out.accepted + results'.ok <= Cardinality(Pushed' \cap created')
        BY <1>3, <2>2, <2>3, <2>4, <3>1, <3>2 DEF Counts
      <3>. QED
        BY <1>1, <2>5, <3>3 DEF Counts
    <2>7. CASE k \notin created
      <3>1. Pushed' \cap created' = Pushed \cap created /\ results'.ok = results.ok
        BY <1>1, <1>4, <1>6, <2>3, <2>7
      <3>. QED
        BY <1>1, <1>3, <2>5, <3>1 DEF Counts
    <2>. QED
      BY <2>6, <2>7
  <1>. QED
    BY <1>7, <1>8, <1>9 DEF Data

LEMMA DataNext == Control /\ Control' /\ Data /\ [Next]_vars => Data'
  <1> SUFFICES ASSUME Control, Control', Data, [Next]_vars PROVE Data'
    OBVIOUS
  <1>1. ASSUME UNCHANGED <<client, index, sends, results, out>>, created \subseteq created'
        PROVE  Data'
    <2>1. Buffered' = Buffered
      BY <1>1 DEF Buffered
    <2>. QED
      BY <1>1, <2>1, QuietData
  <1>2. CASE UNCHANGED vars
    BY <1>1, <1>2 DEF vars, runvars, clientvars, channel, server
  <1>3. CASE ProbeFails \/ Collected \/ JoinMonitor \/ Drain \/ DrainExpires \/ Verdict
    BY <1>1, <1>3 DEF ProbeFails, Collected, JoinMonitor, Drain, DrainExpires, Verdict,
                      clientvars, channel, server
  <1>4. CASE Start
    <2>1. /\ lpc = "probe" /\ UNCHANGED <<index, sends, results, out, created>>
          /\ client' = [w \in Clients |-> "loop"]
      BY <1>4 DEF Start, channel, server
    <2>2. \A w \in Clients : client[w] \notin Busy /\ client'[w] \notin Busy
                             /\ client'[w] # "accepted"
      BY <2>1 DEF Control, Phases, Busy
    <2>3. Pushed' = Pushed /\ Buffered' = Buffered
      BY <2>1 DEF Pushed, Buffered
    <2>4. Loops' /\ Counts'
      BY <2>1, <2>2, <2>3 DEF Data, Loops, Counts
    <2>5. SentInv'
      BY <2>1, <2>2, <2>3, OwnerIsClient DEF Data, SentInv
    <2>. QED
      BY <2>4, <2>5 DEF Data
  <1>5. ASSUME NEW ok \in BOOLEAN, Collect(ok) PROVE Data'
    <2>1. out \in Tallies /\ results \in Samples
      BY DEF Control, Typed
    <2>2. /\ results' = IF ok THEN [results EXCEPT !.ok = @ - 1] ELSE [results EXCEPT !.bad = @ - 1]
          /\ out'.attempted = out.attempted + 1
          /\ out'.accepted = IF ok THEN out.accepted + 1 ELSE out.accepted
          /\ UNCHANGED <<client, index, sends, created>>
      BY <1>5 DEF Collect, clientvars, server
    <2>3. /\ out'.attempted + (results'.ok + results'.bad) = out.attempted + (results.ok + results.bad)
          /\ out'.accepted + results'.ok = out.accepted + results.ok
      BY <2>1, <2>2 DEF Tallies, Samples
    <2>. QED
      BY <2>2, <2>3, QuietData DEF Buffered
  <1>6. CASE \E w \in Clients : Client(w)
    BY <1>6, ClientData, PushData DEF Client
  <1>7. CASE Close \/ Monitor \/ Expire \/ \E i \in Indices : Arrive(i) \/ Post(i)
    BY <1>1, <1>7 DEF Close, Monitor, MonitorReturns, Tick, Sampled, Expire, Arrive, Post, runvars,
                      clientvars, channel, server
  <1>. QED
    BY <1>2, <1>3, <1>4, <1>5, <1>6, <1>7 DEF Next, Run
-----------------------------------------------------------------------------
\* The goroutines, the report and the channel stay in step in every interleaving
\* of run, clients, closer, monitor, deadline and service (run).
THEOREM LoadTestInvariant == Spec => [](Control /\ Data)
  <1>1. Init => Control /\ Data
    BY ControlInit, DataInit
  <1>2. (Control /\ Data) /\ [Next]_vars => (Control /\ Data)'
    BY ControlNext, DataNext
  <1>. QED
    BY <1>1, <1>2, PTL DEF Spec

\* run returns after the clients and the monitor it started, whenever the
\* deadline passes (WaitGroup, queueDone).
THEOREM GoroutinesAreJoined == Spec => []NobodyLeftBehind
  <1>1. Control => NobodyLeftBehind
    BY DEF Control, Phases, NobodyLeftBehind
  <1>. QED
    BY <1>1, LoadTestInvariant, PTL

\* A run without error accepted and posted every event: answers that were lost
\* and requests that were cut off fail it (the verdict of run).
THEOREM SuccessHolds == Spec => []SuccessIsReal
  <1>1. Control => SuccessIsReal
    <2> SUFFICES ASSUME Control, outcome = "nil"
                 PROVE  out.accepted = Total /\ created = Indices /\ posted = Indices
      BY DEF SuccessIsReal
    <2>1. /\ posted = Indices /\ out.errors = 0 /\ out.attempted = Total
          /\ out.attempted = out.accepted + out.errors
      BY DEF Control, Verdicts
    <2>2. out.accepted \in Nat /\ posted \subseteq created /\ created \subseteq Indices
      BY DEF Control, Typed, Tallies
    <2>. QED
      BY <2>1, <2>2
  <1>. QED
    BY <1>1, LoadTestInvariant, PTL

\* Once the channel is drained the report counts every request that was sent, each
\* once, and no acceptance that did not happen (the clients' strides, results and
\* its closing).
THEOREM ReportIsComplete == Spec => []ReportComplete
  <1>1. Control /\ Data => ReportComplete
    <2> SUFFICES ASSUME Control, Data, lpc \in {"join", "drain", "verdict"}
                 PROVE  /\ out.attempted = Cardinality(Sent)
                        /\ out.attempted = out.accepted + out.errors
                        /\ out.accepted <= Cardinality(created)
      BY DEF ReportComplete
    <2>1. Buffered = 0 /\ \A w \in Clients : client[w] = "exited"
      BY DEF Control, Phases
    <2>2. Sent = Pushed
      <3>1. \A i \in Indices : sends[i] > 0 <=> i \in Pushed
        BY <2>1, OwnerIsClient DEF Data, SentInv, Busy
      <3>. QED
        BY <3>1 DEF Sent, Pushed
    <2>3. /\ out.attempted \in Nat /\ out.accepted \in Nat
          /\ results.ok \in Nat /\ results.bad \in Nat
      BY DEF Control, Typed, Tallies, Samples
    <2>4. out.attempted = Cardinality(Pushed)
      BY <2>1, <2>3 DEF Data, Counts
    <2>5. /\ Cardinality(Pushed \cap created) <= Cardinality(created)
          /\ Cardinality(Pushed \cap created) \in Nat /\ Cardinality(created) \in Nat
      <3>1. IsFiniteSet(created) /\ IsFiniteSet(Pushed \cap created)
        BY IndicesFinite DEF Control, Typed, Pushed
      <3>2. Pushed \cap created \subseteq created
        OBVIOUS
      <3>. QED
        BY <3>1, <3>2, FS_Subset, FS_CardinalityType
    <2>6. out.accepted <= Cardinality(created)
      BY <2>3, <2>5 DEF Data, Counts
    <2>. QED
      BY <2>2, <2>4, <2>6 DEF Control, Verdicts
  <1>. QED
    BY <1>1, LoadTestInvariant, PTL
=============================================================================

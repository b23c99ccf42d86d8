----------------------------- MODULE WorkerProofs -----------------------------
(***************************************************************************)
(* The worker's statistics, for every interval, cap and number of calls of *)
(* Run: one loop at a time, every batch counted once, and a delay between  *)
(* the interval and its maximum.                                           *)
(***************************************************************************)
EXTENDS Worker, FiniteSetTheorems, TLAPS

\* The counters of finished batches, and of the one that is about to be counted.
Balanced ==
    /\ stats.attempts = seen["none"] + seen["driver"] + seen["context"]
    /\ stats.errors + stats.cancellations = seen["driver"] + seen["context"]
    /\ stats.cancellations >= seen["context"]
    /\ stats.processed = posted

OneBehind(o) ==
    /\ stats.attempts + 1 = seen["none"] + seen["driver"] + seen["context"]
    /\ o.err = "none" =>
        /\ stats.errors + stats.cancellations = seen["driver"] + seen["context"]
        /\ stats.cancellations >= seen["context"]
        /\ stats.processed + o.count = posted
    /\ o.err # "none" =>
        /\ stats.errors + stats.cancellations + 1 = seen["driver"] + seen["context"]
        /\ stats.processed = posted
    /\ o.err = "driver" => stats.cancellations >= seen["context"]
    /\ o.err = "context" => stats.cancellations + 1 >= seen["context"]

Books ==
    /\ (\A r \in Runs : pc[r] # "finish") => Balanced
    /\ \A r \in Runs : pc[r] = "finish" => OneBehind(outcome[r])

\* The delay of a run never leaves its bounds, so doubling it cannot overflow.
DelayBounded == \A r \in Runs : Interval <= delay[r] /\ delay[r] <= MaxDelay

WorkerInv == TypeOK /\ OneLoop /\ Books /\ DelayBounded

\* The invariant holds of a new worker.
LEMMA InitInv == Init => WorkerInv
  BY IntervalAssumption, CapAssumption
     DEF Init, WorkerInv, TypeOK, OneLoop, Books, Balanced, DelayBounded, Stats, Kinds,
         Errors, NoOutcome, MaxDelay, Looping

\* What a processor returns: a failed batch has posted nothing.
LEMMA OutcomeFacts ==
  ASSUME NEW o \in Outcome
  PROVE  /\ o \in [count : Nat, err : Kinds]
         /\ o.count \in Nat /\ o.err \in Kinds /\ (o.err # "none" => o.count = 0)
<1>1. o \in [count : Counts \cup {0}, err : Kinds] /\ (o.err # "none" => o.count = 0)
  BY DEF Outcome
<1>2. Counts \cup {0} \subseteq Nat
  BY CountsAssumption
<1>3. o = [count |-> o.count, err |-> o.err] /\ o.count \in Counts \cup {0} /\ o.err \in Kinds
  BY <1>1
<1>4. o.count \in Nat
  BY <1>2, <1>3
<1>5. [count |-> o.count, err |-> o.err] \in [count : Nat, err : Kinds]
  BY <1>3, <1>4
<1> QED
  BY <1>1, <1>3, <1>4, <1>5

\* The counters after finishAttempt: one attempt more, and a failed batch adds
\* one to errors and cancellations together.
LEMMA RecordedCounts ==
  ASSUME TypeOK, NEW r \in Runs
  PROVE  /\ Recorded(r) \in Stats
         /\ Recorded(r).attempts = stats.attempts + 1
         /\ outcome[r].err = "none" =>
              /\ Recorded(r).errors = stats.errors
              /\ Recorded(r).cancellations = stats.cancellations
              /\ Recorded(r).processed = stats.processed + outcome[r].count
         /\ outcome[r].err # "none" =>
              /\ \/ Recorded(r).errors = stats.errors + 1
                    /\ Recorded(r).cancellations = stats.cancellations
                    /\ outcome[r].err # "context"
                 \/ Recorded(r).errors = stats.errors
                    /\ Recorded(r).cancellations = stats.cancellations + 1
              /\ Recorded(r).processed = stats.processed
<1> DEFINE o == outcome[r]
           cut == expired[r] \/ CtxDone(r) \/ o.err = "context"
           c == IF o.err # "none" /\ cut THEN stats.cancellations + 1 ELSE stats.cancellations
           e == IF o.err # "none" /\ ~cut THEN stats.errors + 1 ELSE stats.errors
           p == IF o.err = "none" THEN stats.processed + o.count ELSE stats.processed
<1>1. /\ stats.attempts \in Nat /\ stats.errors \in Nat
      /\ stats.cancellations \in Nat /\ stats.processed \in Nat /\ o.count \in Nat
  BY DEF TypeOK, Stats
<1>2. c \in Nat /\ e \in Nat /\ p \in Nat /\ stats.attempts + 1 \in Nat
  BY <1>1
<1>3. Recorded(r) = [stats EXCEPT !.inFlight = FALSE, !.attempts = @ + 1, !.cancellations = c,
                                  !.errors = e, !.processed = p]
  BY DEF Recorded
<1>4. /\ o.err = "none" => c = stats.cancellations /\ e = stats.errors
                           /\ p = stats.processed + o.count
      /\ o.err # "none" =>
           /\ \/ e = stats.errors + 1 /\ c = stats.cancellations /\ o.err # "context"
              \/ e = stats.errors /\ c = stats.cancellations + 1
           /\ p = stats.processed
  OBVIOUS
<1> HIDE DEF c, e, p
<1>5. stats \in Stats
  BY DEF TypeOK
<1>6. /\ Recorded(r) \in Stats /\ Recorded(r).attempts = stats.attempts + 1
      /\ Recorded(r).errors = e /\ Recorded(r).cancellations = c /\ Recorded(r).processed = p
  BY <1>2, <1>3, <1>5 DEF Stats
<1> QED
  BY <1>4, <1>6

\* TypeOK is kept by every step.
LEMMA TypeStep == TypeOK /\ [Next]_vars => TypeOK'
<1> SUFFICES ASSUME TypeOK, [Next]_vars PROVE TypeOK'
  OBVIOUS
<1> USE IntervalAssumption, CapAssumption, CountsAssumption DEF TypeOK, Goto, history
<1>1. CASE UNCHANGED vars
  BY <1>1 DEF vars
<1>2. ASSUME NEW r \in Runs, Start(r) PROVE TypeOK'
  BY <1>2 DEF Start, Stats
<1>3. ASSUME NEW r \in Runs, Refuse(r) PROVE TypeOK'
  BY <1>3 DEF Refuse
<1>4. ASSUME NEW r \in Runs, SelectDone(r) PROVE TypeOK'
  BY <1>4 DEF SelectDone
<1>5. ASSUME NEW r \in Runs, SelectTimer(r) PROVE TypeOK'
  BY <1>5 DEF SelectTimer
<1>6. ASSUME NEW r \in Runs, BeginAttempt(r) PROVE TypeOK'
  BY <1>6 DEF BeginAttempt, Stats
<1>7. ASSUME NEW r \in Runs, FinishAttempt(r) PROVE TypeOK'
  <2>1. Recorded(r) \in Stats
    BY RecordedCounts
  <2> QED
    BY <1>7, <2>1 DEF FinishAttempt
<1>8. ASSUME NEW r \in Runs, Continue(r) PROVE TypeOK'
  BY <1>8 DEF Continue, Backoff, MaxDelay
<1>9. ASSUME NEW r \in Runs, Break(r) PROVE TypeOK'
  BY <1>9 DEF Break
<1>10. ASSUME NEW r \in Runs, Stop(r) PROVE TypeOK'
  BY <1>10 DEF Stop, Stats
<1>11. ASSUME NEW r \in Runs, NEW o \in Outcome, ProcessBatch(r, o) PROVE TypeOK'
  <2>1. o \in [count : Nat, err : Kinds]
    BY OutcomeFacts
  <2>2. o.count \in Nat /\ o.err \in Kinds
    BY OutcomeFacts
  <2>3. seen' \in [Kinds -> Nat] /\ posted' \in Nat /\ fails' \in [Runs -> Nat]
    BY <1>11, <2>2 DEF ProcessBatch
  <2> QED
    BY <1>11, <2>1, <2>3 DEF ProcessBatch
<1>12. ASSUME NEW r \in Runs, Cancel(r) \/ Expire(r) \/ Fire(r) PROVE TypeOK'
  BY <1>12 DEF Cancel, Expire, Fire
<1> QED
  BY <1>1, <1>2, <1>3, <1>4, <1>5, <1>6, <1>7, <1>8, <1>9, <1>10, <1>11, <1>12
     DEF Next, Code, Processor

\* start() and stop() guard the loop; beginAttempt, finishAttempt and stop()
\* keep BatchInFlight.
LEMMA OneLoopStep == TypeOK /\ OneLoop /\ [Next]_vars => OneLoop'
<1> SUFFICES ASSUME TypeOK, OneLoop, [Next]_vars PROVE OneLoop'
  OBVIOUS
<1> USE DEF TypeOK, OneLoop, Looping, Goto, history
<1>1. CASE UNCHANGED vars
  BY <1>1 DEF vars
<1>2. ASSUME NEW r \in Runs, Start(r) PROVE OneLoop'
  BY <1>2 DEF Start, Stats
<1>3. ASSUME NEW r \in Runs, Refuse(r) PROVE OneLoop'
  BY <1>3 DEF Refuse
<1>4. ASSUME NEW r \in Runs, SelectDone(r) PROVE OneLoop'
  BY <1>4 DEF SelectDone
<1>5. ASSUME NEW r \in Runs, SelectTimer(r) PROVE OneLoop'
  BY <1>5 DEF SelectTimer
<1>6. ASSUME NEW r \in Runs, BeginAttempt(r) PROVE OneLoop'
  BY <1>6 DEF BeginAttempt, Stats
<1>7. ASSUME NEW r \in Runs, FinishAttempt(r) PROVE OneLoop'
  BY <1>7 DEF FinishAttempt, Recorded, Stats
<1>8. ASSUME NEW r \in Runs, Continue(r) PROVE OneLoop'
  BY <1>8 DEF Continue
<1>9. ASSUME NEW r \in Runs, Break(r) PROVE OneLoop'
  BY <1>9 DEF Break
<1>10. ASSUME NEW r \in Runs, Stop(r) PROVE OneLoop'
  BY <1>10 DEF Stop, Stats
<1>11. ASSUME NEW r \in Runs, NEW o \in Outcome, ProcessBatch(r, o) PROVE OneLoop'
  BY <1>11 DEF ProcessBatch
<1>12. ASSUME NEW r \in Runs, Cancel(r) \/ Expire(r) \/ Fire(r) PROVE OneLoop'
  BY <1>12 DEF Cancel, Expire, Fire
<1> QED
  BY <1>1, <1>2, <1>3, <1>4, <1>5, <1>6, <1>7, <1>8, <1>9, <1>10, <1>11, <1>12
     DEF Next, Code, Processor

\* Only a returning processor and finishAttempt touch the books, one after the other.
LEMMA BooksStep == TypeOK /\ OneLoop /\ Books /\ [Next]_vars => Books'
<1> SUFFICES ASSUME TypeOK, OneLoop, Books, [Next]_vars PROVE Books'
  OBVIOUS
<1>1. ASSUME NEW r \in Runs, FinishAttempt(r) PROVE Books'
  <2>1. \A q \in Runs : pc'[q] # "finish"
    BY <1>1 DEF FinishAttempt, Goto, OneLoop, Looping, TypeOK
  <2>2. OneBehind(outcome[r]) /\ outcome[r] \in [count : Nat, err : Kinds]
    BY <1>1 DEF FinishAttempt, Goto, Books, TypeOK
  <2>3. seen' = seen /\ posted' = posted /\ stats' = Recorded(r)
    BY <1>1 DEF FinishAttempt, history
  <2>4. stats \in Stats /\ seen["none"] \in Nat /\ seen["driver"] \in Nat
        /\ seen["context"] \in Nat /\ posted \in Nat
    BY DEF TypeOK, Kinds, Errors
  <2>5. Balanced'
    <3>1. /\ stats.attempts \in Nat /\ stats.errors \in Nat
          /\ stats.cancellations \in Nat /\ stats.processed \in Nat
      BY <2>4 DEF Stats
    <3>2. outcome[r].err \in Kinds
      BY <2>2
    <3>3. stats'.attempts = seen["none"] + seen["driver"] + seen["context"]
      BY <2>2, <2>3, RecordedCounts DEF OneBehind
    <3>4. /\ stats'.errors + stats'.cancellations = seen["driver"] + seen["context"]
          /\ stats'.cancellations >= seen["context"]
          /\ stats'.processed = posted
      BY <2>2, <2>3, <2>4, <3>1, <3>2, RecordedCounts DEF OneBehind, Kinds, Errors
    <3> QED
      BY <2>3, <3>3, <3>4 DEF Balanced
  <2> QED
    BY <2>1, <2>5 DEF Books
<1>2. ASSUME NEW r \in Runs, NEW o \in Outcome, ProcessBatch(r, o) PROVE Books'
  <2>1. pc[r] = "process" /\ \A q \in Runs : pc[q] # "finish"
    BY <1>2 DEF ProcessBatch, Goto, OneLoop, Looping
  <2>2. Balanced
    BY <2>1 DEF Books
  <2>3. pc'[r] = "finish" /\ outcome'[r] = o /\ \A q \in Runs : pc'[q] = "finish" => q = r
    BY <1>2, <2>1 DEF ProcessBatch, Goto, TypeOK
  <2>4. o.count \in Nat /\ o.err \in Kinds /\ (o.err # "none" => o.count = 0)
    BY OutcomeFacts
  <2>5. stats' = stats /\ seen' = [seen EXCEPT ![o.err] = @ + 1] /\ posted' = posted + o.count
    BY <1>2 DEF ProcessBatch
  <2>6. seen \in [Kinds -> Nat] /\ posted \in Nat /\ stats \in Stats
    BY DEF TypeOK
  <2>7. /\ stats.attempts \in Nat /\ stats.errors \in Nat
        /\ stats.cancellations \in Nat /\ stats.processed \in Nat
    BY <2>6 DEF Stats
  <2>8. OneBehind(o)'
    BY <2>2, <2>4, <2>5, <2>6, <2>7 DEF Balanced, OneBehind, Kinds, Errors
  <2> QED
    BY <2>3, <2>8 DEF Books, OneBehind
<1>3. ASSUME UNCHANGED <<seen, posted, outcome>>,
             UNCHANGED <<stats.attempts, stats.errors, stats.cancellations, stats.processed>>,
             \A q \in Runs : pc'[q] = "finish" <=> pc[q] = "finish"
      PROVE  Books'
  BY <1>3 DEF Books, Balanced, OneBehind
<1>4. CASE UNCHANGED vars
  BY <1>3, <1>4 DEF vars
<1>5. ASSUME NEW r \in Runs, Start(r) \/ BeginAttempt(r) \/ Stop(r) PROVE Books'
  BY <1>3, <1>5 DEF Start, BeginAttempt, Stop, Goto, history, TypeOK, Stats
<1>6. ASSUME NEW r \in Runs,
             Refuse(r) \/ SelectDone(r) \/ SelectTimer(r) \/ Continue(r) \/ Break(r)
      PROVE  Books'
  BY <1>3, <1>6 DEF Refuse, SelectDone, SelectTimer, Continue, Break, Goto, history, TypeOK
<1>7. ASSUME NEW r \in Runs, Cancel(r) \/ Expire(r) \/ Fire(r) PROVE Books'
  BY <1>3, <1>7 DEF Cancel, Expire, Fire, history
<1> QED
  BY <1>1, <1>2, <1>4, <1>5, <1>6, <1>7 DEF Next, Code, Processor

\* Durations are natural numbers.
LEMMA Durations == Interval \in Nat \ {0} /\ Cap \in Nat
  BY IntervalAssumption, CapAssumption

\* A delay is set to the interval, to its maximum, or to twice a delay below
\* half of the maximum.
LEMMA DelayStep == TypeOK /\ DelayBounded /\ [Next]_vars => DelayBounded'
<1> SUFFICES ASSUME TypeOK, DelayBounded, [Next]_vars PROVE DelayBounded'
  OBVIOUS
<1> USE Durations DEF DelayBounded
<1>1. ASSUME NEW r \in Runs, Start(r) PROVE DelayBounded'
  BY <1>1 DEF Start, TypeOK, MaxDelay
<1>2. ASSUME NEW r \in Runs, Continue(r) PROVE DelayBounded'
  <2>1. Interval <= Backoff(r) /\ Backoff(r) <= MaxDelay
    BY DEF Backoff, MaxDelay, TypeOK
  <2> QED
    BY <1>2, <2>1 DEF Continue, TypeOK
<1>3. CASE UNCHANGED delay
  BY <1>3
<1> QED
  BY <1>1, <1>2, <1>3
     DEF Next, Code, Processor, Refuse, SelectDone, SelectTimer, BeginAttempt, ProcessBatch,
         FinishAttempt, Break, Stop, Cancel, Expire, Fire, vars

\* WorkerInv is an invariant of the worker.
LEMMA Invariance == Spec => []WorkerInv
<1>1. WorkerInv /\ [Next]_vars => WorkerInv'
  BY TypeStep, OneLoopStep, BooksStep, DelayStep DEF WorkerInv
<1> QED
  BY InitInv, <1>1, PTL DEF Spec

\* One call of Run loops at a time, and the snapshot says so.
THEOREM LoopExclusive == Spec => []OneLoop
<1>1. WorkerInv => OneLoop
  BY DEF WorkerInv
<1> QED
  BY <1>1, Invariance, PTL

\* The statistics account for every batch exactly once.
THEOREM BooksBalance == Spec => []Accounting
<1>1. WorkerInv => Accounting
  BY DEF WorkerInv, Books, Balanced, Accounting
<1> QED
  BY <1>1, Invariance, PTL

\* The delay of Run stays between the interval and max(30s, interval).
THEOREM BackoffBounded == Spec => []DelayBounded
<1>1. WorkerInv => DelayBounded
  BY DEF WorkerInv
<1> QED
  BY <1>1, Invariance, PTL

\* The worker's state is well typed: every counter a natural number, every delay
\* a duration, whatever the runs of Run do.
THEOREM WorkerTypes == Spec => []TypeOK
<1>1. WorkerInv => TypeOK
  BY DEF WorkerInv
<1> QED
  BY <1>1, Invariance, PTL
-----------------------------------------------------------------------------
(* The exact backoff.  That doubling is what a power of two does follows   *)
(* from the number of subsets of an interval.                              *)

\* 1..n has 2^n subsets, and a further number doubles them.
LEMMA PowerDoubles ==
  ASSUME NEW n \in Nat
  PROVE  2^n \in Nat /\ 2^n >= 1 /\ 2^(n + 1) = 2 * 2^n
<1> DEFINE P == SUBSET (1..n)
           Q == {T \cup {n + 1} : T \in P}
           f == [T \in P |-> T \cup {n + 1}]
<1>1. IsFiniteSet(1..n) /\ Cardinality(1..n) = n
  BY FS_Interval
<1>2. IsFiniteSet(1..(n + 1)) /\ Cardinality(1..(n + 1)) = n + 1
  BY FS_Interval
<1>3. IsFiniteSet(P) /\ Cardinality(P) = 2^n /\ Cardinality(P) \in Nat
  BY <1>1, FS_SUBSET, FS_CardinalityType
<1>4. Cardinality(SUBSET (1..(n + 1))) = 2^(n + 1)
  BY <1>2, FS_SUBSET
<1>5. n + 1 \notin 1..n
  OBVIOUS
<1>6. IsFiniteSet(Q) /\ Cardinality(Q) = Cardinality(P)
  <2>1. f \in [P -> Q]
    OBVIOUS
  <2>2. ASSUME NEW S \in P, NEW T \in P, f[S] = f[T] PROVE S = T
    <3>1. S \cup {n + 1} = T \cup {n + 1} /\ n + 1 \notin S /\ n + 1 \notin T
      BY <1>5, <2>2
    <3> QED
      BY <3>1
  <2>3. \A U \in Q : \E T \in P : f[T] = U
    OBVIOUS
  <2> HIDE DEF P, Q, f
  <2>4. f \in Bijection(P, Q)
    BY <2>1, <2>2, <2>3 DEF Bijection, Injection, Surjection, IsInjective
  <2>5. ExistsBijection(P, Q)
    BY <2>4 DEF ExistsBijection
  <2> QED
    BY <1>3, <2>5, FS_Bijection
<1>7. SUBSET (1..(n + 1)) = P \cup Q
  <2>1. 1..(n + 1) = (1..n) \cup {n + 1}
    OBVIOUS
  <2>2. ASSUME NEW U \in SUBSET (1..(n + 1)) PROVE U \in P \cup Q
    <3>1. CASE n + 1 \in U
      <4>1. U \ {n + 1} \in P /\ U = (U \ {n + 1}) \cup {n + 1}
        BY <2>1, <3>1
      <4> QED
        BY <4>1
    <3>2. CASE n + 1 \notin U
      BY <2>1, <3>2
    <3> QED
      BY <3>1, <3>2
  <2>3. P \cup Q \subseteq SUBSET (1..(n + 1))
    BY <2>1
  <2> QED
    BY <2>2, <2>3
<1>8. P \cap Q = {}
  BY <1>5
<1> HIDE DEF P, Q
<1>9. Cardinality(P \cup Q) = Cardinality(P) + Cardinality(Q) - Cardinality(P \cap Q)
  BY <1>3, <1>6, FS_Union
<1>10. Cardinality(P \cap Q) = 0
  BY <1>8, FS_EmptySet
<1>11. 2^(n + 1) = 2 * 2^n /\ 2^n \in Nat
  <2>1. Cardinality(P \cup Q) = 2^(n + 1)
    BY <1>4, <1>7
  <2>2. Cardinality(P \cup Q) = 2 * Cardinality(P)
    BY <1>3, <1>6, <1>9, <1>10
  <2> QED
    BY <1>3, <2>1, <2>2
<1>12. 2^n >= 1
  <2>1. P # {}
    BY DEF P
  <2>2. Cardinality(P) # 0
    BY <1>3, <2>1, FS_EmptySet
  <2> QED
    BY <1>3, <2>2
<1> QED
  BY <1>11, <1>12

\* The delay after n consecutive failures.
Wanted(n) == IF Interval * 2^n < MaxDelay THEN Interval * 2^n ELSE MaxDelay

\* The delay that Run waits, or has waited and not yet replaced.
DelayExact ==
    \A r \in Runs :
        /\ pc[r] = "new" => fails[r] = 0
        /\ pc[r] \in {"select", "begin", "process"} => delay[r] = Wanted(fails[r])
        /\ pc[r] \in {"finish", "check"} =>
             /\ outcome[r].err = "none" => fails[r] = 0
             /\ outcome[r].err # "none" => \E n \in Nat : fails[r] = n + 1 /\ delay[r] = Wanted(n)

\* One more failure doubles the delay or reaches the maximum.
LEMMA WantedDoubles ==
  ASSUME NEW n \in Nat
  PROVE  /\ Wanted(0) = Interval
         /\ Wanted(n + 1) = IF Wanted(n) >= MaxDelay \div 2 THEN MaxDelay ELSE 2 * Wanted(n)
<1>1. Wanted(0) = Interval
  <2>1. 2^0 = 1
    OBVIOUS
  <2>2. Interval * 2^0 = Interval
    BY <2>1, IntervalAssumption
  <2> QED
    BY <2>2, IntervalAssumption, CapAssumption DEF Wanted, MaxDelay
<1> DEFINE p == 2^n
           x == Interval * p
<1>2. p \in Nat /\ p >= 1 /\ 2^(n + 1) = 2 * p
  BY PowerDoubles
<1>3. Interval * 2^(n + 1) = 2 * x /\ x \in Nat /\ x >= Interval
  <2> HIDE DEF p
  <2> QED
    BY <1>2, IntervalAssumption
<1>4. Wanted(n) = IF x < MaxDelay THEN x ELSE MaxDelay
  BY DEF Wanted
<1>5. Wanted(n + 1) = IF 2 * x < MaxDelay THEN 2 * x ELSE MaxDelay
  BY <1>3 DEF Wanted
<1> HIDE DEF p, x
<1>6. MaxDelay \in Nat /\ (MaxDelay = Interval \/ MaxDelay % 2 = 0)
  BY IntervalAssumption, CapAssumption DEF MaxDelay
<1> QED
  BY <1>1, <1>3, <1>4, <1>5, <1>6, IntervalAssumption

LEMMA ExactStep == TypeOK /\ DelayExact /\ [Next]_vars => DelayExact'
<1> SUFFICES ASSUME TypeOK, DelayExact, [Next]_vars PROVE DelayExact'
  OBVIOUS
<1>1. CASE UNCHANGED vars
  BY <1>1 DEF vars, DelayExact
<1>2. ASSUME NEW r \in Runs, Start(r) PROVE DelayExact'
  <2>1. /\ pc[r] = "new" /\ pc' = [pc EXCEPT ![r] = "select"]
        /\ delay' = [delay EXCEPT ![r] = Interval] /\ UNCHANGED <<fails, outcome>>
    BY <1>2 DEF Start, Goto, history
  <2>2. fails[r] = 0 /\ Interval = Wanted(0)
    BY <2>1, WantedDoubles DEF DelayExact
  <2> QED
    BY <2>1, <2>2 DEF DelayExact, TypeOK
<1>3. ASSUME NEW r \in Runs, NEW o \in Outcome, ProcessBatch(r, o) PROVE DelayExact'
  <2>1. /\ pc[r] = "process" /\ pc' = [pc EXCEPT ![r] = "finish"]
        /\ outcome' = [outcome EXCEPT ![r] = o] /\ delay' = delay
        /\ fails' = [fails EXCEPT ![r] = IF o.err = "none" THEN 0 ELSE fails[r] + 1]
    BY <1>3 DEF ProcessBatch, Goto
  <2>2. /\ pc'[r] = "finish" /\ outcome'[r] = o /\ delay'[r] = delay[r]
        /\ fails'[r] = IF o.err = "none" THEN 0 ELSE fails[r] + 1
        /\ fails[r] \in Nat /\ delay[r] = Wanted(fails[r])
    BY <2>1 DEF TypeOK, DelayExact
  <2>3. \A q \in Runs \ {r} : /\ pc'[q] = pc[q] /\ outcome'[q] = outcome[q]
                               /\ delay'[q] = delay[q] /\ fails'[q] = fails[q]
    BY <2>1 DEF TypeOK
  <2> QED
    BY <2>2, <2>3 DEF DelayExact
<1>4. ASSUME NEW r \in Runs, Continue(r) PROVE DelayExact'
  <2>1. /\ pc[r] = "check" /\ pc' = [pc EXCEPT ![r] = "select"]
        /\ delay' = [delay EXCEPT ![r] = Backoff(r)] /\ UNCHANGED <<fails, outcome>>
    BY <1>4 DEF Continue, Goto, history
  <2>2. Backoff(r) = Wanted(fails[r])
    <3>1. CASE outcome[r].err = "none"
      BY <2>1, <3>1, WantedDoubles DEF DelayExact, Backoff
    <3>2. CASE outcome[r].err # "none"
      <4>1. PICK n \in Nat : fails[r] = n + 1 /\ delay[r] = Wanted(n)
        BY <2>1, <3>2 DEF DelayExact
      <4> QED
        BY <3>2, <4>1, WantedDoubles DEF Backoff
    <3> QED
      BY <3>1, <3>2
  <2> QED
    BY <2>1, <2>2 DEF DelayExact, TypeOK
<1>5. ASSUME NEW r \in Runs,
             \/ Refuse(r) \/ SelectDone(r) \/ SelectTimer(r) \/ BeginAttempt(r)
             \/ FinishAttempt(r) \/ Break(r) \/ Stop(r) \/ Cancel(r) \/ Expire(r) \/ Fire(r)
      PROVE  DelayExact'
  <2>1. UNCHANGED <<fails, outcome, delay>>
    BY <1>5 DEF Refuse, SelectDone, SelectTimer, BeginAttempt, FinishAttempt, Break, Stop, Cancel,
                Expire, Fire, history
  <2>2. \A q \in Runs :
          \/ pc'[q] = pc[q]
          \/ pc'[q] \in {"refused", "stopping", "returned"}
          \/ pc[q] = "select" /\ pc'[q] = "begin"
          \/ pc[q] = "begin" /\ pc'[q] = "process"
          \/ pc[q] = "finish" /\ pc'[q] = "check"
    BY <1>5 DEF Refuse, SelectDone, SelectTimer, BeginAttempt, FinishAttempt, Break, Stop, Cancel,
                Expire, Fire, Goto, TypeOK
  <2> QED
    BY <2>1, <2>2 DEF DelayExact
<1> QED
  BY <1>1, <1>2, <1>3, <1>4, <1>5 DEF Next, Code, Processor

\* While Run waits, its delay is the interval doubled once per consecutive failed
\* batch, cut off at max(30s, interval), for every interval (Run).
THEOREM BackoffIsExact == Spec => []BackoffExact
<1>1. Init => TypeOK /\ DelayExact
  <2> SUFFICES ASSUME Init PROVE DelayExact
    BY InitInv DEF WorkerInv
  <2> QED
    BY DEF Init, DelayExact
<1>2. (TypeOK /\ DelayExact) /\ [Next]_vars => (TypeOK /\ DelayExact)'
  BY TypeStep, ExactStep
<1>3. DelayExact => BackoffExact
  BY DEF DelayExact, BackoffExact, Wanted
<1> QED
  BY <1>1, <1>2, <1>3, PTL DEF Spec

\* Every call of Run takes only the steps of its contract: it enters its loop once
\* or is refused, and it returns only after its context was cancelled (Run).
THEOREM RunKeepsItsContract ==
    Spec => /\ \A r \in Runs : Contract(r)!Init
            /\ [][\A r \in Runs : Contract(r)!Step]_vars
<1> DEFINE Left == \A r \in Runs : pc[r] = "stopping" => cancelled[r]
<1>1. Init => /\ TypeOK /\ Left
              /\ \A r \in Runs : Contract(r)!Init
  <2> SUFFICES ASSUME Init PROVE Left /\ \A r \in Runs : Contract(r)!Init
    BY InitInv DEF WorkerInv
  <2>1. Left
    BY DEF Init
  <2>2. \A r \in Runs : Contract(r)!Init
    BY DEF Init, Contract!Init, Phase, Looping
  <2> QED
    BY <2>1, <2>2
<1>2. ASSUME TypeOK, Left, [Next]_vars, NEW r \in Runs
      PROVE  \/ /\ cancelled'[r] = cancelled[r]
                /\ \/ pc'[r] = pc[r]
                   \/ pc[r] = "new" /\ pc'[r] \in {"select", "refused"}
                   \/ pc[r] \in Looping /\ pc'[r] \in Looping /\ pc'[r] # "stopping"
                   \/ pc[r] \in Looping /\ pc'[r] = "stopping" /\ cancelled[r]
                   \/ pc[r] = "stopping" /\ pc'[r] = "returned" /\ cancelled[r]
             \/ pc'[r] = pc[r] /\ ~cancelled[r] /\ cancelled'[r]
  <2> USE DEF TypeOK, Goto, history, Looping, CtxDone
  <2>1. CASE UNCHANGED vars
    BY <2>1 DEF vars
  <2>2. ASSUME NEW q \in Runs, Start(q) \/ Refuse(q) \/ Stop(q)
        PROVE  /\ cancelled' = cancelled
               /\ \/ pc'[r] = pc[r]
                  \/ pc[r] = "new" /\ pc'[r] \in {"select", "refused"}
                  \/ pc[r] = "stopping" /\ pc'[r] = "returned" /\ cancelled[r]
    BY <1>2, <2>2 DEF Start, Refuse, Stop
  <2>3. ASSUME NEW q \in Runs,
               \/ SelectDone(q) \/ SelectTimer(q) \/ Break(q) \/ BeginAttempt(q)
               \/ FinishAttempt(q) \/ Continue(q) \/ Processor(q)
        PROVE  /\ cancelled' = cancelled
               /\ \/ pc'[r] = pc[r]
                  \/ pc[r] \in Looping /\ pc'[r] \in Looping /\ pc'[r] # "stopping"
                  \/ pc[r] \in Looping /\ pc'[r] = "stopping" /\ cancelled[r]
    BY <1>2, <2>3 DEF SelectDone, SelectTimer, Break, BeginAttempt, FinishAttempt, Continue,
                      Processor, ProcessBatch
  <2>4. ASSUME NEW q \in Runs, Cancel(q) \/ Expire(q) \/ Fire(q)
        PROVE  /\ pc' = pc
               /\ cancelled'[r] = cancelled[r] \/ (~cancelled[r] /\ cancelled'[r])
    BY <1>2, <2>4 DEF Cancel, Expire, Fire
  <2> QED
    BY <1>2, <2>1, <2>2, <2>3, <2>4 DEF Next, Code
<1>3. TypeOK /\ Left /\ [Next]_vars => Left'
  BY <1>2
<1>4. TypeOK /\ Left /\ [Next]_vars => \A r \in Runs : Contract(r)!Step
  <2> SUFFICES ASSUME TypeOK, TypeOK', Left, [Next]_vars, NEW r \in Runs PROVE Contract(r)!Step
    BY TypeStep
  <2>1. /\ cancelled[r] \in BOOLEAN /\ cancelled'[r] \in BOOLEAN
        /\ Phase(r) = IF pc[r] \in Looping THEN "looping" ELSE pc[r]
        /\ Phase(r)' = IF pc'[r] \in Looping THEN "looping" ELSE pc'[r]
    BY DEF TypeOK, Phase
  <2>2. \/ /\ cancelled'[r] = cancelled[r]
           /\ \/ Phase(r)' = Phase(r)
              \/ Phase(r) = "new" /\ Phase(r)' \in {"looping", "refused"}
              \/ Phase(r) = "looping" /\ Phase(r)' = "returned" /\ cancelled[r]
        \/ Phase(r)' = Phase(r) /\ ~cancelled[r] /\ cancelled'[r] = TRUE
    BY <1>2, <2>1 DEF Looping
  <2> QED
    BY <2>2 DEF Contract!Step, Contract!Next, Contract!vars, Contract!Enter, Contract!Refuse,
                Contract!Leave, Contract!Cancel
<1> QED
  BY <1>1, <1>3, <1>4, TypeStep, PTL DEF Spec
=============================================================================

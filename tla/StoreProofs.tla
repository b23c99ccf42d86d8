----------------------------- MODULE StoreProofs -----------------------------
(***************************************************************************)
(* Machine-checked proofs about Store, for every set of events, connections*)
(* and prices and every limit, in this order:                              *)
(*                                                                         *)
(*   1. Pricing: the overflow guard is exact.                              *)
(*   2. StoreInv.  The table invariants are not inductive: a commit        *)
(*      applies a draft that was written several statements earlier.  The  *)
(*      strengthening says what each draft may contain at each step of its *)
(*      call (Shape) and which committed rows its locks keep as they were  *)
(*      when the draft was written.                                        *)
(*   3. SafetyInv.  The drafts get their values: a draft row is computed   *)
(*      from a committed row that the transaction has locked, so it is     *)
(*      still the right successor of that row when it commits, whatever    *)
(*      the other connections committed meanwhile.                         *)
(*   4. The refinement of UsageLedger.                                     *)
(*   5. The reports.                                                       *)
(***************************************************************************)
EXTENDS StoreProperties, Reports, FiniteSetTheorems, WellFoundedInduction, TLAPS

(* 1. Pricing: the overflow guard of Service.Accept is exact, for every MaxInt64. *)

\* A number below the modulus is its own remainder.
LEMMA SmallRemainder ==
    ASSUME NEW x \in Nat, NEW m \in Nat, x < m
    PROVE  x % m = x
  OBVIOUS

\* The division in Service.Accept is a sufficient guard: what passes it has a
\* product that fits.
LEMMA GuardedProductFits ==
    ASSUME NEW u \in Nat \ {0}, NEW r \in Nat \ {0}, ~Overflows(u, r)
    PROVE  u * r \in 1..MaxInt64
  <1> DEFINE q == MaxInt64 \div r
  <1>1. q \in Nat /\ q * r <= MaxInt64
    BY MaxInt64Assumption
  <1>2. u <= q
    BY <1>1, MaxInt64Assumption DEF Overflows
  <1> HIDE DEF q
  <1>3. u * r <= q * r
    BY <1>1, <1>2
  <1>4. u * r > 0
    OBVIOUS
  <1>. QED
    BY <1>1, <1>3, <1>4, MaxInt64Assumption

\* The guard is also necessary: what it refuses does not fit.
LEMMA RefusedProductOverflows ==
    ASSUME NEW u \in Nat \ {0}, NEW r \in Nat \ {0}, Overflows(u, r)
    PROVE  u * r > MaxInt64
  <1> DEFINE q == MaxInt64 \div r
  <1>1. q \in Nat /\ MaxInt64 < (q + 1) * r
    BY MaxInt64Assumption
  <1>2. u >= q + 1
    BY <1>1, MaxInt64Assumption DEF Overflows
  <1> HIDE DEF q
  <1>3. u * r >= (q + 1) * r
    BY <1>1, <1>2
  <1>4. u * r \in Nat /\ (q + 1) * r \in Nat
    BY <1>1
  <1>. QED
    BY <1>1, <1>3, <1>4, MaxInt64Assumption

\* Service.Accept freezes an amount only when the int64 product equals the
\* mathematical product of units and rate, and refuses every other one: the
\* guard is exact, no charge wraps around and no payable one is refused.
THEOREM GuardExact ==
    ASSUME NEW u \in Nat \ {0}, NEW r \in Nat \ {0}
    PROVE  /\ Overflows(u, r) <=> u * r > MaxInt64
           /\ ~Overflows(u, r) => Amount(u, r) = u * r
  <1>1. ~Overflows(u, r) => u * r \in 1..MaxInt64
    BY GuardedProductFits
  <1>2. Overflows(u, r) => u * r > MaxInt64
    BY RefusedProductOverflows
  <1>3. ASSUME NEW x \in 1..MaxInt64
        PROVE  Wrap(x) = x
    <2>1. x \in Nat /\ 2 * (MaxInt64 + 1) \in Nat /\ x < 2 * (MaxInt64 + 1)
      BY MaxInt64Assumption
    <2>2. x % (2 * (MaxInt64 + 1)) = x
      BY <2>1, SmallRemainder
    <2>. QED
      BY <2>1, <2>2, MaxInt64Assumption DEF Wrap
  <1>. QED
    BY <1>1, <1>2, <1>3, MaxInt64Assumption DEF Amount
-----------------------------------------------------------------------------
(* 2. What a draft may hold, and the invariants of the tables. *)

\* What the draft of s may hold, by the kind of the call and its progress.
Shape(s) ==
    /\ pc[s] = "idle" => call[s] = NoCall /\ tx[s] = NoTx
    /\ pc[s] # "idle" => call[s].op # "none"
    /\ pc[s] \in {"insert", "admit", "count", "enqueue"} => call[s].op = "accept"
    /\ pc[s] = "rowlock" => call[s].op = "retry" /\ tx[s] = NoTx
    /\ pc[s] = "update" =>
         call[s].op = "retry" /\ tx[s] = [NoTx EXCEPT !.locks = {call[s].id}]
    /\ pc[s] \in {"claimed", "single"} => call[s].op = "process"
    /\ pc[s] = "read" => call[s].op \in {"accept", "retry"}
    /\ pc[s] = "insert" => tx[s].usage = NoRow /\ tx[s].put[call[s].id] = NoRow
    /\ pc[s] \in {"admit", "count", "enqueue"} =>
         tx[s].usage # NoRow /\ tx[s].put[call[s].id] = NoRow
    /\ pc[s] \in {"read", "commit", "indoubt"} /\ call[s].op = "accept" =>
         ((tx[s].usage # NoRow) <=> (tx[s].put[call[s].id] # NoRow))
    /\ pc[s] = "commit" /\ call[s].op \in {"accept", "retry"} =>
         tx[s].answer # NoRow
    /\ call[s].op = "accept" =>
         /\ tx[s].locks = {} /\ tx[s].gone = {} /\ tx[s].posted = {}
         /\ \A e \in Events : tx[s].put[e] # NoRow => e = call[s].id
    /\ call[s].op \in {"retry", "process"} =>
         /\ tx[s].usage = NoRow
         /\ tx[s].posted = tx[s].gone
         /\ tx[s].gone \subseteq tx[s].locks
         /\ \A e \in Events : tx[s].put[e] # NoRow => e \in tx[s].locks

ShapeInv == \A s \in Conns : Shape(s)

\* An uncommitted usage row has its key to itself.
KeyInv ==
    \A s \in Conns : tx[s].usage # NoRow =>
        /\ usage[call[s].id] = NoRow
        /\ \A t \in Conns \ {s} : tx[t].usage # NoRow => call[t].id # call[s].id

\* A locked queue row exists and has one holder.
LockInv ==
    \A s \in Conns : \A e \in tx[s].locks :
        /\ pending[e] # NoRow
        /\ \A t \in Conns \ {s} : e \notin tx[t].locks

\* s has an admission in its draft.
Admits(s) == call[s].op = "accept" /\ tx[s].put[call[s].id] # NoRow

\* From the count to the end of its transaction an admission holds the lock.
AdmissionInv ==
    \A s \in Conns :
        pc[s] \in {"count", "enqueue"} \/ Admits(s) => admission = s

\* The slot that was counted free stays free until the admission commits.
RoomInv ==
    \A s \in Conns :
        pc[s] = "enqueue" \/ Admits(s) => Cardinality(Queue) < MaxPending

StoreInv ==
    /\ TypeOK /\ ShapeInv /\ KeyInv /\ LockInv /\ AdmissionInv /\ RoomInv
    /\ OneHome /\ WithinCapacity
-----------------------------------------------------------------------------
\* A price is an integer.
LEMMA AmountType ==
    ASSUME NEW u \in Nat, NEW r \in Nat
    PROVE  Amount(u, r) \in Int
  BY MaxInt64Assumption DEF Amount, Wrap

\* Every piece of the initial state satisfies the invariant.
LEMMA InitInv == Init => StoreInv
  <1> SUFFICES ASSUME Init PROVE StoreInv
    OBVIOUS
  <1>1. TypeOK
    BY LimitsAssumption
    DEF Init, TypeOK, Drafts, NoTx, NoCall, Steps
  <1>2. ShapeInv /\ KeyInv /\ LockInv /\ AdmissionInv
    BY <1>1 DEF Init, ShapeInv, Shape, KeyInv, LockInv, AdmissionInv, Admits, NoTx, NoCall
  <1>3. Queue = {}
    BY DEF Init, Queue
  <1>4. WithinCapacity /\ RoomInv /\ OneHome
    BY <1>3, FS_EmptySet, LimitsAssumption
    DEF Init, WithinCapacity, RoomInv, OneHome, Admits, NoCall
  <1>. QED
    BY <1>1, <1>2, <1>4 DEF StoreInv

\* A step that writes no table keeps the queue and the table invariants.
LEMMA TablesKept ==
    ASSUME StoreInv, UNCHANGED tables
    PROVE  /\ Queue' = Queue
           /\ OneHome'
           /\ WithinCapacity'
  <1>1. Queue' = Queue
    BY DEF Queue, tables
  <1>. QED
    BY <1>1 DEF StoreInv, OneHome, WithinCapacity, tables

\* The other connections do not notice a step of s.
Frame(s) ==
    \A t \in Conns \ {s} :
        /\ pc'[t] = pc[t]
        /\ call'[t] = call[t]
        /\ tx'[t] = tx[t]
        /\ admission = t => admission' = t

\* The locks of s alone, as the invariant asks of every connection.
OwnKey(s) ==
    tx[s].usage # NoRow =>
        /\ usage[call[s].id] = NoRow
        /\ \A t \in Conns \ {s} : tx[t].usage # NoRow => call[t].id # call[s].id

OwnLocks(s) == \A e \in tx[s].locks : pending[e] # NoRow /\ Unlocked(s, e)

OwnAdmission(s) ==
    /\ pc[s] \in {"count", "enqueue"} \/ Admits(s) => admission = s
    /\ pc[s] = "enqueue" \/ Admits(s) => Cardinality(Queue) < MaxPending

\* A step of s that writes no table is judged by what it does to s.
LEMMA LocalStep ==
    ASSUME StoreInv, NEW s \in Conns, UNCHANGED tables, Frame(s), TypeOK',
           Shape(s)', OwnKey(s)', OwnLocks(s)', OwnAdmission(s)'
    PROVE  StoreInv'
  <1>1. Queue' = Queue /\ OneHome' /\ WithinCapacity'
    BY TablesKept
  <1>2. ShapeInv'
    <2> SUFFICES ASSUME NEW t \in Conns, t # s PROVE Shape(t)'
      BY DEF ShapeInv
    <2>. QED
      BY DEF StoreInv, ShapeInv, Shape, Frame
  <1>3. KeyInv'
    BY DEF StoreInv, KeyInv, OwnKey, Frame, tables
  <1>4. LockInv'
    BY DEF StoreInv, LockInv, OwnLocks, Unlocked, Frame, tables
  <1>5. AdmissionInv' /\ RoomInv'
    BY <1>1 DEF StoreInv, AdmissionInv, RoomInv, OwnAdmission, Admits, Frame
  <1>. QED
    BY <1>1, <1>2, <1>3, <1>4, <1>5 DEF StoreInv

\* The kind of a call decides which fields it has.
LEMMA CallKinds ==
    ASSUME TypeOK, NEW s \in Conns
    PROVE  /\ call[s].op \in {"none", "accept", "retry", "process"}
           /\ call[s].op = "none" => call[s] = NoCall
           /\ call[s].op = "accept" => call[s] \in AcceptCall
           /\ call[s].op = "retry" => call[s] \in RetryCall
           /\ tx[s] \in Drafts /\ pc[s] \in Steps
  BY DEF TypeOK, AcceptCall, RetryCall, NoCall, ProcessCall

\* The queue is finite, so its length is a number.
LEMMA QueueCount == IsFiniteSet(Queue) /\ Cardinality(Queue) \in Nat
  <1>1. Queue \subseteq Events
    BY DEF Queue
  <1>. QED
    BY <1>1, EventsAssumption, FS_Subset, FS_CardinalityType

\* Beginning a call writes nothing and locks nothing.
LEMMA BeginInv ==
    ASSUME StoreInv, NEW s \in Conns,
           \/ \E e \in Events, i \in Inputs, r \in Rates : BeginAccept(s, e, i, r)
           \/ \E e \in Events, g \in RetryGens : BeginRetry(s, e, g)
    PROVE  StoreInv'
  <1> USE DEF BeginAccept, BeginRetry, Goto
  <1>1. TypeOK'
    <2>1. /\ pc' \in [Conns -> Steps]
          /\ call' \in [Conns -> AcceptCall \cup RetryCall \cup {NoCall, ProcessCall}]
      <3>1. PICK c \in AcceptCall \cup RetryCall, step \in {"insert", "rowlock"} :
               call' = [call EXCEPT ![s] = c] /\ pc' = [pc EXCEPT ![s] = step]
        BY DEF AcceptCall, RetryCall
      <3>. QED
        BY <3>1 DEF StoreInv, TypeOK, Steps
    <2>2. /\ calls' \in 0..MaxCalls
          /\ UNCHANGED <<tables, broken, clock, admission, tx, faults, history>>
      BY LimitsAssumption DEF StoreInv, TypeOK
    <2>. QED
      BY <2>1, <2>2 DEF StoreInv, TypeOK, tables, history
  <1>2. UNCHANGED tables /\ Frame(s)
    BY DEF StoreInv, TypeOK, Frame
  <1>3. /\ tx'[s] = NoTx
        /\ \/ pc'[s] = "insert" /\ call'[s].op = "accept" /\ call'[s].id \in Events
           \/ pc'[s] = "rowlock" /\ call'[s].op = "retry" /\ call'[s].id \in Events
    BY DEF StoreInv, TypeOK, ShapeInv, Shape
  <1>4. Shape(s)'
    BY <1>3 DEF Shape, NoTx
  <1>5. OwnKey(s)' /\ OwnLocks(s)' /\ OwnAdmission(s)'
    BY <1>3 DEF OwnKey, OwnLocks, OwnAdmission, Admits, NoTx
  <1>. QED
    BY <1>1, <1>2, <1>4, <1>5, LocalStep

\* Steps that touch neither table nor session.
LEMMA BystanderInv ==
    ASSUME StoreInv,
           \/ \E e \in Events, i \in Inputs, r \in Rates : AnswerOverflowing(e, i, r)
           \/ \E e \in Events : Break(e) \/ Mend(e)
    PROVE  StoreInv'
  <1>1. TypeOK'
    BY LimitsAssumption
    DEF StoreInv, TypeOK, AnswerOverflowing, Break, Mend, tables, session, budget, history
  <1>2. UNCHANGED <<tables, session>>
    BY DEF AnswerOverflowing, Break, Mend
  <1>3. Queue' = Queue /\ OneHome' /\ WithinCapacity'
    BY <1>2, TablesKept
  <1>4. ShapeInv' /\ KeyInv' /\ LockInv'
    BY <1>2 DEF StoreInv, ShapeInv, Shape, KeyInv, LockInv, tables, session
  <1>5. AdmissionInv' /\ RoomInv'
    BY <1>2, <1>3 DEF StoreInv, AdmissionInv, RoomInv, Admits, session
  <1>. QED
    BY <1>1, <1>3, <1>4, <1>5 DEF StoreInv

\* A rollback forgets the draft of s and frees its locks.
LEMMA RollbackInv ==
    ASSUME StoreInv, NEW s \in Conns, Rollback(s), UNCHANGED <<broken, budget, history>>
    PROVE  StoreInv'
  <1>1. TypeOK'
    BY DEF StoreInv, TypeOK, Rollback, Close, Drafts, NoTx, NoCall, Steps,
           tables, budget, history
  <1>2. UNCHANGED tables /\ Frame(s)
    BY DEF StoreInv, TypeOK, Rollback, Close, Frame
  <1>3. pc'[s] = "idle" /\ call'[s] = NoCall /\ tx'[s] = NoTx
    BY DEF StoreInv, TypeOK, Rollback, Close
  <1>4. Shape(s)' /\ OwnKey(s)' /\ OwnLocks(s)' /\ OwnAdmission(s)'
    BY <1>3 DEF Shape, OwnKey, OwnLocks, OwnAdmission, Admits, NoTx, NoCall
  <1>. QED
    BY <1>1, <1>2, <1>4, LocalStep

\* A usage row enters a draft when its key is free.
LEMMA InsertUsageInv ==
    ASSUME StoreInv, NEW s \in Conns, InsertUsage(s)
    PROVE  StoreInv'
  <1>1. /\ call[s] \in AcceptCall /\ tx[s] \in Drafts /\ Shape(s)
        /\ call[s].op = "accept" /\ call[s].id \in Events
    BY CallKinds DEF StoreInv, ShapeInv, Shape, InsertUsage, AcceptCall
  <1> DEFINE row == Priced(call[s].input, call[s].price)
  <1>2. row \in UsageRow
    BY <1>1, AmountType, InputsAssumption, RatesAssumption
    DEF AcceptCall, Priced, UsageRow
  <1>3. row # NoRow
    BY <1>2, NoRowAssumption
  <1> HIDE DEF row
  <1>4. CASE usage[call[s].id] = NoRow
    <2>1. /\ tx' = [tx EXCEPT ![s].usage = row]
          /\ pc' = [pc EXCEPT ![s] = "admit"]
      BY <1>4 DEF InsertUsage, Goto, row
    <2>2. /\ UNCHANGED <<tables, broken, clock, admission, call, budget, history>>
          /\ \A t \in Conns \ {s} : tx[t].usage # NoRow => call[t].id # call[s].id
      BY DEF InsertUsage
    <2>3. TypeOK'
      <3>1. [tx[s] EXCEPT !.usage = row] \in Drafts
        BY <1>1, <1>2 DEF Drafts
      <3>2. tx' \in [Conns -> Drafts]
        BY <3>1, <2>1 DEF StoreInv, TypeOK
      <3>. QED
        BY <3>2, <2>1, <2>2 DEF StoreInv, TypeOK, Steps, tables, budget, history
    <2>4. /\ pc'[s] = "admit" /\ call'[s] = call[s]
          /\ tx'[s] = [tx[s] EXCEPT !.usage = row]
      BY <2>1, <2>2 DEF StoreInv, TypeOK
    <2>5. UNCHANGED tables /\ Frame(s)
      BY <2>1, <2>2 DEF StoreInv, TypeOK, Frame
    <2>6. Shape(s)'
      BY <1>1, <1>3, <2>4 DEF Shape, Drafts, InsertUsage
    <2>7. OwnKey(s)'
      BY <1>4, <2>2, <2>4, <2>5 DEF OwnKey, Frame, tables
    <2>8. OwnLocks(s)' /\ OwnAdmission(s)'
      BY <1>1, <2>4 DEF OwnLocks, OwnAdmission, Admits, Shape, Drafts, InsertUsage
    <2>. QED
      BY <2>3, <2>5, <2>6, <2>7, <2>8, LocalStep
  <1>5. CASE usage[call[s].id] # NoRow
    <2>1. /\ pc' = [pc EXCEPT ![s] = "read"]
          /\ UNCHANGED <<tables, broken, clock, admission, call, tx, budget, history>>
      BY <1>5 DEF InsertUsage, Goto
    <2>2. TypeOK'
      BY <2>1 DEF StoreInv, TypeOK, Steps, tables, budget, history
    <2>3. UNCHANGED tables /\ Frame(s) /\ pc'[s] = "read"
      BY <2>1 DEF StoreInv, TypeOK, Frame
    <2>4. Shape(s)' /\ OwnKey(s)' /\ OwnLocks(s)' /\ OwnAdmission(s)'
      BY <1>1, <2>1, <2>3
      DEF Shape, InsertUsage, OwnKey, OwnLocks, OwnAdmission, Admits, Drafts
    <2>. QED
      BY <2>2, <2>3, <2>4, LocalStep
  <1>. QED
    BY <1>4, <1>5
\* The admission lock is granted to one connection at a time.
LEMMA LockAdmissionInv ==
    ASSUME StoreInv, NEW s \in Conns, LockAdmission(s)
    PROVE  StoreInv'
  <1> USE DEF LockAdmission, Goto, AdmissionFree
  <1>1. TypeOK'
    BY DEF StoreInv, TypeOK, Steps, tables, budget, history
  <1>2. UNCHANGED tables /\ Frame(s)
    BY NoConnAssumption DEF StoreInv, TypeOK, Frame
  <1>3. pc'[s] = "count" /\ call' = call /\ tx' = tx /\ admission' = s
    BY DEF StoreInv, TypeOK
  <1>4. Shape(s) /\ OwnKey(s) /\ OwnLocks(s)
    BY DEF StoreInv, ShapeInv, KeyInv, OwnKey, LockInv, OwnLocks, Unlocked
  <1>5. Shape(s)' /\ OwnKey(s)' /\ OwnLocks(s)' /\ OwnAdmission(s)'
    BY <1>2, <1>3, <1>4
    DEF Shape, OwnKey, OwnLocks, Unlocked, OwnAdmission, Admits, tables
  <1>. QED
    BY <1>1, <1>2, <1>5, LocalStep

\* The count either refuses the admission or finds a free slot under the lock.
LEMMA CountQueueInv ==
    ASSUME StoreInv, NEW s \in Conns, CountQueue(s)
    PROVE  StoreInv'
  <1>1. CASE Rollback(s)
    BY <1>1, RollbackInv DEF CountQueue
  <1>2. CASE ~Rollback(s)
    <2>1. /\ ~(Cardinality(Queue) >= MaxPending)
          /\ pc' = [pc EXCEPT ![s] = "enqueue"] /\ pc[s] = "count"
          /\ UNCHANGED <<tables, broken, clock, admission, call, tx, budget, history>>
      BY <1>2 DEF CountQueue, Goto
    <2>2. TypeOK'
      BY <2>1 DEF StoreInv, TypeOK, Steps, tables, budget, history
    <2>3. UNCHANGED tables /\ Frame(s) /\ pc'[s] = "enqueue"
      BY <2>1 DEF StoreInv, TypeOK, Frame
    <2>4. Shape(s) /\ OwnKey(s) /\ OwnLocks(s) /\ admission = s
      BY <2>1 DEF StoreInv, ShapeInv, KeyInv, OwnKey, LockInv, OwnLocks, Unlocked,
                  AdmissionInv
    <2>5. Cardinality(Queue)' < MaxPending
      BY <2>1, QueueCount, TablesKept, LimitsAssumption
    <2>6. Shape(s)' /\ OwnKey(s)' /\ OwnLocks(s)' /\ OwnAdmission(s)'
      BY <2>1, <2>3, <2>4, <2>5
      DEF Shape, OwnKey, OwnLocks, Unlocked, OwnAdmission, Admits, tables
    <2>. QED
      BY <2>2, <2>3, <2>6, LocalStep
  <1>. QED
    BY <1>1, <1>2

\* The new queue row enters the draft of the admission that holds the lock.
LEMMA EnqueueInv ==
    ASSUME StoreInv, NEW s \in Conns, Enqueue(s)
    PROVE  StoreInv'
  <1>1. /\ call[s] \in AcceptCall /\ tx[s] \in Drafts /\ Shape(s)
        /\ call[s].op = "accept" /\ call[s].id \in Events /\ pc[s] = "enqueue"
    BY CallKinds DEF StoreInv, ShapeInv, Shape, Enqueue, AcceptCall
  <1> DEFINE id == call[s].id
             draft == [tx[s] EXCEPT !.put[id] = NewItem]
  <1>2. NewItem \in PendingRow
    <2>1. clock \in Nat
      BY DEF StoreInv, TypeOK
    <2>. QED
      BY <2>1 DEF NewItem, PendingRow
  <1>3. /\ draft \in Drafts
        /\ draft.usage = tx[s].usage /\ draft.locks = tx[s].locks
        /\ draft.gone = tx[s].gone /\ draft.posted = tx[s].posted
        /\ draft.put = [tx[s].put EXCEPT ![id] = NewItem]
    BY <1>1, <1>2 DEF Drafts
  <1>4. /\ tx' = [tx EXCEPT ![s] = draft]
        /\ pc' = [pc EXCEPT ![s] = "read"]
        /\ clock' = clock + 1
        /\ UNCHANGED <<tables, broken, admission, call, budget, history>>
    BY DEF Enqueue, Goto
  <1> HIDE DEF draft
  <1>5. TypeOK'
    BY <1>3, <1>4 DEF StoreInv, TypeOK, Steps, tables, budget, history
  <1>6. /\ pc'[s] = "read" /\ call'[s] = call[s] /\ tx'[s] = draft
        /\ UNCHANGED tables /\ Frame(s)
    BY <1>4 DEF StoreInv, TypeOK, Frame
  <1>7. tx'[s].put[id] # NoRow /\ \A e \in Events : tx'[s].put[e] # NoRow => e = id
    BY <1>1, <1>2, <1>3, <1>6, NoRowAssumption DEF Shape, Drafts
  <1>8. Shape(s)'
    BY <1>1, <1>3, <1>6, <1>7 DEF Shape
  <1>9. OwnKey(s)' /\ OwnLocks(s)'
    BY <1>1, <1>3, <1>6
    DEF StoreInv, KeyInv, LockInv, OwnKey, OwnLocks, Unlocked, Frame, Shape, tables
  <1>10. OwnAdmission(s)'
    BY <1>1, <1>4, <1>6, TablesKept DEF StoreInv, AdmissionInv, RoomInv, OwnAdmission
  <1>. QED
    BY <1>5, <1>6, <1>8, <1>9, <1>10, LocalStep
\* A claim takes eligible rows that nobody holds.
LEMMA ClaimBatchInv ==
    ASSUME StoreInv, NEW s \in Conns, ClaimBatch(s)
    PROVE  StoreInv'
  <1> DEFINE claimed == Oldest(Claimable(s))
             draft == [tx[s] EXCEPT !.locks = claimed]
  <1>1. claimed \in SUBSET Events /\ \A e \in claimed : pending[e] # NoRow /\ Unlocked(s, e)
    BY DEF Oldest, Claimable, Eligible
  <1>2. tx[s] = NoTx /\ tx[s] \in Drafts
    BY CallKinds DEF StoreInv, ShapeInv, Shape, ClaimBatch
  <1>3. /\ draft \in Drafts /\ draft.locks = claimed
        /\ draft.usage = NoRow /\ draft.gone = {} /\ draft.posted = {}
        /\ \A e \in Events : draft.put[e] = NoRow
    BY <1>1, <1>2 DEF Drafts, NoTx
  <1>4. /\ tx' = [tx EXCEPT ![s] = draft]
        /\ pc' = [pc EXCEPT ![s] = "claimed"]
        /\ call' = [call EXCEPT ![s] = ProcessCall]
        /\ UNCHANGED <<tables, broken, clock, admission, budget, history>>
    BY DEF ClaimBatch, Goto
  <1> HIDE DEF draft, claimed
  <1>5. TypeOK'
    BY <1>3, <1>4 DEF StoreInv, TypeOK, Steps, tables, budget, history
  <1>6. /\ pc'[s] = "claimed" /\ call'[s] = ProcessCall /\ tx'[s] = draft
        /\ UNCHANGED tables /\ Frame(s)
    BY <1>4 DEF StoreInv, TypeOK, Frame
  <1>7. Shape(s)'
    BY <1>3, <1>6 DEF Shape, ProcessCall
  <1>8. OwnKey(s)' /\ OwnLocks(s)' /\ OwnAdmission(s)'
    BY <1>1, <1>3, <1>6
    DEF OwnKey, OwnLocks, Unlocked, OwnAdmission, Admits, ProcessCall, Frame, tables
  <1>. QED
    BY <1>5, <1>6, <1>7, <1>8, LocalStep

\* The draft of a batch that goes on without touching its locks stays in shape:
\* what it posts and what it rewrites are rows that it has locked.
LEMMA BatchStep ==
    ASSUME StoreInv, NEW s \in Conns, NEW draft \in Drafts, NEW step \in {"single", "commit"},
           call[s].op = "process", pc[s] # "idle",
           draft.usage = NoRow, draft.locks = tx[s].locks,
           draft.posted = draft.gone, draft.gone \subseteq draft.locks,
           \A e \in Events : draft.put[e] # NoRow => e \in draft.locks,
           tx' = [tx EXCEPT ![s] = draft], pc' = [pc EXCEPT ![s] = step],
           UNCHANGED <<tables, broken, clock, admission, call, budget, history>>
    PROVE  StoreInv'
  <1>1. TypeOK'
    BY DEF StoreInv, TypeOK, Steps, tables, budget, history
  <1>2. /\ pc'[s] = step /\ call'[s] = call[s] /\ tx'[s] = draft
        /\ UNCHANGED tables /\ Frame(s)
    BY DEF StoreInv, TypeOK, Frame
  <1>3. Shape(s)'
    BY <1>2 DEF Shape
  <1>4. OwnKey(s)' /\ OwnLocks(s)' /\ OwnAdmission(s)'
    BY <1>2
    DEF StoreInv, LockInv, OwnKey, OwnLocks, Unlocked, OwnAdmission, Admits, Frame, tables
  <1>. QED
    BY <1>1, <1>2, <1>3, <1>4, LocalStep

\* The bulk statements post exactly the rows they remove.
LEMMA PostBulkInv ==
    ASSUME StoreInv, NEW s \in Conns, PostBulk(s)
    PROVE  StoreInv'
  <1>1. call[s].op = "process" /\ pc[s] = "claimed" /\ tx[s] \in Drafts /\ Shape(s)
    BY CallKinds DEF StoreInv, ShapeInv, Shape, PostBulk
  <1>2. CASE tx[s].locks \cap broken = {}
    <2> DEFINE draft == [tx[s] EXCEPT !.posted = tx[s].locks, !.gone = tx[s].locks]
    <2>1. /\ draft \in Drafts /\ draft.usage = NoRow /\ draft.locks = tx[s].locks
          /\ draft.posted = draft.gone /\ draft.gone \subseteq draft.locks
          /\ \A e \in Events : draft.put[e] # NoRow => e \in draft.locks
      BY <1>1 DEF Drafts, Shape
    <2>2. /\ tx' = [tx EXCEPT ![s] = draft] /\ pc' = [pc EXCEPT ![s] = "commit"]
          /\ UNCHANGED <<tables, broken, clock, admission, call, budget, history>>
      BY <1>1, <1>2 DEF PostBulk, Goto, StoreInv, TypeOK
    <2>. HIDE DEF draft
    <2>. QED
      BY <1>1, <2>1, <2>2, BatchStep
  <1>3. CASE tx[s].locks \cap broken # {}
    <2>1. /\ tx' = [tx EXCEPT ![s] = tx[s]] /\ pc' = [pc EXCEPT ![s] = "single"]
          /\ UNCHANGED <<tables, broken, clock, admission, call, budget, history>>
      BY <1>1, <1>3 DEF PostBulk, Goto, StoreInv, TypeOK
    <2>. QED
      BY <1>1, <2>1, BatchStep DEF Shape
  <1>. QED
    BY <1>2, <1>3

\* One turn of processIndividually touches one locked row.
LEMMA PostOneInv ==
    ASSUME StoreInv, NEW s \in Conns, PostOne(s)
    PROVE  StoreInv'
  <1>1. call[s].op = "process" /\ pc[s] = "single" /\ tx[s] \in Drafts /\ Shape(s)
    BY CallKinds DEF StoreInv, ShapeInv, Shape, PostOne
  <1>2. PICK e \in Remaining(s) :
          /\ IF e \in broken
             THEN \E code \in Codes :
                    tx' = [tx EXCEPT ![s].put[e] = CountedFailure(e, code)]
             ELSE tx' = [tx EXCEPT ![s] = PostRemovingRow(s, e)]
          /\ Goto(s, IF Remaining(s) = {e} THEN "commit" ELSE "single")
    BY DEF PostOne
  <1>3. e \in tx[s].locks /\ e \in Events
    BY <1>1, <1>2 DEF Remaining, Drafts
  <1>4. pending[e] \in PendingRow
    BY <1>3 DEF StoreInv, TypeOK, LockInv
  <1> DEFINE step == IF Remaining(s) = {e} THEN "commit" ELSE "single"
  <1>5. /\ step \in {"single", "commit"} /\ pc' = [pc EXCEPT ![s] = step]
        /\ UNCHANGED <<tables, broken, clock, admission, call, budget, history>>
    BY <1>2 DEF PostOne, Goto
  <1> HIDE DEF step
  <1>6. CASE e \in broken
    <2>1. PICK code \in Codes : tx' = [tx EXCEPT ![s].put[e] = CountedFailure(e, code)]
      BY <1>2, <1>6
    <2> DEFINE draft == [tx[s] EXCEPT !.put[e] = CountedFailure(e, code)]
    <2>2. CountedFailure(e, code) \in PendingRow
      <3>1. pending[e].failures \in Int
        BY <1>4 DEF PendingRow
      <3>2. pending[e].failures + 1 \in Int
        BY <3>1
      <3> DEFINE failures == pending[e].failures + 1
      <3>3. CountedFailure(e, code) = [pending[e] EXCEPT !.failures = failures, !.code = code]
        BY DEF CountedFailure
      <3> HIDE DEF failures
      <3>4. failures \in Int
        BY <3>2 DEF failures
      <3>. QED
        BY <1>4, <3>3, <3>4 DEF PendingRow
    <2>3. /\ draft \in Drafts /\ draft.usage = NoRow /\ draft.locks = tx[s].locks
          /\ draft.posted = draft.gone /\ draft.gone \subseteq draft.locks
          /\ \A f \in Events : draft.put[f] # NoRow => f \in draft.locks
      BY <1>1, <1>3, <2>2 DEF Drafts, Shape
    <2>4. tx' = [tx EXCEPT ![s] = draft]
      BY <2>1
    <2>. HIDE DEF draft
    <2>. QED
      BY <1>1, <1>5, <2>3, <2>4, BatchStep
  <1>7. CASE e \notin broken
    <2> DEFINE draft == PostRemovingRow(s, e)
    <2>1. /\ draft \in Drafts /\ draft.usage = NoRow /\ draft.locks = tx[s].locks
          /\ draft.posted = draft.gone /\ draft.gone \subseteq draft.locks
          /\ \A f \in Events : draft.put[f] # NoRow => f \in draft.locks
      BY <1>1, <1>3 DEF PostRemovingRow, Drafts, Shape
    <2>2. tx' = [tx EXCEPT ![s] = draft]
      BY <1>2, <1>7
    <2>. HIDE DEF draft
    <2>. QED
      BY <1>1, <1>5, <2>1, <2>2, BatchStep
  <1>. QED
    BY <1>6, <1>7
\* A transaction sees rows of the right type.
LEMMA SeenTypes ==
    ASSUME TypeOK, NEW s \in Conns, NEW e \in Events
    PROVE  /\ UsageSeen(s, e) \in UsageRow \cup {NoRow}
           /\ PendingSeen(s, e) \in PendingRow \cup {NoRow}
  <1>1. tx[s] \in Drafts /\ usage[e] \in UsageRow \cup {NoRow}
        /\ pending[e] \in PendingRow \cup {NoRow}
    BY DEF TypeOK
  <1>. QED
    BY <1>1 DEF UsageSeen, PendingSeen, Drafts

\* readEvent returns a complete event or nothing.
LEMMA ReadEventType ==
    ASSUME TypeOK, NEW s \in Conns, NEW e \in Events
    PROVE  ReadEvent(s, e) \in EventView \cup {NoRow}
  <1>2. UsageSeen(s, e) \in UsageRow \cup {NoRow}
    BY SeenTypes
  <1>3. PendingSeen(s, e) \in PendingRow \cup {NoRow}
    BY SeenTypes
  <1>4. ASSUME NEW row \in UsageRow, NEW b \in BOOLEAN, NEW item \in PendingRow \cup {NoRow}
        PROVE  View(row, b, item) \in EventView
    <2>1. item # NoRow => item.failures \in Int /\ item.gen \in Int
      BY <1>4 DEF PendingRow
    <2>. QED
      BY <1>4, <2>1 DEF View, EventView
  <1>5. (e \in ledger \cup tx[s].posted) \in BOOLEAN
    OBVIOUS
  <1>. QED
    BY <1>2, <1>3, <1>4, <1>5 DEF ReadEvent

\* Reading the event back completes a draft without changing what it writes.
LEMMA ReadStep ==
    ASSUME StoreInv, NEW s \in Conns, NEW view \in EventView, pc[s] = "read",
           tx' = [tx EXCEPT ![s].answer = view], pc' = [pc EXCEPT ![s] = "commit"],
           UNCHANGED <<tables, broken, clock, admission, call, budget, history>>
    PROVE  StoreInv'
  <1> DEFINE draft == [tx[s] EXCEPT !.answer = view]
  <1>1. Shape(s) /\ OwnKey(s) /\ OwnLocks(s) /\ OwnAdmission(s) /\ tx[s] \in Drafts
    BY CallKinds
    DEF StoreInv, ShapeInv, KeyInv, OwnKey, LockInv, OwnLocks, Unlocked,
        AdmissionInv, RoomInv, OwnAdmission
  <1>2. /\ draft \in Drafts /\ draft.answer # NoRow
        /\ draft.usage = tx[s].usage /\ draft.put = tx[s].put
        /\ draft.gone = tx[s].gone /\ draft.posted = tx[s].posted
        /\ draft.locks = tx[s].locks
    BY <1>1, NoRowAssumption DEF Drafts
  <1>3. tx' = [tx EXCEPT ![s] = draft]
    OBVIOUS
  <1> HIDE DEF draft
  <1>4. TypeOK'
    BY <1>2, <1>3 DEF StoreInv, TypeOK, Steps, tables, budget, history
  <1>5. /\ pc'[s] = "commit" /\ call'[s] = call[s] /\ tx'[s] = draft
        /\ admission' = admission /\ UNCHANGED tables /\ Frame(s)
    BY <1>3 DEF StoreInv, TypeOK, Frame
  <1>6. Shape(s)'
    BY <1>1, <1>2, <1>5 DEF Shape
  <1>7. OwnKey(s)' /\ OwnLocks(s)'
    BY <1>1, <1>2, <1>5 DEF OwnKey, OwnLocks, Unlocked, Frame, tables
  <1>8. OwnAdmission(s)'
    BY <1>1, <1>2, <1>5, TablesKept DEF OwnAdmission, Admits
  <1>. QED
    BY <1>4, <1>5, <1>6, <1>7, <1>8, LocalStep

\* Both readers end in a rollback or in a draft ready to commit.
LEMMA ReadInv ==
    ASSUME StoreInv, NEW s \in Conns, ReadAccepted(s) \/ ReadRetried(s)
    PROVE  StoreInv'
  <1>1. CASE Rollback(s)
    BY <1>1, RollbackInv DEF ReadAccepted, ReadRetried
  <1>2. CASE ~Rollback(s)
    <2> DEFINE view == ReadEvent(s, call[s].id)
    <2>1. call[s].id \in Events
      BY CallKinds DEF StoreInv, ReadAccepted, ReadRetried, AcceptCall, RetryCall
    <2>2. /\ view # NoRow /\ pc[s] = "read"
          /\ tx' = [tx EXCEPT ![s].answer = view]
          /\ pc' = [pc EXCEPT ![s] = "commit"]
          /\ UNCHANGED <<tables, broken, clock, admission, call, budget, history>>
      BY <1>2 DEF ReadAccepted, ReadRetried, StoredAnswer, Goto
    <2>3. view \in EventView
      BY <2>1, <2>2, ReadEventType DEF StoreInv
    <2> HIDE DEF view
    <2>. QED
      BY <2>2, <2>3, ReadStep
  <1>. QED
    BY <1>1, <1>2

\* A retry goes on with rows locked that exist and that nobody else has locked.
LEMMA RetryStep ==
    ASSUME StoreInv, NEW s \in Conns, NEW draft \in Drafts, NEW step \in {"update", "read"},
           call[s].op = "retry", call[s].id \in Events,
           draft.usage = NoRow, draft.posted = draft.gone,
           draft.gone \subseteq draft.locks,
           \A e \in Events : draft.put[e] # NoRow => e \in draft.locks,
           \A e \in draft.locks : pending[e] # NoRow /\ Unlocked(s, e),
           step = "update" => draft = [NoTx EXCEPT !.locks = {call[s].id}],
           tx' = [tx EXCEPT ![s] = draft], pc' = [pc EXCEPT ![s] = step],
           clock' \in Nat,
           UNCHANGED <<tables, broken, admission, call, budget, history>>
    PROVE  StoreInv'
  <1>1. TypeOK'
    BY DEF StoreInv, TypeOK, Steps, tables, budget, history
  <1>2. /\ pc'[s] = step /\ call'[s] = call[s] /\ tx'[s] = draft
        /\ UNCHANGED tables /\ Frame(s)
    BY DEF StoreInv, TypeOK, Frame
  <1>3. Shape(s)'
    BY <1>2 DEF Shape
  <1>4. OwnKey(s)' /\ OwnLocks(s)' /\ OwnAdmission(s)'
    BY <1>2 DEF OwnKey, OwnLocks, Unlocked, OwnAdmission, Admits, Frame, tables
  <1>. QED
    BY <1>1, <1>2, <1>3, <1>4, LocalStep

\* A retry locks the row it finds before it decides.
LEMMA LockRowInv ==
    ASSUME StoreInv, NEW s \in Conns, LockRow(s)
    PROVE  StoreInv'
  <1> DEFINE id == call[s].id
             held == [NoTx EXCEPT !.locks = {id}]
  <1>1. /\ call[s].op = "retry" /\ id \in Events /\ pc[s] = "rowlock"
        /\ tx[s] \in Drafts /\ tx[s] = NoTx /\ Unlocked(s, id) /\ clock \in Nat
    BY CallKinds DEF StoreInv, TypeOK, ShapeInv, Shape, LockRow, RetryCall
  <1>2. UNCHANGED <<broken, budget, history>>
    BY DEF LockRow
  <1>3. CASE Rollback(s)
    BY <1>2, <1>3, RollbackInv
  <1>4. CASE pending[id] = NoRow /\ ~Rollback(s)
    <2>1. /\ tx' = [tx EXCEPT ![s] = tx[s]] /\ pc' = [pc EXCEPT ![s] = "read"]
          /\ UNCHANGED <<tables, clock, admission, call>>
      BY <1>4 DEF LockRow, Goto, StoreInv, TypeOK
    <2>2. /\ tx[s].usage = NoRow /\ tx[s].posted = tx[s].gone
          /\ tx[s].gone \subseteq tx[s].locks /\ tx[s].locks = {}
          /\ \A e \in Events : tx[s].put[e] # NoRow => e \in tx[s].locks
      BY <1>1 DEF NoTx
    <2>. QED
      BY <1>1, <1>2, <2>1, <2>2, RetryStep
  <1>5. CASE pending[id] # NoRow /\ ~Rollback(s)
    <2>1. PICK step \in {"update", "read"} : pc' = [pc EXCEPT ![s] = step]
      BY <1>5 DEF LockRow, Goto
    <2>2. /\ tx' = [tx EXCEPT ![s] = held]
          /\ UNCHANGED <<tables, clock, admission, call>>
      BY <1>1, <1>5 DEF LockRow, LockedByRetry
    <2>3. /\ held \in Drafts /\ held.usage = NoRow /\ held.posted = held.gone
          /\ held.gone \subseteq held.locks /\ held.locks = {id}
          /\ \A e \in Events : held.put[e] # NoRow => e \in held.locks
      BY <1>1 DEF Drafts, NoTx
    <2>. QED
      BY <1>1, <1>2, <1>5, <2>1, <2>2, <2>3, RetryStep
  <1>. QED
    BY <1>3, <1>4, <1>5

\* A reactivated row is a queue row.
LEMMA ReactivatedType ==
    ASSUME TypeOK, NEW e \in Events, pending[e] # NoRow
    PROVE  Reactivated(e) \in PendingRow
  <1>1. pending[e].gen \in Int /\ clock \in Nat
    BY DEF TypeOK, PendingRow
  <1>2. pending[e].gen + 1 \in Int
    BY <1>1
  <1>. QED
    BY <1>1, <1>2 DEF Reactivated, PendingRow

\* The row that a retry rewrites is the one it has locked.
LEMMA UpdateRowInv ==
    ASSUME StoreInv, NEW s \in Conns, UpdateRow(s)
    PROVE  StoreInv'
  <1> DEFINE id   == call[s].id
             item == Reactivated(id)
             put  == [tx[s].put EXCEPT ![id] = item]
             redo == [tx[s] EXCEPT !.locks = {id}, !.put = put]
  <1>1. /\ call[s].op = "retry" /\ id \in Events /\ Unlocked(s, id) /\ clock \in Nat
        /\ tx[s] \in Drafts /\ tx[s] = [NoTx EXCEPT !.locks = {id}]
    BY CallKinds DEF StoreInv, TypeOK, ShapeInv, Shape, UpdateRow, RetryCall
  <1>2. pending[id] # NoRow
    <2>1. id \in tx[s].locks
      BY <1>1 DEF NoTx
    <2>. QED
      BY <2>1 DEF StoreInv, LockInv
  <1>3. item \in PendingRow
    BY <1>1, <1>2, ReactivatedType DEF StoreInv
  <1>4. /\ tx' = [tx EXCEPT ![s] = redo] /\ pc' = [pc EXCEPT ![s] = "read"]
        /\ clock' = clock + 1
        /\ UNCHANGED <<tables, broken, admission, call, budget, history>>
    BY <1>1, <1>2 DEF UpdateRow, Goto, Drafts
  <1> HIDE DEF item
  <1>5. /\ put \in [Events -> PendingRow \cup {NoRow}]
        /\ \A e \in Events : put[e] # NoRow => e = id
    BY <1>1, <1>3 DEF Drafts, NoTx
  <1> HIDE DEF put
  <1>6. redo \in Drafts
    BY <1>1, <1>5 DEF Drafts
  <1>7. /\ redo.usage = NoRow /\ redo.posted = {} /\ redo.gone = {}
        /\ redo.locks = {id} /\ redo.put = put
    BY <1>1 DEF NoTx
  <1> HIDE DEF redo
  <1>8. clock' \in Nat
    BY <1>1, <1>4
  <1>. QED
    BY <1>1, <1>2, <1>4, <1>5, <1>6, <1>7, <1>8, RetryStep

\* A failed call leaves its session with draft and locks.
LEMMA FaultInv ==
    ASSUME StoreInv, NEW s \in Conns, Fault(s)
    PROVE  StoreInv'
  <1> DEFINE step == IF pc[s] = "commit" THEN "indoubt" ELSE "doomed"
  <1>1. /\ pc[s] # "idle" /\ pc' = [pc EXCEPT ![s] = step] /\ step \in {"doomed", "indoubt"}
        /\ step = "indoubt" => pc[s] = "commit"
        /\ UNCHANGED <<tables, broken, clock, admission, call, tx, calls, history>>
        /\ faults' = faults + 1 /\ faults < MaxFaults
    BY DEF Fault, Attended, Goto, CountOnError, history
  <1> HIDE DEF step
  <1>2. TypeOK'
    BY <1>1, LimitsAssumption DEF StoreInv, TypeOK, Steps, tables, history
  <1>3. pc'[s] = step /\ UNCHANGED tables /\ Frame(s)
    BY <1>1 DEF StoreInv, TypeOK, Frame
  <1>4. Shape(s) /\ OwnKey(s) /\ OwnLocks(s) /\ OwnAdmission(s)
    BY DEF StoreInv, ShapeInv, KeyInv, OwnKey, LockInv, OwnLocks, Unlocked,
           AdmissionInv, RoomInv, OwnAdmission
  <1>5. Shape(s)'
    BY <1>1, <1>3, <1>4 DEF Shape
  <1>6. OwnKey(s)' /\ OwnLocks(s)' /\ OwnAdmission(s)'
    BY <1>1, <1>3, <1>4, TablesKept
    DEF OwnKey, OwnLocks, Unlocked, OwnAdmission, Admits, tables
  <1>. QED
    BY <1>2, <1>3, <1>5, <1>6, LocalStep

\* A crash forgets every draft and frees every lock.
LEMMA CrashInv ==
    ASSUME StoreInv, Crash
    PROVE  StoreInv'
  <1>1. TypeOK'
    BY LimitsAssumption
    DEF Crash, StoreInv, TypeOK, Drafts, NoTx, NoCall, Steps, tables, history
  <1>2. \A s \in Conns : pc'[s] = "idle" /\ call'[s] = NoCall /\ tx'[s] = NoTx
    BY DEF Crash
  <1>3. ShapeInv' /\ KeyInv' /\ LockInv' /\ AdmissionInv' /\ RoomInv'
    BY <1>2 DEF ShapeInv, Shape, KeyInv, LockInv, AdmissionInv, RoomInv, Admits, NoTx, NoCall
  <1>4. OneHome' /\ WithinCapacity'
    BY TablesKept DEF Crash
  <1>. QED
    BY <1>1, <1>3, <1>4 DEF StoreInv

\* The end of a transaction of s is judged by what it does to the tables.
LEMMA ClosingStep ==
    ASSUME StoreInv, NEW s \in Conns, Close(s), TypeOK', OneHome', WithinCapacity',
           \A t \in Conns \ {s} :
              /\ tx[t].usage # NoRow => usage'[call[t].id] = NoRow
              /\ \A e \in tx[t].locks : pending'[e] # NoRow
              /\ pc[t] = "enqueue" \/ Admits(t) => Cardinality(Queue') < MaxPending
    PROVE  StoreInv'
  <1>1. /\ pc'[s] = "idle" /\ call'[s] = NoCall /\ tx'[s] = NoTx /\ Frame(s)
    BY DEF StoreInv, TypeOK, Close, Frame
  <1>2. ShapeInv'
    <2> SUFFICES ASSUME NEW t \in Conns PROVE Shape(t)'
      BY DEF ShapeInv
    <2>1. CASE t = s
      BY <1>1, <2>1 DEF Shape, NoCall
    <2>2. CASE t # s
      BY <1>1, <2>2 DEF StoreInv, ShapeInv, Shape, Frame
    <2>. QED
      BY <2>1, <2>2
  <1>3. KeyInv'
    BY <1>1 DEF StoreInv, KeyInv, Frame, NoTx
  <1>4. LockInv'
    BY <1>1 DEF StoreInv, LockInv, Frame, NoTx
  <1>5. AdmissionInv' /\ RoomInv'
    BY <1>1 DEF StoreInv, AdmissionInv, RoomInv, Admits, Frame, NoCall
  <1>. QED
    BY <1>2, <1>3, <1>4, <1>5 DEF StoreInv

\* What a commit makes visible keeps every table invariant.
LEMMA ApplyInv ==
    ASSUME StoreInv, NEW s \in Conns, pc[s] \in {"commit", "indoubt"}, Apply(s), TypeOK'
    PROVE  StoreInv'
  <1> DEFINE id == call[s].id
  <1>1. /\ Shape(s) /\ tx[s] \in Drafts /\ call[s].op \in {"accept", "retry", "process"}
        /\ call[s].op = "accept" => id \in Events
    BY CallKinds DEF StoreInv, ShapeInv, Shape, AcceptCall
  <1>2. /\ usage' = [e \in Events |-> UsageSeen(s, e)]
        /\ pending' = [e \in Events |-> PendingSeen(s, e)]
        /\ ledger' = ledger \cup tx[s].posted
        /\ Close(s)
    BY DEF Apply
  <1>3. /\ usage = [e \in Events |-> usage[e]]
        /\ pending = [e \in Events |-> pending[e]]
    BY DEF StoreInv, TypeOK
  <1>4. CASE call[s].op = "accept" /\ tx[s].usage # NoRow
    <2>1. /\ id \in Events /\ tx[s].put[id] # NoRow /\ tx[s].gone = {} /\ tx[s].posted = {}
          /\ \A e \in Events : e # id => tx[s].put[e] = NoRow
      BY <1>1, <1>4 DEF Shape
    <2>2. /\ usage'[id] # NoRow /\ pending'[id] # NoRow /\ ledger' = ledger
          /\ \A e \in Events : e # id => usage'[e] = usage[e] /\ pending'[e] = pending[e]
      BY <1>2, <1>4, <2>1 DEF UsageSeen, PendingSeen
    <2>3. usage[id] = NoRow /\ pending[id] = NoRow /\ id \notin ledger
      BY <1>4, <2>1 DEF StoreInv, KeyInv, OneHome
    <2>4. OneHome'
      BY <2>1, <2>2, <2>3 DEF StoreInv, OneHome
    <2>5. Queue' = Queue \cup {id} /\ id \notin Queue
      BY <2>1, <2>2, <2>3 DEF Queue
    <2>6. Cardinality(Queue) < MaxPending /\ admission = s
      BY <1>4, <2>1 DEF StoreInv, RoomInv, AdmissionInv, Admits
    <2>7. WithinCapacity'
      <3>1. Cardinality(Queue \cup {id}) = Cardinality(Queue) + 1
        BY <2>5, QueueCount, FS_AddElement
      <3>. QED
        BY <3>1, <2>5, <2>6, QueueCount, LimitsAssumption DEF WithinCapacity
    <2>8. ASSUME NEW t \in Conns \ {s}
          PROVE  /\ tx[t].usage # NoRow => usage'[call[t].id] = NoRow
                 /\ \A e \in tx[t].locks : pending'[e] # NoRow
                 /\ ~(pc[t] = "enqueue" \/ Admits(t))
      <3>1. tx[t].usage # NoRow => usage'[call[t].id] = NoRow
        <4> SUFFICES ASSUME tx[t].usage # NoRow PROVE usage'[call[t].id] = NoRow
          OBVIOUS
        <4>1. usage[call[t].id] = NoRow /\ call[t].id # id
          BY <1>4 DEF StoreInv, KeyInv
        <4>2. call[t].op = "accept"
          <5>1. Shape(t) /\ call[t].op \in {"none", "accept", "retry", "process"}
            BY CallKinds DEF StoreInv, ShapeInv
          <5>. QED
            BY <5>1, CallKinds DEF StoreInv, Shape, NoTx, NoCall
        <4>3. call[t].id \in Events
          BY <4>2, CallKinds DEF StoreInv, AcceptCall
        <4>. QED
          BY <4>1, <4>3, <2>2
      <3>2. \A e \in tx[t].locks : e \in Events /\ pending[e] # NoRow
        BY DEF StoreInv, TypeOK, LockInv, Drafts
      <3>3. \A e \in tx[t].locks : pending'[e] # NoRow
        BY <3>2, <2>2
      <3>4. ~(pc[t] = "enqueue" \/ Admits(t))
        BY <2>6 DEF StoreInv, AdmissionInv
      <3>. QED
        BY <3>1, <3>3, <3>4
    <2>. QED
      BY <1>2, <2>4, <2>7, <2>8, ClosingStep
  <1>5. CASE call[s].op = "accept" /\ tx[s].usage = NoRow
    <2>1. /\ tx[s].gone = {} /\ tx[s].posted = {}
          /\ \A e \in Events : tx[s].put[e] = NoRow
      BY <1>1, <1>5 DEF Shape
    <2>2. UNCHANGED tables
      BY <1>2, <1>3, <1>5, <2>1 DEF UsageSeen, PendingSeen, tables
    <2>3. OneHome' /\ WithinCapacity' /\ Queue' = Queue
      BY <2>2, TablesKept
    <2>. QED
      BY <1>2, <2>2, <2>3, ClosingStep DEF StoreInv, KeyInv, LockInv, RoomInv, tables
  <1>6. CASE call[s].op \in {"retry", "process"}
    <2>1. /\ tx[s].usage = NoRow /\ tx[s].posted = tx[s].gone
          /\ tx[s].gone \subseteq tx[s].locks /\ tx[s].locks \subseteq Events
          /\ \A e \in Events : tx[s].put[e] # NoRow => e \in tx[s].locks
      BY <1>1, <1>6 DEF Shape, Drafts
    <2>2. \A e \in tx[s].locks :
            /\ pending[e] # NoRow
            /\ \A t \in Conns \ {s} : e \notin tx[t].locks
      BY DEF StoreInv, LockInv
    <2>3. usage' = usage
      BY <1>2, <1>3, <2>1 DEF UsageSeen
    <2>4. \A e \in Events : (pending'[e] # NoRow) <=> (pending[e] # NoRow /\ e \notin tx[s].gone)
      BY <1>2, <2>1, <2>2 DEF PendingSeen
    <2>5. OneHome'
      BY <1>2, <2>1, <2>2, <2>3, <2>4 DEF StoreInv, OneHome
    <2>6. Queue' \subseteq Queue
      BY <2>4 DEF Queue
    <2>7. Cardinality(Queue') \in Nat /\ Cardinality(Queue') <= Cardinality(Queue)
      BY <2>6, QueueCount, FS_Subset, FS_CardinalityType
    <2>8. WithinCapacity'
      BY <2>7, QueueCount, LimitsAssumption DEF StoreInv, WithinCapacity
    <2>9. ASSUME NEW t \in Conns \ {s}
          PROVE  /\ tx[t].usage # NoRow => usage'[call[t].id] = NoRow
                 /\ \A e \in tx[t].locks : pending'[e] # NoRow
                 /\ pc[t] = "enqueue" \/ Admits(t) => Cardinality(Queue') < MaxPending
      <3>1. tx[t].usage # NoRow => usage'[call[t].id] = NoRow
        BY <2>3 DEF StoreInv, KeyInv
      <3>2. \A e \in tx[t].locks : e \in Events /\ pending[e] # NoRow
        BY DEF StoreInv, TypeOK, LockInv, Drafts
      <3>3. \A e \in tx[t].locks : pending'[e] # NoRow
        BY <3>2, <2>1, <2>2, <2>4
      <3>4. pc[t] = "enqueue" \/ Admits(t) => Cardinality(Queue') < MaxPending
        BY <2>7, QueueCount, LimitsAssumption DEF StoreInv, RoomInv
      <3>. QED
        BY <3>1, <3>3, <3>4
    <2>. QED
      BY <1>2, <2>5, <2>8, <2>9, ClosingStep
  <1>. QED
    BY <1>1, <1>4, <1>5, <1>6
\* A commit writes rows of the right type and closes the session.
LEMMA ApplyTypes ==
    ASSUME StoreInv, NEW s \in Conns, Apply(s)
    PROVE  /\ usage' \in [Events -> UsageRow \cup {NoRow}]
           /\ pending' \in [Events -> PendingRow \cup {NoRow}]
           /\ ledger' \subseteq Events
           /\ admission' \in Conns \cup {NoConn}
           /\ pc' \in [Conns -> Steps]
           /\ call' \in [Conns -> AcceptCall \cup RetryCall \cup {NoCall, ProcessCall}]
           /\ tx' \in [Conns -> Drafts]
           /\ revived' \in [Events -> [RetryGens -> Nat]]
  <1>1. /\ usage' \in [Events -> UsageRow \cup {NoRow}]
        /\ pending' \in [Events -> PendingRow \cup {NoRow}]
    BY SeenTypes DEF StoreInv, Apply
  <1>2. ledger' \subseteq Events
    BY CallKinds DEF StoreInv, Apply, TypeOK, Drafts
  <1>3. NoTx \in Drafts
    BY DEF NoTx, Drafts
  <1>4. revived' \in [Events -> [RetryGens -> Nat]]
    BY CallKinds DEF StoreInv, TypeOK, Apply, RetryCall
  <1>. QED
    BY <1>1, <1>2, <1>3, <1>4 DEF StoreInv, Apply, Close, TypeOK, Steps

\* A confirmed commit also records what the caller is told.
LEMMA CommitInv ==
    ASSUME StoreInv, NEW s \in Conns, Commit(s)
    PROVE  StoreInv'
  <1>1. Apply(s) /\ pc[s] = "commit" /\ UNCHANGED <<broken, clock, budget>>
    BY DEF Commit
  <1>2. /\ Shape(s) /\ tx[s] \in Drafts
        /\ call[s].op \in {"accept", "retry"} => call[s].id \in Events
    BY CallKinds DEF StoreInv, ShapeInv, AcceptCall, RetryCall
  <1>3. quoted' \in [Events -> SUBSET UsageRow]
    <2>1. CASE call[s].op \in {"accept", "retry"}
      <3>1. tx[s].answer.row \in UsageRow
        BY <1>1, <1>2, <2>1 DEF Shape, Drafts, EventView
      <3>2. quoted' = [quoted EXCEPT ![call[s].id] = @ \cup {tx[s].answer.row}]
        BY <2>1 DEF Commit
      <3>. QED
        BY <1>2, <2>1, <3>1, <3>2 DEF StoreInv, TypeOK
    <2>2. CASE call[s].op \notin {"accept", "retry"}
      BY <2>2 DEF Commit, StoreInv, TypeOK
    <2>. QED
      BY <2>1, <2>2
  <1>4. fresh' \in [Events -> Nat]
    BY <1>2 DEF Commit, StoreInv, TypeOK
  <1>5. reported' \in Nat
    <2>1. Cardinality(tx[s].gone) \in Nat
      BY <1>2, EventsAssumption, FS_Subset, FS_CardinalityType DEF Drafts
    <2>. QED
      BY <2>1 DEF Commit, StoreInv, TypeOK
  <1>6. TypeOK'
    BY <1>1, <1>3, <1>4, <1>5, ApplyTypes DEF StoreInv, TypeOK, budget
  <1>. QED
    BY <1>1, <1>6, ApplyInv

\* A commit that nobody is told of changes the tables in the same way.
LEMMA LateCommitInv ==
    ASSUME StoreInv, NEW s \in Conns, LateCommit(s)
    PROVE  StoreInv'
  <1>1. /\ Apply(s) /\ pc[s] = "indoubt"
        /\ UNCHANGED <<broken, clock, budget, quoted, fresh, reported>>
    BY DEF LateCommit
  <1>2. TypeOK'
    BY <1>1, ApplyTypes DEF StoreInv, TypeOK, budget
  <1>. QED
    BY <1>1, <1>2, ApplyInv

\* Every statement of every call preserves the invariant.
LEMMA NextInv == StoreInv /\ [Next]_vars => StoreInv'
  <1> SUFFICES ASSUME StoreInv, [Next]_vars PROVE StoreInv'
    OBVIOUS
  <1>1. CASE UNCHANGED vars
    <2>1. UNCHANGED <<tables, session, broken, clock, budget, history>>
      BY <1>1 DEF vars
    <2>2. TypeOK'
      BY <2>1 DEF StoreInv, TypeOK, tables, session, budget, history
    <2>3. Queue' = Queue /\ OneHome' /\ WithinCapacity'
      BY <2>1, TablesKept
    <2>4. ShapeInv' /\ KeyInv' /\ LockInv'
      BY <2>1 DEF StoreInv, ShapeInv, Shape, KeyInv, LockInv, tables, session
    <2>5. AdmissionInv' /\ RoomInv'
      BY <2>1, <2>3 DEF StoreInv, AdmissionInv, RoomInv, Admits, session
    <2>. QED
      BY <2>2, <2>3, <2>4, <2>5 DEF StoreInv
  <1>2. ASSUME NEW s \in Conns, Statement(s) PROVE StoreInv'
    BY <1>2, InsertUsageInv, LockAdmissionInv, CountQueueInv, EnqueueInv, ReadInv,
       PostBulkInv, PostOneInv, LockRowInv, UpdateRowInv, CommitInv
    DEF Statement
  <1>3. ASSUME NEW s \in Conns, Fault(s) \/ Reap(s) \/ LateCommit(s) PROVE StoreInv'
    BY <1>3, FaultInv, RollbackInv, LateCommitInv DEF Reap
  <1>4. ASSUME NEW s \in Conns, ClaimBatch(s) \/ EmptyBatch(s) PROVE StoreInv'
    BY <1>1, <1>4, ClaimBatchInv DEF EmptyBatch
  <1>. QED
    BY <1>1, <1>2, <1>3, <1>4, BeginInv, BystanderInv, CrashInv DEF Next

\* The strengthened invariant holds in every reachable state.
THEOREM StoreInvariant == Spec => []StoreInv
  <1>1. Init => StoreInv
    BY InitInv
  <1>2. StoreInv /\ [Next]_vars => StoreInv'
    BY NextInv
  <1>. QED
    BY <1>1, <1>2, PTL DEF Spec

\* No statement of any call, however transactions interleave or die, leaves a
\* row, a lock or a draft that the code could not interpret.
THEOREM TypeCorrect == Spec => []TypeOK
  <1>1. StoreInv => TypeOK
    BY DEF StoreInv
  <1>. QED
    BY <1>1, StoreInvariant, PTL

\* Accept and ProcessBatch keep every accepted event in exactly one of the queue
\* and the ledger.
THEOREM ExactlyOneHome == Spec => []OneHome
  <1>1. StoreInv => OneHome
    BY DEF StoreInv
  <1>. QED
    BY <1>1, StoreInvariant, PTL

\* The advisory lock with the count under it bounds the queue for any number of
\* connections and any limit.
THEOREM CapacityBound == Spec => []WithinCapacity
  <1>1. StoreInv => WithinCapacity
    BY DEF StoreInv
  <1>. QED
    BY <1>1, StoreInvariant, PTL
-----------------------------------------------------------------------------
(* 3. What callers are told and what a commit writes. *)

\* A queue row without failures, in generation g.
Unfailed(item, g) == item.failures = 0 /\ item.code = "" /\ item.gen = g

\* An admission is payable, freezes the exact product and queues a new row.
AcceptDraft(s) ==
    call[s].op = "accept" =>
        /\ ~Overflows(call[s].input.units, call[s].price)
        /\ tx[s].usage # NoRow => tx[s].usage = Priced(call[s].input, call[s].price)
        /\ \A e \in Events : tx[s].put[e] # NoRow => Unfailed(tx[s].put[e], 0)

\* A retry rewrites the quarantined row of its own generation, and only that.
RetryDraft(s) ==
    call[s].op = "retry" =>
        /\ ValidGeneration(call[s].gen)
        /\ tx[s].gone = {}
        /\ pc[s] = "update" =>
             /\ pending[call[s].id].failures = Quarantine
             /\ pending[call[s].id].gen = call[s].gen
        /\ \A e \in Events : tx[s].put[e] # NoRow =>
             /\ e = call[s].id
             /\ pending[e].failures = Quarantine
             /\ pending[e].gen = call[s].gen
             /\ Unfailed(tx[s].put[e], call[s].gen + 1)

\* item is row after one more failure.
OneMoreFailure(item, row) ==
    /\ item.failures = row.failures + 1
    /\ item.code \in Codes
    /\ item.gen = row.gen

\* A batch holds eligible rows, at most BatchLimit of them; each is posted or
\* charged one failure, never both.
BatchDraft(s) ==
    call[s].op = "process" =>
        /\ \A e \in tx[s].locks : pending[e].failures < Quarantine
        /\ Cardinality(tx[s].locks) <= BatchLimit
        /\ pc[s] = "claimed" => \A e \in Events : tx[s].put[e] = NoRow
        /\ \A e \in Events : tx[s].put[e] # NoRow =>
             e \notin tx[s].gone /\ OneMoreFailure(tx[s].put[e], pending[e])

\* The answer that waits for its commit quotes the row that is or will be stored.
AnswerDraft(s) ==
    pc[s] = "commit" /\ call[s].op \in {"accept", "retry"} =>
        tx[s].answer.row = UsageSeen(s, call[s].id)

Draft(s) == AcceptDraft(s) /\ RetryDraft(s) /\ BatchDraft(s) /\ AnswerDraft(s)

DraftInv == \A s \in Conns : Draft(s)

\* The committed rows satisfy the CHECK constraints.
TableInv ==
    \A e \in Events :
        /\ usage[e] # NoRow => UsageChecks(usage[e])
        /\ pending[e] # NoRow => PendingChecks(pending[e])

\* n is the enqueued_at of e, committed or in some draft.
HasStamp(e, n) ==
    \/ pending[e] # NoRow /\ pending[e].at = n
    \/ \E s \in Conns : tx[s].put[e] # NoRow /\ tx[s].put[e].at = n

\* clock_timestamp() never repeats: no two events share an enqueued_at.
StampInv ==
    \A e \in Events, n \in Nat : HasStamp(e, n) =>
        /\ n < clock
        /\ \A f \in Events : HasStamp(f, n) => f = e

DraftsInv == DraftInv /\ TableInv /\ StampInv

\* What callers were told about e is what the tables say of e.
ToldInv ==
    \A e \in Events :
        /\ quoted[e] \subseteq {usage[e]}
        /\ fresh[e] <= 1
        /\ usage[e] = NoRow => fresh[e] = 0

\* Every generation of a queued event was reached by one retry that named the
\* generation before; an event that does not exist was never reactivated.
GrantInv ==
    /\ OneReactivation
    /\ \A e \in Events, g \in RetryGens : usage[e] = NoRow => revived[e][g] = 0

SafetyInv == DraftsInv /\ ToldInv /\ GrantInv /\ CountsConfirmed
-----------------------------------------------------------------------------
\* A nonempty set of numbers has a least one.
LEMMA LeastNumber ==
    ASSUME NEW T, T \subseteq Nat, T # {}
    PROVE  \E x \in T : \A y \in T : x <= y
  <1> DEFINE R == OpToRel(<, Nat)
  <1>1. IsWellFoundedOn(R, Nat)
    BY NatLessThanWellFounded
  <1>2. \A x, y \in Nat : x < y => <<x, y>> \in R
    BY DEF OpToRel
  <1> HIDE DEF R
  <1>3. PICK x \in T : \A y \in T : ~(<<y, x>> \in R)
    BY <1>1, WFMin
  <1>4. ASSUME NEW y \in T PROVE x <= y
    <2>1. x \in Nat /\ y \in Nat
      OBVIOUS
    <2>2. ~(y < x)
      BY <1>2, <1>3, <2>1
    <2>. QED
      BY <2>1, <2>2
  <1>. QED
    BY <1>4

\* A commit writes one of three things: a new event with its queue row, nothing,
\* or the successors of rows that the transaction has locked.
CommitsAdmission(s) ==
    LET id == call[s].id IN
    /\ call[s].op = "accept" /\ tx[s].usage # NoRow
    /\ id \in Events /\ tx[s].put[id] # NoRow
    /\ usage[id] = NoRow /\ pending[id] = NoRow /\ id \notin ledger
    /\ usage' = [usage EXCEPT ![id] = tx[s].usage]
    /\ pending' = [pending EXCEPT ![id] = tx[s].put[id]]
    /\ ledger' = ledger

CommitsNothing(s) ==
    /\ call[s].op = "accept" /\ tx[s].usage = NoRow
    /\ UNCHANGED <<usage, pending, ledger>>

CommitsSuccessors(s) ==
    /\ call[s].op \in {"retry", "process"}
    /\ tx[s].gone \subseteq tx[s].locks /\ tx[s].locks \subseteq Events
    /\ \A e \in tx[s].locks : pending[e] # NoRow
    /\ \A e \in Events : tx[s].put[e] # NoRow => e \in tx[s].locks
    /\ usage' = usage
    /\ pending' = [e \in Events |-> IF e \in tx[s].gone THEN NoRow
                                    ELSE IF tx[s].put[e] # NoRow THEN tx[s].put[e]
                                    ELSE pending[e]]
    /\ ledger' = ledger \cup tx[s].gone

LEMMA ApplyCases ==
    ASSUME StoreInv, NEW s \in Conns, pc[s] \in {"commit", "indoubt"}, Apply(s)
    PROVE  CommitsAdmission(s) \/ CommitsNothing(s) \/ CommitsSuccessors(s)
  <1> DEFINE id == call[s].id
  <1>1. /\ Shape(s) /\ tx[s] \in Drafts /\ call[s].op \in {"accept", "retry", "process"}
        /\ call[s].op = "accept" => id \in Events
    BY CallKinds DEF StoreInv, ShapeInv, Shape, AcceptCall
  <1>2. /\ usage' = [e \in Events |-> UsageSeen(s, e)]
        /\ pending' = [e \in Events |-> PendingSeen(s, e)]
        /\ ledger' = ledger \cup tx[s].posted
    BY DEF Apply
  <1>3. /\ usage = [e \in Events |-> usage[e]]
        /\ pending = [e \in Events |-> pending[e]]
    BY DEF StoreInv, TypeOK
  <1>4. CASE call[s].op = "accept" /\ tx[s].usage # NoRow
    <2>1. /\ id \in Events /\ tx[s].put[id] # NoRow /\ tx[s].gone = {} /\ tx[s].posted = {}
          /\ \A e \in Events : e # id => tx[s].put[e] = NoRow
      BY <1>1, <1>4 DEF Shape
    <2>2. usage[id] = NoRow /\ pending[id] = NoRow /\ id \notin ledger
      BY <1>4, <2>1 DEF StoreInv, KeyInv, OneHome
    <2>3. usage' = [usage EXCEPT ![id] = tx[s].usage]
      BY <1>2, <1>3, <1>4, <2>1 DEF UsageSeen
    <2>4. pending' = [pending EXCEPT ![id] = tx[s].put[id]]
      BY <1>2, <1>3, <2>1 DEF PendingSeen
    <2>. QED
      BY <1>2, <1>4, <2>1, <2>2, <2>3, <2>4 DEF CommitsAdmission
  <1>5. CASE call[s].op = "accept" /\ tx[s].usage = NoRow
    <2>1. /\ tx[s].gone = {} /\ tx[s].posted = {}
          /\ \A e \in Events : tx[s].put[e] = NoRow
      BY <1>1, <1>5 DEF Shape
    <2>. QED
      BY <1>2, <1>3, <1>5, <2>1 DEF UsageSeen, PendingSeen, CommitsNothing
  <1>6. CASE call[s].op \in {"retry", "process"}
    <2>1. /\ tx[s].usage = NoRow /\ tx[s].posted = tx[s].gone
          /\ tx[s].gone \subseteq tx[s].locks /\ tx[s].locks \subseteq Events
          /\ \A e \in Events : tx[s].put[e] # NoRow => e \in tx[s].locks
      BY <1>1, <1>6 DEF Shape, Drafts
    <2>2. \A e \in tx[s].locks : pending[e] # NoRow
      BY DEF StoreInv, LockInv
    <2>3. usage' = usage
      BY <1>2, <1>3, <2>1 DEF UsageSeen
    <2>. QED
      BY <1>2, <1>6, <2>1, <2>2, <2>3 DEF PendingSeen, CommitsSuccessors
  <1>. QED
    BY <1>1, <1>4, <1>5, <1>6

\* A commit keeps every stored charge and every row that another transaction has
\* locked.
LEMMA ApplyKeeps ==
    ASSUME StoreInv, NEW s \in Conns, pc[s] \in {"commit", "indoubt"}, Apply(s)
    PROVE  /\ \A e \in Events : usage[e] # NoRow => usage'[e] = usage[e]
           /\ \A t \in Conns \ {s} : \A e \in tx[t].locks :
                e \in Events /\ pending'[e] = pending[e]
  <1>1. \A t \in Conns \ {s} : \A e \in tx[t].locks :
          e \in Events /\ pending[e] # NoRow /\ e \notin tx[s].locks
    BY DEF StoreInv, TypeOK, LockInv, Drafts
  <1>2. usage \in [Events -> UsageRow \cup {NoRow}] /\ pending \in [Events -> PendingRow \cup {NoRow}]
    BY DEF StoreInv, TypeOK
  <1>3. CASE CommitsAdmission(s)
    BY <1>1, <1>2, <1>3 DEF CommitsAdmission
  <1>4. CASE CommitsNothing(s)
    BY <1>1, <1>4 DEF CommitsNothing
  <1>5. CASE CommitsSuccessors(s)
    BY <1>1, <1>5 DEF CommitsSuccessors
  <1>. QED
    BY <1>3, <1>4, <1>5, ApplyCases
-----------------------------------------------------------------------------
\* The drafts of the other connections survive a step of s that keeps the rows
\* they have locked and the charges they have read.
LEMMA OtherDrafts ==
    ASSUME StoreInv, DraftInv, NEW s \in Conns, Frame(s),
           \A e \in Events : usage[e] # NoRow => usage'[e] = usage[e],
           NEW t \in Conns \ {s},
           \A e \in tx[t].locks : e \in Events /\ pending'[e] = pending[e]
    PROVE  Draft(t)'
  <1>1. pc'[t] = pc[t] /\ call'[t] = call[t] /\ tx'[t] = tx[t]
    BY DEF Frame
  <1>2. Draft(t) /\ Shape(t) /\ tx[t] \in Drafts
    BY CallKinds DEF DraftInv, StoreInv, ShapeInv
  <1>3. AcceptDraft(t)'
    BY <1>1, <1>2 DEF Draft, AcceptDraft
  <1>4. RetryDraft(t)'
    <2>1. pc[t] = "update" => tx[t].locks = {call[t].id}
      BY <1>2 DEF Shape, NoTx
    <2>. QED
      BY <1>1, <1>2, <2>1 DEF Draft, RetryDraft, Shape
  <1>5. BatchDraft(t)'
    BY <1>1, <1>2 DEF Draft, BatchDraft, Shape
  <1>6. AnswerDraft(t)'
    <2> SUFFICES ASSUME pc[t] = "commit", call[t].op \in {"accept", "retry"}
                 PROVE  tx[t].answer.row = UsageSeen(t, call[t].id)'
      BY <1>1 DEF AnswerDraft
    <2>1. /\ tx[t].answer.row = UsageSeen(t, call[t].id)
          /\ tx[t].answer \in EventView /\ call[t].id \in Events
      BY <1>2, CallKinds DEF Draft, AnswerDraft, Shape, Drafts, StoreInv, AcceptCall, RetryCall
    <2>2. tx[t].answer.row # NoRow
      BY <2>1, NoRowAssumption DEF EventView
    <2>. QED
      BY <1>1, <2>1, <2>2 DEF UsageSeen
  <1>. QED
    BY <1>3, <1>4, <1>5, <1>6 DEF Draft

\* A step of s that writes no table is judged by the draft it leaves.
LEMMA LocalDrafts ==
    ASSUME StoreInv, DraftInv, TableInv, NEW s \in Conns, Frame(s), UNCHANGED tables, Draft(s)'
    PROVE  DraftInv' /\ TableInv'
  <1>1. ASSUME NEW t \in Conns \ {s} PROVE Draft(t)'
    <2>1. \A e \in tx[t].locks : e \in Events
      BY DEF StoreInv, TypeOK, Drafts
    <2>. QED
      BY <2>1, OtherDrafts DEF tables
  <1>2. DraftInv'
    BY <1>1 DEF DraftInv
  <1>3. TableInv'
    BY DEF TableInv, UsageChecks, PendingChecks, tables
  <1>. QED
    BY <1>2, <1>3

\* A step gives at most one event a new stamp, and that one is the clock's.
LEMMA StampStep ==
    ASSUME StoreInv, StampInv, NEW id, clock' \in {clock, clock + 1},
           \A e \in Events, n \in Nat : HasStamp(e, n)' =>
              HasStamp(e, n) \/ (e = id /\ n = clock /\ clock' = clock + 1)
    PROVE  StampInv'
  <1>1. clock \in Nat
    BY DEF StoreInv, TypeOK
  <1> SUFFICES ASSUME NEW e \in Events, NEW n \in Nat, HasStamp(e, n)'
               PROVE  n < clock' /\ \A f \in Events : HasStamp(f, n)' => f = e
    BY DEF StampInv
  <1>2. CASE HasStamp(e, n)
    <2>1. n < clock /\ \A f \in Events : HasStamp(f, n) => f = e
      BY <1>2 DEF StampInv
    <2>2. n # clock
      BY <1>1, <2>1
    <2>. QED
      BY <1>1, <2>1, <2>2
  <1>3. CASE ~HasStamp(e, n)
    <2>1. e = id /\ n = clock /\ clock' = clock + 1
      BY <1>3
    <2>2. \A f \in Events : ~HasStamp(f, n)
      BY <1>1, <2>1 DEF StampInv
    <2>. QED
      BY <1>1, <2>1, <2>2
  <1>. QED
    BY <1>2, <1>3

\* Nothing gets a stamp in a step that neither queues nor rewrites a row.
LEMMA StampsKept ==
    ASSUME StoreInv, StampInv, clock' = clock, pending' = pending,
           \A t \in Conns, e \in Events :
              tx'[t].put[e] \in {NoRow, pending[e], tx[t].put[e]}
    PROVE  StampInv'
  <1>1. \A e \in Events, n \in Nat : HasStamp(e, n)' => HasStamp(e, n)
    BY DEF HasStamp
  <1>. QED
    BY <1>1, StampStep
-----------------------------------------------------------------------------
\* Every piece of the initial state satisfies the invariant.
LEMMA SafetyInit == Init => SafetyInv
  <1> SUFFICES ASSUME Init PROVE SafetyInv
    OBVIOUS
  <1>1. DraftInv
    BY DEF Init, DraftInv, Draft, AcceptDraft, RetryDraft, BatchDraft, AnswerDraft, NoCall
  <1>2. TableInv /\ StampInv /\ ToldInv
    BY DEF Init, TableInv, StampInv, HasStamp, ToldInv, NoTx
  <1>4. GrantInv
    BY DEF Init, GrantInv, OneReactivation
  <1>3. CountsConfirmed
    BY FS_EmptySet DEF Init, CountsConfirmed
  <1>. QED
    BY <1>1, <1>2, <1>3, <1>4 DEF SafetyInv, DraftsInv

\* A rollback leaves no draft.
LEMMA RollbackDrafts ==
    ASSUME StoreInv, DraftsInv, NEW s \in Conns, Rollback(s)
    PROVE  DraftsInv'
  <1>1. /\ UNCHANGED tables /\ Frame(s) /\ clock' = clock
        /\ pc'[s] = "idle" /\ call'[s] = NoCall /\ tx'[s] = NoTx
    BY DEF StoreInv, TypeOK, Rollback, Close, Frame
  <1>2. Draft(s)'
    BY <1>1 DEF Draft, AcceptDraft, RetryDraft, BatchDraft, AnswerDraft, NoCall
  <1>3. StampInv'
    BY <1>1, StampsKept DEF DraftsInv, Frame, NoTx, tables
  <1>. QED
    BY <1>1, <1>2, <1>3, LocalDrafts DEF DraftsInv

\* The service checks price and generation before the store is called.
LEMMA BeginDrafts ==
    ASSUME StoreInv, DraftsInv, NEW s \in Conns,
           \/ \E e \in Events, i \in Inputs, r \in Rates : BeginAccept(s, e, i, r)
           \/ \E e \in Events, g \in RetryGens : BeginRetry(s, e, g)
    PROVE  DraftsInv'
  <1> USE DEF BeginAccept, BeginRetry, Goto
  <1>1. UNCHANGED tables /\ Frame(s) /\ clock' = clock /\ tx' = tx /\ tx[s] = NoTx
    BY DEF StoreInv, TypeOK, Frame, ShapeInv, Shape
  <1>2. \/ /\ pc'[s] = "insert" /\ call'[s].op = "accept"
           /\ ~Overflows(call'[s].input.units, call'[s].price)
        \/ pc'[s] = "rowlock" /\ call'[s].op = "retry" /\ ValidGeneration(call'[s].gen)
    BY DEF StoreInv, TypeOK
  <1>3. Draft(s)'
    BY <1>1, <1>2 DEF Draft, AcceptDraft, RetryDraft, BatchDraft, AnswerDraft, NoTx
  <1>4. StampInv'
    BY <1>1, StampsKept DEF DraftsInv, tables
  <1>. QED
    BY <1>1, <1>3, <1>4, LocalDrafts DEF DraftsInv

\* Steps that touch neither table nor session, nor the clock.
LEMMA BystanderDrafts ==
    ASSUME StoreInv, DraftsInv, UNCHANGED <<tables, session, clock>>
    PROVE  DraftsInv'
  <1> USE DEF tables, session
  <1>1. DraftInv'
    BY DEF DraftsInv, DraftInv, Draft, AcceptDraft, RetryDraft, BatchDraft, AnswerDraft, UsageSeen
  <1>2. TableInv'
    BY DEF DraftsInv, TableInv, UsageChecks, PendingChecks
  <1>3. StampInv'
    BY StampsKept DEF DraftsInv
  <1>. QED
    BY <1>1, <1>2, <1>3 DEF DraftsInv

\* A draft that s only moves on with is still right, and so is one whose answer
\* it fills in.
LEMMA MovesOn ==
    ASSUME StoreInv, DraftsInv, NEW s \in Conns, UNCHANGED <<tables, clock, call>>,
           pc' = [pc EXCEPT ![s] = pc'[s]], tx' = [tx EXCEPT ![s] = tx'[s]],
           pc'[s] \notin {"claimed", "update"},
           tx'[s].usage = tx[s].usage, tx'[s].put = tx[s].put, tx'[s].gone = tx[s].gone,
           tx'[s].locks = tx[s].locks,
           admission' = admission \/ (admission = NoConn /\ admission' = s), AnswerDraft(s)'
    PROVE  DraftsInv'
  <1>1. Draft(s)
    BY DEF DraftsInv, DraftInv
  <1>2. Draft(s)'
    BY <1>1 DEF Draft, AcceptDraft, RetryDraft, BatchDraft, tables
  <1>3. Frame(s)
    BY NoConnAssumption DEF StoreInv, TypeOK, Frame
  <1>4. StampInv'
    <2>1. \A t \in Conns : tx'[t].put = tx[t].put
      BY DEF StoreInv, TypeOK
    <2>. QED
      BY <2>1, StampsKept DEF DraftsInv, tables
  <1>. QED
    BY <1>2, <1>3, <1>4, LocalDrafts DEF DraftsInv

LEMMA InsertUsageDrafts ==
    ASSUME StoreInv, DraftsInv, NEW s \in Conns, InsertUsage(s)
    PROVE  DraftsInv'
  <1>1. /\ call[s].op = "accept" /\ tx[s] \in Drafts /\ Shape(s) /\ Draft(s)
        /\ UNCHANGED <<tables, clock, admission, call>>
    BY CallKinds DEF StoreInv, ShapeInv, Shape, InsertUsage, DraftsInv, DraftInv
  <1>2. CASE usage[call[s].id] # NoRow
    <2>1. tx' = tx /\ pc' = [pc EXCEPT ![s] = "read"]
      BY <1>2 DEF InsertUsage, Goto
    <2>2. pc'[s] = "read" /\ tx' = [tx EXCEPT ![s] = tx'[s]]
      BY <2>1 DEF StoreInv, TypeOK
    <2>. QED
      BY <1>1, <2>1, <2>2, MovesOn DEF AnswerDraft
  <1>3. CASE usage[call[s].id] = NoRow
    <2> DEFINE row == Priced(call[s].input, call[s].price)
    <2>1. tx' = [tx EXCEPT ![s].usage = row] /\ pc' = [pc EXCEPT ![s] = "admit"]
      BY <1>3 DEF InsertUsage, Goto
    <2>2. /\ pc'[s] = "admit" /\ Frame(s) /\ call' = call
          /\ tx'[s].usage = row /\ tx'[s].put = tx[s].put
          /\ \A t \in Conns : tx'[t].put = tx[t].put
      BY <1>1, <2>1 DEF StoreInv, TypeOK, Frame, Drafts
    <2>3. Draft(s)'
      BY <1>1, <2>2 DEF Draft, AcceptDraft, RetryDraft, BatchDraft, AnswerDraft
    <2>4. StampInv'
      BY <1>1, <2>2, StampsKept DEF DraftsInv, tables
    <2>. QED
      BY <1>1, <2>2, <2>3, <2>4, LocalDrafts DEF DraftsInv
  <1>. QED
    BY <1>2, <1>3

LEMMA AdmissionDrafts ==
    ASSUME StoreInv, DraftsInv, NEW s \in Conns, LockAdmission(s) \/ CountQueue(s)
    PROVE  DraftsInv'
  <1>1. CASE Rollback(s)
    BY <1>1, RollbackDrafts
  <1>2. CASE ~Rollback(s)
    <2>1. /\ tx' = tx /\ UNCHANGED <<tables, clock, call>>
          /\ admission' = admission \/ (admission = NoConn /\ admission' = s)
          /\ \/ pc' = [pc EXCEPT ![s] = "count"]
             \/ pc' = [pc EXCEPT ![s] = "enqueue"]
      BY <1>2 DEF LockAdmission, CountQueue, Goto, AdmissionFree
    <2>2. /\ pc'[s] \in {"count", "enqueue"} /\ tx' = [tx EXCEPT ![s] = tx'[s]]
          /\ pc' = [pc EXCEPT ![s] = pc'[s]]
      BY <2>1 DEF StoreInv, TypeOK
    <2>3. AnswerDraft(s)'
      BY <2>2 DEF AnswerDraft
    <2>. QED
      BY <2>1, <2>2, <2>3, MovesOn
  <1>. QED
    BY <1>1, <1>2

\* The new queue row takes its stamp from the clock.
LEMMA EnqueueDrafts ==
    ASSUME StoreInv, DraftsInv, NEW s \in Conns, Enqueue(s)
    PROVE  DraftsInv'
  <1> DEFINE id == call[s].id
  <1>1. /\ call[s].op = "accept" /\ id \in Events /\ tx[s] \in Drafts /\ Shape(s) /\ Draft(s)
        /\ UNCHANGED <<tables, admission, call>> /\ clock' = clock + 1 /\ clock \in Nat
    BY CallKinds
    DEF StoreInv, TypeOK, ShapeInv, Shape, Enqueue, DraftsInv, DraftInv, AcceptCall
  <1>2. /\ tx' = [tx EXCEPT ![s].put[id] = NewItem] /\ pc' = [pc EXCEPT ![s] = "read"]
    BY DEF Enqueue, Goto
  <1>3. /\ pc'[s] = "read" /\ Frame(s) /\ call' = call
        /\ tx'[s].usage = tx[s].usage /\ tx'[s].put = [tx[s].put EXCEPT ![id] = NewItem]
    BY <1>1, <1>2 DEF StoreInv, TypeOK, Frame, Drafts
  <1>4. /\ \A e \in Events : tx'[s].put[e] = IF e = id THEN NewItem ELSE tx[s].put[e]
        /\ Unfailed(NewItem, 0) /\ NewItem.at = clock
    BY <1>1, <1>3 DEF Drafts, NewItem, Unfailed
  <1>5. Draft(s)'
    BY <1>1, <1>3, <1>4 DEF Draft, AcceptDraft, RetryDraft, BatchDraft, AnswerDraft, Unfailed
  <1>6. StampInv'
    <2>1. \A e \in Events, n \in Nat : HasStamp(e, n)' =>
            HasStamp(e, n) \/ (e = id /\ n = clock /\ clock' = clock + 1)
      <3> SUFFICES ASSUME NEW e \in Events, NEW n \in Nat, HasStamp(e, n)', ~HasStamp(e, n)
                   PROVE  e = id /\ n = clock
        BY <1>1
      <3>1. pending' = pending
        BY <1>1 DEF tables
      <3>2. PICK t \in Conns : tx'[t].put[e] # NoRow /\ tx'[t].put[e].at = n
        BY <3>1 DEF HasStamp
      <3>3. t = s
        BY <1>3, <3>2 DEF HasStamp, Frame
      <3>. QED
        BY <1>4, <3>2, <3>3 DEF HasStamp
    <2>. QED
      BY <1>1, <2>1, StampStep DEF DraftsInv
  <1>. QED
    BY <1>1, <1>3, <1>5, <1>6, LocalDrafts DEF DraftsInv

\* The answer quotes the row that the transaction sees.
LEMMA ReadDrafts ==
    ASSUME StoreInv, DraftsInv, NEW s \in Conns, ReadAccepted(s) \/ ReadRetried(s)
    PROVE  DraftsInv'
  <1>1. CASE Rollback(s)
    BY <1>1, RollbackDrafts
  <1>2. CASE ~Rollback(s)
    <2> DEFINE view == ReadEvent(s, call[s].id)
    <2>1. /\ view # NoRow /\ tx' = [tx EXCEPT ![s].answer = view]
          /\ pc' = [pc EXCEPT ![s] = "commit"]
          /\ UNCHANGED <<tables, clock, admission, call>>
      BY <1>2 DEF ReadAccepted, ReadRetried, StoredAnswer, Goto
    <2>2. view.row = UsageSeen(s, call[s].id)
      BY <2>1 DEF ReadEvent, View
    <2> HIDE DEF view
    <2>3. /\ tx'[s] = [tx[s] EXCEPT !.answer = view] /\ pc'[s] = "commit"
          /\ tx' = [tx EXCEPT ![s] = tx'[s]] /\ pc' = [pc EXCEPT ![s] = pc'[s]]
          /\ tx[s] \in Drafts
      BY <2>1 DEF StoreInv, TypeOK
    <2>4. /\ tx'[s].usage = tx[s].usage /\ tx'[s].put = tx[s].put /\ tx'[s].gone = tx[s].gone
          /\ tx'[s].locks = tx[s].locks /\ tx'[s].answer = view
      BY <2>3 DEF Drafts
    <2>5. AnswerDraft(s)'
      BY <2>1, <2>2, <2>4 DEF AnswerDraft, UsageSeen, tables
    <2>. QED
      BY <2>1, <2>3, <2>4, <2>5, MovesOn
  <1>. QED
    BY <1>1, <1>2

\* A failed call leaves its draft to the server.
LEMMA FaultDrafts ==
    ASSUME StoreInv, DraftsInv, NEW s \in Conns, Fault(s)
    PROVE  DraftsInv'
  <1>1. /\ tx' = tx /\ UNCHANGED <<tables, clock, call, admission>>
        /\ pc' = [pc EXCEPT ![s] = IF pc[s] = "commit" THEN "indoubt" ELSE "doomed"]
    BY DEF Fault, Goto
  <1>2. /\ pc'[s] \in {"indoubt", "doomed"} /\ tx' = [tx EXCEPT ![s] = tx'[s]]
        /\ pc' = [pc EXCEPT ![s] = pc'[s]]
    BY <1>1 DEF StoreInv, TypeOK
  <1>3. AnswerDraft(s)'
    BY <1>2 DEF AnswerDraft
  <1>. QED
    BY <1>1, <1>2, <1>3, MovesOn

\* A crash leaves no draft at all.
LEMMA CrashDrafts ==
    ASSUME StoreInv, DraftsInv, Crash
    PROVE  DraftsInv'
  <1>1. /\ \A s \in Conns : call'[s] = NoCall /\ tx'[s] = NoTx /\ pc'[s] = "idle"
        /\ UNCHANGED <<tables, clock>>
    BY DEF Crash
  <1>2. DraftInv'
    BY <1>1 DEF DraftInv, Draft, AcceptDraft, RetryDraft, BatchDraft, AnswerDraft, NoCall
  <1>3. TableInv'
    BY <1>1 DEF DraftsInv, TableInv, UsageChecks, PendingChecks, tables
  <1>4. StampInv'
    BY <1>1, StampsKept DEF DraftsInv, NoTx, tables
  <1>. QED
    BY <1>2, <1>3, <1>4 DEF DraftsInv

\* ORDER BY enqueued_at LIMIT BatchLimit returns at most BatchLimit rows: the
\* youngest of them has fewer than BatchLimit older ones, and no twin.
LEMMA OldestBound ==
    ASSUME StoreInv, StampInv, NEW S, S \subseteq Events, \A e \in S : pending[e] # NoRow
    PROVE  Cardinality(Oldest(S)) <= BatchLimit
  <1> DEFINE O == Oldest(S)
             Older(e) == {f \in S : pending[f].at < pending[e].at}
  <1>1. /\ O \subseteq S /\ \A e \in O : Cardinality(Older(e)) < BatchLimit
        /\ IsFiniteSet(S) /\ IsFiniteSet(O) /\ Cardinality(O) \in Nat
        /\ BatchLimit \in Nat \ {0} /\ clock \in Nat
    <2>1. O \subseteq S /\ \A e \in O : Cardinality(Older(e)) < BatchLimit
      BY DEF Oldest
    <2>2. IsFiniteSet(S)
      BY EventsAssumption, FS_Subset
    <2>3. IsFiniteSet(O) /\ Cardinality(O) \in Nat
      BY <2>1, <2>2, FS_Subset, FS_CardinalityType
    <2>. QED
      BY <2>1, <2>2, <2>3, LimitsAssumption DEF StoreInv, TypeOK
  <1>2. \A e \in S : pending[e].at \in Nat /\ pending[e].at < clock
    <2> SUFFICES ASSUME NEW e \in S PROVE pending[e].at \in Nat /\ pending[e].at < clock
      OBVIOUS
    <2>1. pending[e] \in PendingRow
      BY DEF StoreInv, TypeOK
    <2>. QED
      BY <2>1 DEF PendingRow, StampInv, HasStamp
  <1>3. \A e, f \in S : pending[e].at = pending[f].at => e = f
    BY <1>2 DEF StampInv, HasStamp
  <1> HIDE DEF O
  <1>4. CASE O = {}
    BY <1>1, <1>4, FS_EmptySet DEF O
  <1>5. CASE O # {}
    <2> DEFINE Youth == {clock - pending[e].at : e \in O}
    <2>1. Youth \subseteq Nat /\ Youth # {}
      BY <1>1, <1>2, <1>5
    <2>2. PICK y \in Youth : \A z \in Youth : y <= z
      BY <2>1, LeastNumber
    <2>3. PICK m \in O : y = clock - pending[m].at
      BY <2>2
    <2>4. \A f \in O : clock - pending[m].at <= clock - pending[f].at
      BY <2>2, <2>3
    <2>5. O \ {m} \subseteq Older(m)
      BY <1>1, <1>2, <1>3, <2>4
    <2>6. IsFiniteSet(Older(m))
      BY <1>1, FS_Subset
    <2>7. /\ Cardinality(O \ {m}) <= Cardinality(Older(m))
          /\ Cardinality(Older(m)) \in Nat
      BY <2>5, <2>6, FS_Subset, FS_CardinalityType
    <2>8. Cardinality(O \ {m}) = Cardinality(O) - 1
      BY <1>1, <2>3, FS_RemoveElement
    <2>9. Cardinality(Older(m)) < BatchLimit
      BY <1>1, <2>3
    <2>. QED
      BY <1>1, <2>7, <2>8, <2>9 DEF O
  <1>. QED
    BY <1>4, <1>5

\* A claim locks eligible rows and no more than the batch may take.
LEMMA ClaimBatchDrafts ==
    ASSUME StoreInv, DraftsInv, NEW s \in Conns, ClaimBatch(s)
    PROVE  DraftsInv'
  <1> DEFINE claimed == Oldest(Claimable(s))
  <1>1. /\ tx[s] = NoTx /\ tx[s] \in Drafts
        /\ tx' = [tx EXCEPT ![s].locks = claimed] /\ call' = [call EXCEPT ![s] = ProcessCall]
        /\ pc' = [pc EXCEPT ![s] = "claimed"] /\ UNCHANGED <<tables, clock, admission>>
    BY CallKinds DEF StoreInv, ShapeInv, Shape, ClaimBatch, Goto
  <1>2. \A e \in claimed : pending[e].failures < Quarantine
    BY DEF Oldest, Claimable, Eligible
  <1>3. Cardinality(claimed) <= BatchLimit
    BY OldestBound DEF DraftsInv, Claimable, Eligible
  <1> HIDE DEF claimed
  <1>4. /\ pc'[s] = "claimed" /\ call'[s] = ProcessCall /\ Frame(s)
        /\ tx'[s].locks = claimed /\ tx'[s].put = tx[s].put
        /\ \A e \in Events : tx[s].put[e] = NoRow
        /\ \A t \in Conns : tx'[t].put = tx[t].put
    BY <1>1 DEF StoreInv, TypeOK, Frame, Drafts, NoTx
  <1>5. Draft(s)'
    BY <1>1, <1>2, <1>3, <1>4
    DEF Draft, AcceptDraft, RetryDraft, BatchDraft, AnswerDraft, ProcessCall, tables
  <1>6. StampInv'
    BY <1>1, <1>4, StampsKept DEF DraftsInv, tables
  <1>. QED
    BY <1>1, <1>4, <1>5, <1>6, LocalDrafts DEF DraftsInv

\* The bulk statements rewrite no queue row.
LEMMA PostBulkDrafts ==
    ASSUME StoreInv, DraftsInv, NEW s \in Conns, PostBulk(s)
    PROVE  DraftsInv'
  <1>1. /\ call[s].op = "process" /\ pc[s] = "claimed" /\ tx[s] \in Drafts /\ Draft(s)
        /\ UNCHANGED <<tables, clock, admission, call>>
    BY CallKinds DEF StoreInv, ShapeInv, Shape, PostBulk, DraftsInv, DraftInv
  <1>2. /\ pc'[s] \in {"commit", "single"} /\ Frame(s) /\ call' = call
        /\ tx'[s].locks = tx[s].locks /\ tx'[s].put = tx[s].put
        /\ \A t \in Conns : tx'[t].put = tx[t].put
    <2>1. \/ /\ tx' = [tx EXCEPT ![s].posted = tx[s].locks, ![s].gone = tx[s].locks]
             /\ pc' = [pc EXCEPT ![s] = "commit"]
          \/ tx' = tx /\ pc' = [pc EXCEPT ![s] = "single"]
      BY DEF PostBulk, Goto
    <2>2. CASE tx' = tx /\ pc' = [pc EXCEPT ![s] = "single"]
      BY <1>1, <2>2 DEF StoreInv, TypeOK, Frame
    <2>3. CASE /\ tx' = [tx EXCEPT ![s].posted = tx[s].locks, ![s].gone = tx[s].locks]
               /\ pc' = [pc EXCEPT ![s] = "commit"]
      <3>1. /\ tx'[s] = [tx[s] EXCEPT !.posted = tx[s].locks, !.gone = tx[s].locks]
            /\ pc'[s] = "commit" /\ call' = call
            /\ \A t \in Conns \ {s} : tx'[t] = tx[t] /\ pc'[t] = pc[t]
        BY <1>1, <2>3 DEF StoreInv, TypeOK
      <3>2. tx'[s].locks = tx[s].locks /\ tx'[s].put = tx[s].put
        BY <1>1, <3>1 DEF Drafts
      <3>. QED
        BY <1>1, <3>1, <3>2 DEF Frame
    <2>. QED
      BY <2>1, <2>2, <2>3
  <1>3. \A e \in Events : tx[s].put[e] = NoRow
    BY <1>1 DEF Draft, BatchDraft
  <1>4. Draft(s)'
    BY <1>1, <1>2, <1>3
    DEF Draft, AcceptDraft, RetryDraft, BatchDraft, AnswerDraft, tables
  <1>5. StampInv'
    BY <1>1, <1>2, StampsKept DEF DraftsInv, tables
  <1>. QED
    BY <1>1, <1>2, <1>4, <1>5, LocalDrafts DEF DraftsInv

\* One turn of processIndividually: the row is posted, or charged one failure.
LEMMA PostOneDrafts ==
    ASSUME StoreInv, DraftsInv, NEW s \in Conns, PostOne(s)
    PROVE  DraftsInv'
  <1>1. /\ call[s].op = "process" /\ tx[s] \in Drafts /\ Draft(s) /\ Shape(s)
        /\ UNCHANGED <<tables, clock, admission, call>>
    BY CallKinds DEF StoreInv, ShapeInv, Shape, PostOne, DraftsInv, DraftInv
  <1>2. PICK e \in Remaining(s) :
          /\ IF e \in broken
             THEN \E code \in Codes :
                    tx' = [tx EXCEPT ![s].put[e] = CountedFailure(e, code)]
             ELSE tx' = [tx EXCEPT ![s] = PostRemovingRow(s, e)]
          /\ Goto(s, IF Remaining(s) = {e} THEN "commit" ELSE "single")
    BY DEF PostOne
  <1>3. /\ e \in tx[s].locks /\ e \in Events /\ e \notin tx[s].gone /\ tx[s].put[e] = NoRow
        /\ pending[e] \in PendingRow
    BY <1>1, <1>2 DEF Remaining, Drafts, StoreInv, TypeOK, LockInv
  <1>4. pc'[s] \in {"single", "commit"} /\ call' = call
    BY <1>1, <1>2 DEF Goto, StoreInv, TypeOK
  <1>5. CASE e \in broken
    <2>1. PICK code \in Codes : tx' = [tx EXCEPT ![s].put[e] = CountedFailure(e, code)]
      BY <1>2, <1>5
    <2> DEFINE item == CountedFailure(e, code)
    <2>2. OneMoreFailure(item, pending[e]) /\ item.at = pending[e].at
      BY <1>3 DEF CountedFailure, OneMoreFailure, PendingRow
    <2> HIDE DEF item
    <2>3. /\ tx'[s] = [tx[s] EXCEPT !.put[e] = item]
          /\ \A t \in Conns \ {s} : tx'[t] = tx[t] /\ pc'[t] = pc[t]
      BY <1>2, <2>1 DEF Goto, StoreInv, TypeOK, item
    <2>4. /\ tx'[s].locks = tx[s].locks /\ tx'[s].gone = tx[s].gone
          /\ \A f \in Events : tx'[s].put[f] = IF f = e THEN item ELSE tx[s].put[f]
      BY <1>1, <2>3 DEF Drafts
    <2>5. Draft(s)'
      BY <1>1, <1>3, <1>4, <2>2, <2>4
      DEF Draft, AcceptDraft, RetryDraft, BatchDraft, AnswerDraft, OneMoreFailure, tables
    <2>6. \A f \in Events, n \in Nat : HasStamp(f, n)' => HasStamp(f, n)
      <3> SUFFICES ASSUME NEW f \in Events, NEW n \in Nat, HasStamp(f, n)', ~HasStamp(f, n)
                   PROVE  FALSE
        OBVIOUS
      <3>1. pending' = pending
        BY <1>1 DEF tables
      <3>2. PICK t \in Conns : tx'[t].put[f] # NoRow /\ tx'[t].put[f].at = n
        BY <3>1 DEF HasStamp
      <3>3. t = s
        BY <2>3, <3>2 DEF HasStamp
      <3>4. f = e
        BY <2>4, <3>2, <3>3 DEF HasStamp
      <3>. QED
        BY <1>3, <2>2, <2>4, <3>2, <3>3, <3>4, NoRowAssumption DEF HasStamp
    <2>7. StampInv'
      BY <1>1, <2>6, StampStep DEF DraftsInv
    <2>. QED
      BY <1>1, <2>3, <2>5, <2>7, LocalDrafts DEF DraftsInv, Frame
  <1>6. CASE e \notin broken
    <2>1. /\ tx'[s] = PostRemovingRow(s, e)
          /\ \A t \in Conns \ {s} : tx'[t] = tx[t] /\ pc'[t] = pc[t]
      BY <1>2, <1>6 DEF Goto, StoreInv, TypeOK
    <2>2. /\ tx'[s].locks = tx[s].locks /\ tx'[s].gone = tx[s].gone \cup {e}
          /\ tx'[s].put = tx[s].put
      BY <1>1, <2>1 DEF Drafts, PostRemovingRow
    <2>3. Draft(s)'
      BY <1>1, <1>3, <1>4, <2>2
      DEF Draft, AcceptDraft, RetryDraft, BatchDraft, AnswerDraft, OneMoreFailure, tables
    <2>4. StampInv'
      BY <1>1, <2>1, <2>2, StampsKept DEF DraftsInv, tables
    <2>. QED
      BY <1>1, <2>1, <2>3, <2>4, LocalDrafts DEF DraftsInv, Frame
  <1>. QED
    BY <1>5, <1>6

\* A retry decides on a row that it has locked.
LEMMA LockRowDrafts ==
    ASSUME StoreInv, DraftsInv, NEW s \in Conns, LockRow(s)
    PROVE  DraftsInv'
  <1> DEFINE id == call[s].id
  <1>1. /\ call[s].op = "retry" /\ id \in Events /\ tx[s] \in Drafts /\ tx[s] = NoTx
        /\ Draft(s)
    BY CallKinds
    DEF StoreInv, TypeOK, ShapeInv, Shape, LockRow, RetryCall, DraftsInv, DraftInv
  <1>2. CASE Rollback(s)
    BY <1>2, RollbackDrafts
  <1>3. CASE ~Rollback(s)
    <2>1. UNCHANGED <<tables, clock, admission, call>>
      BY <1>3 DEF LockRow
    <2>2. /\ tx' \in {tx, [tx EXCEPT ![s].locks = {id}]}
          /\ \/ pc' = [pc EXCEPT ![s] = "read"]
             \/ /\ pc' = [pc EXCEPT ![s] = "update"]
                /\ pending[id].failures = Quarantine /\ pending[id].gen = call[s].gen
      BY <1>3 DEF LockRow, LockedByRetry, Goto, Failed, SameGeneration
    <2>3. /\ \A t \in Conns \ {s} : tx'[t] = tx[t] /\ pc'[t] = pc[t]
          /\ tx'[s].put = tx[s].put /\ tx'[s].gone = tx[s].gone
          /\ pc'[s] \in {"read", "update"} /\ call' = call
          /\ pc'[s] = "update" =>
               pending[id].failures = Quarantine /\ pending[id].gen = call[s].gen
      BY <1>1, <2>1, <2>2 DEF StoreInv, TypeOK, Drafts
    <2>4. \A e \in Events : tx'[s].put[e] = NoRow
      BY <1>1, <2>3 DEF NoTx
    <2>5. Draft(s)'
      BY <1>1, <2>1, <2>3, <2>4
      DEF Draft, AcceptDraft, RetryDraft, BatchDraft, AnswerDraft, tables
    <2>6. StampInv'
      BY <2>1, <2>3, StampsKept DEF DraftsInv, tables
    <2>. QED
      BY <2>1, <2>3, <2>5, <2>6, LocalDrafts DEF DraftsInv, Frame
  <1>. QED
    BY <1>2, <1>3

\* The UPDATE finds the row as the SELECT has read it, for nobody else could
\* touch it: the new generation is the successor of the requested one.
LEMMA UpdateRowDrafts ==
    ASSUME StoreInv, DraftsInv, NEW s \in Conns, UpdateRow(s)
    PROVE  DraftsInv'
  <1> DEFINE id   == call[s].id
             item == Reactivated(id)
             put  == [tx[s].put EXCEPT ![id] = item]
  <1>1. /\ call[s].op = "retry" /\ id \in Events /\ tx[s] \in Drafts
        /\ tx[s] = [NoTx EXCEPT !.locks = {id}]
        /\ Draft(s) /\ clock \in Nat /\ pc[s] = "update"
    BY CallKinds
    DEF StoreInv, TypeOK, ShapeInv, Shape, UpdateRow, RetryCall, DraftsInv, DraftInv
  <1>2. /\ pending[id].failures = Quarantine /\ pending[id].gen = call[s].gen
        /\ ValidGeneration(call[s].gen)
    BY <1>1 DEF Draft, RetryDraft
  <1>3. pending[id] # NoRow
    <2>1. id \in tx[s].locks
      BY <1>1 DEF NoTx
    <2>. QED
      BY <2>1 DEF StoreInv, LockInv
  <1>4. /\ tx' = [tx EXCEPT ![s] = [tx[s] EXCEPT !.locks = {id}, !.put = put]]
        /\ clock' = clock + 1 /\ pc' = [pc EXCEPT ![s] = "read"]
        /\ UNCHANGED <<tables, admission, call>>
    BY <1>1, <1>3 DEF UpdateRow, Goto, Drafts
  <1>5. Unfailed(item, call[s].gen + 1) /\ item.at = clock
    BY <1>2 DEF Reactivated, Unfailed
  <1> HIDE DEF item
  <1>6. /\ \A t \in Conns \ {s} : tx'[t] = tx[t] /\ pc'[t] = pc[t]
        /\ tx'[s] = [tx[s] EXCEPT !.locks = {id}, !.put = put]
        /\ pc'[s] = "read" /\ call' = call
    BY <1>4 DEF StoreInv, TypeOK
  <1>7. /\ tx'[s].gone = {}
        /\ \A e \in Events : tx'[s].put[e] = IF e = id THEN item ELSE NoRow
    BY <1>1, <1>6 DEF Drafts, NoTx
  <1>8. Draft(s)'
    <2>1. pending' = pending /\ call'[s] = call[s]
      BY <1>4, <1>6 DEF tables
    <2>2. \A e \in Events : tx'[s].put[e] # NoRow => e = id /\ tx'[s].put[e] = item
      BY <1>7
    <2>3. RetryDraft(s)'
      BY <1>2, <1>5, <1>6, <1>7, <2>1, <2>2 DEF RetryDraft, Unfailed, ValidGeneration
    <2>. QED
      BY <1>1, <1>6, <2>3 DEF Draft, AcceptDraft, BatchDraft, AnswerDraft
  <1>9. \A e \in Events, n \in Nat : HasStamp(e, n)' =>
          HasStamp(e, n) \/ (e = id /\ n = clock /\ clock' = clock + 1)
    <2> SUFFICES ASSUME NEW e \in Events, NEW n \in Nat, HasStamp(e, n)', ~HasStamp(e, n)
                 PROVE  e = id /\ n = clock
      BY <1>4
    <2>1. pending' = pending
      BY <1>4 DEF tables
    <2>2. PICK t \in Conns : tx'[t].put[e] # NoRow /\ tx'[t].put[e].at = n
      BY <2>1 DEF HasStamp
    <2>3. t = s
      BY <1>6, <2>2 DEF HasStamp
    <2>. QED
      BY <1>5, <1>7, <2>2, <2>3
  <1>10. StampInv'
    BY <1>4, <1>9, StampStep DEF DraftsInv
  <1>. QED
    BY <1>4, <1>6, <1>8, <1>10, LocalDrafts DEF DraftsInv, Frame
-----------------------------------------------------------------------------
\* The CHECK constraints for the row that an admission freezes: the guard of the
\* service makes the int64 product exact.
LEMMA PricedChecks ==
    ASSUME NEW i \in Inputs, NEW r \in Rates, ~Overflows(i.units, r)
    PROVE  UsageChecks(Priced(i, r))
  <1>1. i.units \in Nat \ {0} /\ r \in Nat \ {0}
    BY InputsAssumption, RatesAssumption
  <1>2. i.units * r \in 1..MaxInt64 /\ Amount(i.units, r) = i.units * r
    BY <1>1, GuardedProductFits, GuardExact
  <1>. QED
    BY <1>1, <1>2, MaxInt64Assumption DEF UsageChecks, Priced

\* A row without failures satisfies them, and so does the successor of an
\* eligible row.
LEMMA ItemChecks ==
    ASSUME NEW item
    PROVE  /\ \A g \in 0..MaxInt64 : Unfailed(item, g) => PendingChecks(item)
           /\ \A row : PendingChecks(row) /\ row.failures < Quarantine
                         /\ OneMoreFailure(item, row) => PendingChecks(item)
  <1>1. ASSUME NEW g \in 0..MaxInt64, Unfailed(item, g) PROVE PendingChecks(item)
    <2>1. item.failures = 0 /\ item.code = "" /\ item.gen = g
      BY <1>1 DEF Unfailed
    <2>2. 0 \in 0..Quarantine
      BY DEF Quarantine
    <2>. QED
      BY <2>1, <2>2 DEF PendingChecks
  <1>2. ASSUME NEW row, PendingChecks(row), row.failures < Quarantine,
               OneMoreFailure(item, row)
        PROVE  PendingChecks(item)
    <2>1. row.failures \in 0..Quarantine /\ item.failures = row.failures + 1
          /\ item.gen \in 0..MaxInt64
      BY <1>2 DEF PendingChecks, OneMoreFailure
    <2>2. item.failures \in 0..Quarantine /\ item.failures # 0
      BY <1>2, <2>1 DEF Quarantine
    <2>3. item.code # ""
      BY <1>2, CodesAssumption DEF OneMoreFailure
    <2>. QED
      BY <2>1, <2>2, <2>3 DEF PendingChecks
  <1>. QED
    BY <1>1, <1>2

\* Every row of every draft satisfies the CHECK constraints.
LEMMA DraftChecks ==
    ASSUME StoreInv, DraftInv, TableInv, NEW s \in Conns
    PROVE  /\ tx[s].usage # NoRow => UsageChecks(tx[s].usage)
           /\ \A e \in Events : tx[s].put[e] # NoRow => PendingChecks(tx[s].put[e])
  <1>1. /\ Shape(s) /\ Draft(s) /\ tx[s] \in Drafts
        /\ call[s].op \in {"none", "accept", "retry", "process"}
        /\ pc[s] = "idle" \/ call[s].op # "none"
    BY CallKinds DEF StoreInv, ShapeInv, DraftInv, Shape
  <1>2. CASE call[s].op = "accept"
    <2>1. tx[s].usage # NoRow => UsageChecks(tx[s].usage)
      BY <1>1, <1>2, CallKinds, PricedChecks DEF StoreInv, Draft, AcceptDraft, AcceptCall
    <2>2. \A e \in Events : tx[s].put[e] # NoRow => PendingChecks(tx[s].put[e])
      BY <1>1, <1>2, ItemChecks, MaxInt64Assumption DEF Draft, AcceptDraft
    <2>. QED
      BY <2>1, <2>2
  <1>3. CASE call[s].op = "retry"
    <2>1. tx[s].usage = NoRow
      BY <1>1, <1>3 DEF Shape
    <2>2. call[s].gen \in 0..MaxInt64 /\ call[s].gen # MaxInt64
      BY <1>1, <1>3, CallKinds, RetryGensAssumption
      DEF StoreInv, RetryCall, Draft, RetryDraft, ValidGeneration
    <2>3. \A e \in Events : tx[s].put[e] # NoRow => PendingChecks(tx[s].put[e])
      <3>1. call[s].gen + 1 \in 0..MaxInt64
        BY <2>2, MaxInt64Assumption
      <3>. QED
        BY <1>1, <1>3, <3>1, ItemChecks DEF Draft, RetryDraft
    <2>. QED
      BY <2>1, <2>3
  <1>4. CASE call[s].op = "process"
    <2>1. tx[s].usage = NoRow
      BY <1>1, <1>4 DEF Shape
    <2>2. ASSUME NEW e \in Events, tx[s].put[e] # NoRow PROVE PendingChecks(tx[s].put[e])
      <3>1. e \in tx[s].locks /\ pending[e] # NoRow
        BY <1>1, <1>4, <2>2 DEF Shape, StoreInv, LockInv
      <3>2. pending[e].failures < Quarantine /\ OneMoreFailure(tx[s].put[e], pending[e])
        BY <1>1, <1>4, <2>2, <3>1 DEF Draft, BatchDraft
      <3>3. PendingChecks(pending[e])
        BY <3>1 DEF TableInv
      <3>. QED
        BY <3>2, <3>3, ItemChecks
    <2>. QED
      BY <2>1, <2>2
  <1>5. CASE call[s].op = "none"
    BY <1>1, <1>5 DEF Shape, NoTx
  <1>. QED
    BY <1>1, <1>2, <1>3, <1>4, <1>5

\* What a commit makes visible was already checked, stamped and locked.
LEMMA ApplyDrafts ==
    ASSUME StoreInv, DraftsInv, NEW s \in Conns, pc[s] \in {"commit", "indoubt"},
           Apply(s), clock' = clock
    PROVE  DraftsInv'
  <1>1. pc'[s] = "idle" /\ call'[s] = NoCall /\ tx'[s] = NoTx /\ Frame(s)
    BY DEF StoreInv, TypeOK, Apply, Close, Frame
  <1>2. ASSUME NEW t \in Conns PROVE Draft(t)'
    <2>1. CASE t = s
      BY <1>1, <2>1 DEF Draft, AcceptDraft, RetryDraft, BatchDraft, AnswerDraft, NoCall
    <2>2. CASE t # s
      BY <1>1, <2>2, ApplyKeeps, OtherDrafts DEF DraftsInv
    <2>. QED
      BY <2>1, <2>2
  <1>3. \A e \in Events :
          /\ usage'[e] \in {usage[e], tx[s].usage}
          /\ pending'[e] \in {NoRow, pending[e], tx[s].put[e]}
    BY DEF Apply, UsageSeen, PendingSeen
  <1>4. TableInv'
    <2> SUFFICES ASSUME NEW e \in Events
                 PROVE  /\ usage'[e] # NoRow => UsageChecks(usage'[e])
                        /\ pending'[e] # NoRow => PendingChecks(pending'[e])
      BY DEF TableInv, UsageChecks, PendingChecks
    <2>. QED
      BY <1>3, DraftChecks DEF DraftsInv, TableInv
  <1>5. StampInv'
    <2>1. \A e \in Events, n \in Nat : HasStamp(e, n)' => HasStamp(e, n)
      <3> SUFFICES ASSUME NEW e \in Events, NEW n \in Nat, HasStamp(e, n)' PROVE HasStamp(e, n)
        OBVIOUS
      <3>1. CASE pending'[e] # NoRow /\ pending'[e].at = n
        BY <1>3, <3>1 DEF HasStamp
      <3>2. CASE \E t \in Conns : tx'[t].put[e] # NoRow /\ tx'[t].put[e].at = n
        BY <1>1, <3>2 DEF HasStamp, Frame, NoTx
      <3>. QED
        BY <3>1, <3>2 DEF HasStamp
    <2>. QED
      BY <2>1, StampStep DEF DraftsInv
  <1>. QED
    BY <1>2, <1>4, <1>5 DEF DraftsInv, DraftInv

\* Every statement of every call preserves the second layer.
LEMMA NextDrafts == StoreInv /\ DraftsInv /\ [Next]_vars => DraftsInv'
  <1> SUFFICES ASSUME StoreInv, DraftsInv, [Next]_vars PROVE DraftsInv'
    OBVIOUS
  <1>1. CASE UNCHANGED vars
    BY <1>1, BystanderDrafts DEF vars
  <1>2. ASSUME NEW s \in Conns, Statement(s) PROVE DraftsInv'
    <2>1. CASE Commit(s)
      BY <2>1, ApplyDrafts DEF Commit
    <2>. QED
      BY <1>2, <2>1, InsertUsageDrafts, AdmissionDrafts, EnqueueDrafts, ReadDrafts,
         PostBulkDrafts, PostOneDrafts, LockRowDrafts, UpdateRowDrafts
      DEF Statement
  <1>3. ASSUME NEW s \in Conns, Fault(s) \/ Reap(s) \/ LateCommit(s) PROVE DraftsInv'
    BY <1>3, FaultDrafts, RollbackDrafts, ApplyDrafts DEF Reap, LateCommit
  <1>4. ASSUME NEW s \in Conns, ClaimBatch(s) \/ EmptyBatch(s) PROVE DraftsInv'
    BY <1>1, <1>4, ClaimBatchDrafts DEF EmptyBatch
  <1>5. ASSUME NEW e \in Events, Break(e) \/ Mend(e) PROVE DraftsInv'
    BY <1>5, BystanderDrafts DEF Break, Mend
  <1>6. ASSUME NEW e \in Events, NEW i \in Inputs, NEW r \in Rates, AnswerOverflowing(e, i, r)
        PROVE  DraftsInv'
    BY <1>6, BystanderDrafts DEF AnswerOverflowing
  <1>. QED
    BY <1>1, <1>2, <1>3, <1>4, <1>5, <1>6, BeginDrafts, CrashDrafts DEF Next
-----------------------------------------------------------------------------
\* What was said of e is still true when s commits, and what s says is true too.
LEMMA ApplyTold ==
    ASSUME StoreInv, ToldInv, NEW s \in Conns,
           pc[s] \in {"commit", "indoubt"}, Apply(s), NEW e \in Events
    PROVE  /\ quoted[e] \subseteq {usage'[e]}
           /\ fresh[e] \in Nat /\ fresh[e] <= 1
           /\ usage'[e] = NoRow => fresh[e] = 0
           /\ call[s].op = "accept" /\ tx[s].usage # NoRow =>
                fresh[call[s].id] = 0 /\ usage'[call[s].id] # NoRow
  <1>1. /\ quoted[e] \subseteq UsageRow /\ fresh[e] \in Nat
        /\ quoted[e] \subseteq {usage[e]} /\ fresh[e] <= 1
        /\ usage[e] = NoRow => fresh[e] = 0 /\ quoted[e] = {}
    BY NoRowAssumption DEF StoreInv, TypeOK, ToldInv
  <1>2. usage[e] # NoRow => usage'[e] = usage[e]
    BY ApplyKeeps
  <1>3. ASSUME call[s].op = "accept", tx[s].usage # NoRow
        PROVE  fresh[call[s].id] = 0 /\ usage'[call[s].id] # NoRow
    <2>1. CommitsAdmission(s)
      BY <1>3, ApplyCases DEF CommitsNothing, CommitsSuccessors
    <2>. QED
      BY <2>1 DEF CommitsAdmission, ToldInv, StoreInv, TypeOK
  <1>. QED
    BY <1>1, <1>2, <1>3

\* A confirmed commit tells its caller what it has just stored.
LEMMA CommitTold ==
    ASSUME StoreInv, DraftsInv, ToldInv, NEW s \in Conns, Commit(s)
    PROVE  ToldInv'
  <1> DEFINE id == call[s].id
  <1>1. /\ Apply(s) /\ pc[s] = "commit" /\ Draft(s) /\ tx[s] \in Drafts
        /\ call[s].op \in {"accept", "retry"} => id \in Events
        /\ quoted \in [Events -> SUBSET UsageRow]
        /\ fresh \in [Events -> Nat]
    BY CallKinds DEF Commit, StoreInv, TypeOK, DraftsInv, DraftInv, AcceptCall, RetryCall
  <1>2. call[s].op \in {"accept", "retry"} => tx[s].answer.row = usage'[id]
    BY <1>1 DEF Draft, AnswerDraft, Apply
  <1> SUFFICES ASSUME NEW e \in Events
               PROVE  /\ quoted'[e] \subseteq {usage'[e]}
                      /\ fresh'[e] <= 1
                      /\ usage'[e] = NoRow => fresh'[e] = 0
    BY DEF ToldInv
  <1>3. quoted'[e] \subseteq quoted[e] \cup {usage'[e]}
    BY <1>1, <1>2 DEF Commit
  <1>4. fresh'[e] = IF call[s].op = "accept" /\ tx[s].usage # NoRow /\ e = id
                    THEN fresh[e] + 1 ELSE fresh[e]
    BY <1>1 DEF Commit
  <1>. QED
    BY <1>1, <1>3, <1>4, ApplyTold

\* What a commit of s does to the generation of a queued event: an admission
\* starts at 0, a reactivation goes on from the generation it was asked for,
\* and nobody else changes it.
LEMMA ApplyGeneration ==
    ASSUME StoreInv, DraftsInv, NEW s \in Conns, pc[s] \in {"commit", "indoubt"}, Apply(s),
           NEW e \in Events, pending'[e] # NoRow
    PROVE  LET renews == call[s].op = "retry" /\ tx[s].put[call[s].id] # NoRow
                           /\ e = call[s].id
           IN  \/ usage[e] = NoRow /\ pending'[e].gen = 0 /\ ~renews
               \/ /\ pending[e] # NoRow /\ pending[e].gen = call[s].gen /\ renews
                  /\ pending'[e].gen = call[s].gen + 1
               \/ pending[e] # NoRow /\ pending'[e].gen = pending[e].gen /\ ~renews
  <1>1. /\ pending \in [Events -> PendingRow \cup {NoRow}]
        /\ tx[s] \in Drafts /\ Draft(s)
    BY DEF StoreInv, TypeOK, DraftsInv, DraftInv
  <1>2. CASE CommitsAdmission(s)
    <2>1. e = call[s].id => usage[e] = NoRow /\ pending'[e].gen = 0
      BY <1>1, <1>2 DEF CommitsAdmission, Draft, AcceptDraft, Unfailed
    <2>2. e # call[s].id => pending'[e] = pending[e]
      BY <1>1, <1>2 DEF CommitsAdmission
    <2>3. call[s].op # "retry"
      BY <1>2 DEF CommitsAdmission
    <2>. QED
      BY <2>1, <2>2, <2>3
  <1>3. CASE CommitsNothing(s)
    BY <1>3 DEF CommitsNothing
  <1>4. CASE CommitsSuccessors(s)
    <2>1. pending[e] # NoRow /\ call[s].op \in {"retry", "process"}
          /\ pending'[e] = IF tx[s].put[e] # NoRow THEN tx[s].put[e] ELSE pending[e]
      BY <1>4 DEF CommitsSuccessors
    <2>2. CASE tx[s].put[e] = NoRow
      BY <2>1, <2>2
    <2>3. CASE tx[s].put[e] # NoRow /\ call[s].op = "process"
      BY <1>1, <2>1, <2>3 DEF Draft, BatchDraft, OneMoreFailure
    <2>4. CASE tx[s].put[e] # NoRow /\ call[s].op = "retry"
      BY <1>1, <2>1, <2>4 DEF Draft, RetryDraft, Unfailed
    <2>. QED
      BY <2>1, <2>2, <2>3, <2>4
  <1>. QED
    BY <1>2, <1>3, <1>4, ApplyCases

\* A commit counts a reactivation for the requested generation, and for no other.
LEMMA ApplyCounts ==
    ASSUME StoreInv, NEW s \in Conns, Apply(s), NEW e \in Events, NEW g \in RetryGens
    PROVE  revived'[e][g] = IF /\ call[s].op = "retry" /\ tx[s].put[call[s].id] # NoRow
                               /\ e = call[s].id /\ g = call[s].gen
                            THEN revived[e][g] + 1 ELSE revived[e][g]
  BY CallKinds DEF StoreInv, TypeOK, Apply, RetryCall

\* One reactivation for one requested generation, when the caller is told and
\* when it is not.
LEMMA ApplyGrants ==
    ASSUME StoreInv, DraftsInv, GrantInv, NEW s \in Conns, pc[s] \in {"commit", "indoubt"},
           Apply(s)
    PROVE  GrantInv'
  <1> SUFFICES ASSUME NEW e \in Events, NEW g \in RetryGens
               PROVE  /\ revived'[e][g] <= 1
                      /\ pending'[e] # NoRow => (revived'[e][g] = 1 <=> g < pending'[e].gen)
                      /\ usage'[e] = NoRow => revived'[e][g] = 0
    BY DEF GrantInv, OneReactivation
  <1> DEFINE renews == /\ call[s].op = "retry" /\ tx[s].put[call[s].id] # NoRow
                       /\ e = call[s].id
  <1>1. /\ revived[e][g] \in Nat /\ g \in Nat
        /\ pending[e] # NoRow => pending[e].gen \in Int
    <2>1. g \in Nat
      BY RetryGensAssumption, MaxInt64Assumption
    <2>2. pending[e] # NoRow => pending[e].gen \in Int
      BY DEF StoreInv, TypeOK, PendingRow
    <2>3. revived[e][g] \in Nat
      BY DEF StoreInv, TypeOK
    <2>. QED
      BY <2>1, <2>2, <2>3
  <1>2. /\ revived[e][g] <= 1
        /\ pending[e] # NoRow => (revived[e][g] = 1 <=> g < pending[e].gen)
        /\ usage[e] = NoRow => revived[e][g] = 0
    BY DEF GrantInv, OneReactivation
  <1>3. revived'[e][g] = IF renews /\ g = call[s].gen THEN revived[e][g] + 1 ELSE revived[e][g]
    BY ApplyCounts
  <1>4. renews => /\ pending[e] # NoRow /\ usage[e] # NoRow
                  /\ pending[e].gen = call[s].gen /\ tx[s].gone = {}
                  /\ pending'[e] # NoRow
    <2> SUFFICES ASSUME renews
                 PROVE  /\ pending[e] # NoRow /\ usage[e] # NoRow
                        /\ pending[e].gen = call[s].gen /\ tx[s].gone = {}
                        /\ pending'[e] # NoRow
      OBVIOUS
    <2>1. CommitsSuccessors(s) /\ tx[s].put[e] # NoRow
      BY ApplyCases DEF CommitsAdmission, CommitsNothing
    <2>2. pending[e] # NoRow
      BY <2>1 DEF CommitsSuccessors
    <2>3. Draft(s)
      BY DEF DraftsInv, DraftInv
    <2>4. tx[s].gone = {} /\ pending[e].gen = call[s].gen
      BY <2>1, <2>3 DEF Draft, RetryDraft
    <2>. QED
      BY <2>1, <2>2, <2>4 DEF CommitsSuccessors, StoreInv, OneHome
  <1>5. usage[e] # NoRow => usage'[e] = usage[e]
    BY ApplyKeeps
  <1>6. pending'[e] # NoRow =>
          \/ usage[e] = NoRow /\ pending'[e].gen = 0 /\ ~renews
          \/ renews /\ pending'[e].gen = call[s].gen + 1
          \/ pending[e] # NoRow /\ pending'[e].gen = pending[e].gen /\ ~renews
    BY ApplyGeneration
  <1> HIDE DEF renews
  <1>7. CASE renews
    BY <1>1, <1>2, <1>3, <1>4, <1>5, <1>6, <1>7
  <1>8. CASE ~renews
    BY <1>1, <1>2, <1>3, <1>5, <1>6, <1>8
  <1>. QED
    BY <1>7, <1>8

\* A processed count is confirmed together with its ledger entries, which were
\* not there before.
LEMMA CommitCounts ==
    ASSUME StoreInv, CountsConfirmed, NEW s \in Conns, pc[s] \in {"commit", "indoubt"},
           Apply(s), reported' \in {reported, reported + Cardinality(tx[s].gone)},
           reported' # reported => call[s].op = "process"
    PROVE  CountsConfirmed'
  <1>1. /\ IsFiniteSet(ledger) /\ Cardinality(ledger) \in Nat /\ reported \in Nat
        /\ IsFiniteSet(tx[s].gone) /\ Cardinality(tx[s].gone) \in Nat
    BY EventsAssumption, FS_Subset, FS_CardinalityType DEF StoreInv, TypeOK, Drafts
  <1>2. CASE CommitsAdmission(s) \/ CommitsNothing(s)
    BY <1>2 DEF CommitsAdmission, CommitsNothing, CountsConfirmed
  <1>3. CASE CommitsSuccessors(s)
    <2>1. tx[s].gone \cap ledger = {} /\ ledger' = ledger \cup tx[s].gone
      BY <1>3 DEF CommitsSuccessors, StoreInv, OneHome
    <2>2. Cardinality(ledger') = Cardinality(ledger) + Cardinality(tx[s].gone)
      <3>1. Cardinality(ledger \cup tx[s].gone)
              = Cardinality(ledger) + Cardinality(tx[s].gone) - Cardinality(ledger \cap tx[s].gone)
        BY <1>1, FS_Union
      <3>2. Cardinality(ledger \cap tx[s].gone) = 0
        BY <2>1, FS_EmptySet
      <3>. QED
        BY <1>1, <2>1, <3>1, <3>2
    <2>. QED
      BY <1>1, <2>2 DEF CountsConfirmed
  <1>. QED
    BY <1>2, <1>3, ApplyCases

\* A replay that overflows at the current price is told the stored row.
LEMMA OverflowTold ==
    ASSUME StoreInv, ToldInv, NEW e \in Events, NEW i \in Inputs, NEW r \in Rates,
           AnswerOverflowing(e, i, r)
    PROVE  ToldInv'
  BY DEF AnswerOverflowing, StoreInv, TypeOK, ToldInv, tables

\* Only a commit writes tables, and only a commit or an overflowing replay tells a
\* caller something new.
LEMMA WritersCommit ==
    ASSUME [Next]_vars
    PROVE  \/ UNCHANGED <<tables, history>>
           \/ \E s \in Conns : Commit(s) \/ LateCommit(s)
           \/ \E e \in Events, i \in Inputs, r \in Rates : AnswerOverflowing(e, i, r)
  <1>1. CASE UNCHANGED vars
    BY <1>1 DEF vars
  <1>2. ASSUME NEW s \in Conns, Statement(s) PROVE Commit(s) \/ UNCHANGED <<tables, history>>
    BY <1>2
    DEF Statement, InsertUsage, LockAdmission, CountQueue, Enqueue, ReadAccepted, PostBulk,
        PostOne, LockRow, UpdateRow, ReadRetried, Rollback
  <1>3. ASSUME NEW s \in Conns, Fault(s) \/ Reap(s) \/ ClaimBatch(s) \/ EmptyBatch(s)
        PROVE  UNCHANGED <<tables, history>>
    BY <1>3 DEF Fault, CountOnError, Reap, ClaimBatch, EmptyBatch, Rollback, vars, history
  <1>4. ASSUME NEW s \in Conns, NEW e \in Events,
               \/ \E i \in Inputs, r \in Rates : BeginAccept(s, e, i, r)
               \/ \E g \in RetryGens : BeginRetry(s, e, g)
        PROVE  UNCHANGED <<tables, history>>
    BY <1>4 DEF BeginAccept, BeginRetry
  <1>5. Crash \/ (\E e \in Events : Break(e) \/ Mend(e)) => UNCHANGED <<tables, history>>
    BY DEF Crash, Break, Mend
  <1>. QED
    BY <1>1, <1>2, <1>3, <1>4, <1>5 DEF Next

\* Every statement of every call preserves the invariant.
LEMMA NextSafety == StoreInv /\ SafetyInv /\ [Next]_vars => SafetyInv'
  <1> SUFFICES ASSUME StoreInv, SafetyInv, [Next]_vars PROVE SafetyInv'
    OBVIOUS
  <1>1. DraftsInv /\ ToldInv /\ GrantInv /\ CountsConfirmed /\ DraftsInv'
    BY NextDrafts DEF SafetyInv
  <1>2. CASE UNCHANGED <<tables, history>>
    BY <1>1, <1>2
    DEF SafetyInv, ToldInv, GrantInv, OneReactivation, CountsConfirmed, tables, history
  <1>3. ASSUME NEW s \in Conns, Commit(s) PROVE SafetyInv'
    <2>1. CountsConfirmed' /\ GrantInv'
      BY <1>1, <1>3, CommitCounts, ApplyGrants DEF Commit
    <2>. QED
      BY <1>1, <1>3, <2>1, CommitTold DEF SafetyInv
  <1>4. ASSUME NEW s \in Conns, LateCommit(s) PROVE SafetyInv'
    <2>1. pc[s] = "indoubt" /\ Apply(s) /\ UNCHANGED <<quoted, fresh, reported>>
      BY <1>4 DEF LateCommit
    <2>2. CountsConfirmed' /\ GrantInv'
      BY <1>1, <2>1, CommitCounts, ApplyGrants
    <2>3. ToldInv'
      BY <1>1, <2>1, ApplyTold DEF ToldInv
    <2>. QED
      BY <1>1, <2>2, <2>3 DEF SafetyInv
  <1>5. ASSUME NEW e \in Events, NEW i \in Inputs, NEW r \in Rates, AnswerOverflowing(e, i, r)
        PROVE  SafetyInv'
    <2>1. CountsConfirmed' /\ GrantInv'
      BY <1>1, <1>5
      DEF AnswerOverflowing, CountsConfirmed, GrantInv, OneReactivation, tables
    <2>. QED
      BY <1>1, <1>5, <2>1, OverflowTold DEF SafetyInv
  <1>. QED
    BY <1>2, <1>3, <1>4, <1>5, WritersCommit

\* The second layer holds in every reachable state.
THEOREM SafetyInvariant == Spec => []SafetyInv
  <1>1. Init => SafetyInv
    BY SafetyInit
  <1>2. StoreInv /\ SafetyInv /\ [Next]_vars => SafetyInv'
    BY NextSafety
  <1>. QED
    BY <1>1, <1>2, StoreInvariant, PTL DEF Spec

\* No statement of accept, retry or processing ever writes a row that a CHECK
\* constraint of the migrations refuses, neither in a table nor in a draft.
THEOREM WritesPassConstraints == Spec => []ConstraintsHold
  <1>1. StoreInv /\ SafetyInv => ConstraintsHold
    BY DraftChecks DEF SafetyInv, DraftsInv, TableInv, ConstraintsHold
  <1>. QED
    BY <1>1, StoreInvariant, SafetyInvariant, PTL

\* Every answer of accept and retry quotes the one durable row of its event, and
\* at most one caller hears that it created it.
THEOREM AnswersQuoteFrozenRow == Spec => []QuotesFrozen
  <1>1. SafetyInv => QuotesFrozen
    BY DEF SafetyInv, ToldInv, QuotesFrozen
  <1>. QED
    BY <1>1, SafetyInvariant, PTL

\* What ProcessBatch reports as processed is in the ledger, whatever commits were
\* lost, confirmed or finished behind the worker's back.
THEOREM ReportedIsPosted == Spec => []CountsConfirmed
  <1>1. SafetyInv => CountsConfirmed
    BY DEF SafetyInv
  <1>. QED
    BY <1>1, SafetyInvariant, PTL

\* Of any number of retries of one event with one generation, concurrent ones and
\* ones sent again after a lost answer, at most one commits a reactivation; and
\* the generations granted are exactly those below the current one, so that a
\* retry with a stale or a future generation never reactivates.
THEOREM RetriesReactivateOnce == Spec => []OneReactivation
  <1>1. SafetyInv => OneReactivation
    BY DEF SafetyInv, GrantInv
  <1>. QED
    BY <1>1, SafetyInvariant, PTL

\* FOR UPDATE SKIP LOCKED gives a batch its rows for itself, and they are still
\* eligible and unposted when it writes.
THEOREM ClaimsAreExclusive == Spec => []ClaimsExclusive
  <1>1. StoreInv /\ SafetyInv => ClaimsExclusive
    <2> SUFFICES ASSUME StoreInv, SafetyInv, NEW s \in Conns, call[s].op = "process"
                 PROVE  /\ \A t \in Conns \ {s} : tx[s].locks \cap tx[t].locks = {}
                        /\ \A e \in tx[s].locks : Eligible(e) /\ e \notin ledger
      BY DEF ClaimsExclusive
    <2>1. \A e \in tx[s].locks :
            /\ e \in Events /\ pending[e] # NoRow
            /\ \A t \in Conns \ {s} : e \notin tx[t].locks
      BY DEF StoreInv, TypeOK, Drafts, LockInv
    <2>2. \A e \in tx[s].locks : pending[e].failures < Quarantine
      BY DEF SafetyInv, DraftsInv, DraftInv, Draft, BatchDraft
    <2>. QED
      BY <2>1, <2>2 DEF Eligible, StoreInv, OneHome
  <1>. QED
    BY <1>1, StoreInvariant, SafetyInvariant, PTL
-----------------------------------------------------------------------------
(* 4. The refinement of UsageLedger. *)

\* The work slot of e as the promise sees it.
Slot(e) ==
    IF pending[e] = NoRow THEN NoRow
    ELSE [failures |-> pending[e].failures, gen |-> pending[e].gen]

\* UsageLedger counts as Store does.
LEMMA SameCardinality == ASSUME NEW S PROVE Promise!Cardinality(S) = Cardinality(S)
  BY DEF Promise!Cardinality, Cardinality

\* The slots of the promise are the rows of the queue.
LEMMA SlotsAreQueue ==
    ASSUME TypeOK
    PROVE  /\ \A e \in Events : (Slot(e) = NoRow) <=> (pending[e] = NoRow)
           /\ Promise!Slots = Queue
  <1>1. ASSUME NEW e \in Events, pending[e] # NoRow PROVE Slot(e) # NoRow
    <2>1. pending[e].failures \in Int /\ pending[e].gen \in Int
      BY <1>1 DEF TypeOK, PendingRow
    <2>2. Slot(e) \in [failures : Int, gen : Int]
      BY <1>1, <2>1 DEF Slot
    <2>. QED
      BY <2>2, NoSlotAssumption
  <1>2. \A e \in Events : (Slot(e) = NoRow) <=> (pending[e] = NoRow)
    BY <1>1 DEF Slot
  <1>. QED
    BY <1>2 DEF Promise!Slots, Queue, Slot

\* A commit is one step of the promise, or none.
LEMMA CommitKeepsPromise ==
    ASSUME StoreInv, SafetyInv, StoreInv', NEW s \in Conns, pc[s] \in {"commit", "indoubt"}, Apply(s)
    PROVE  [Promise!Next]_(Promise!vars)
  <1> DEFINE work == [e \in Events |-> Slot(e)]
  <1>1. TypeOK /\ TypeOK' /\ tx[s] \in Drafts /\ Draft(s) /\ Shape(s)
    BY DEF StoreInv, TypeOK, SafetyInv, DraftsInv, DraftInv, ShapeInv
  <1>2. /\ \A e \in Events : pending'[e] = pending[e] => Slot(e)' = Slot(e)
        /\ call[s].op # "retry" => revived' = revived
    BY DEF Slot, Apply
  <1>3. CASE CommitsAdmission(s)
    <2> PICK id \in Events : id = call[s].id
      BY <1>3 DEF CommitsAdmission
    <2> PICK c \in UsageRow : c = tx[s].usage
      BY <1>1, <1>3 DEF CommitsAdmission, Drafts
    <2>1. c \in ExactCharges
      <3>1. call[s].input \in Inputs /\ call[s].price \in Rates
        BY <1>3, CallKinds DEF CommitsAdmission, StoreInv, AcceptCall
      <3>2. tx[s].usage = Priced(call[s].input, call[s].price) /\ UsageChecks(tx[s].usage)
        BY <1>1, <1>3, DraftChecks
        DEF CommitsAdmission, Draft, AcceptDraft, SafetyInv, DraftsInv
      <3>. QED
        BY <3>1, <3>2 DEF Priced, UsageChecks, ExactCharges
    <2>2. Cardinality(Promise!Slots) < MaxPending
      BY <1>1, <1>3, SlotsAreQueue DEF CommitsAdmission, StoreInv, RoomInv, Admits
    <2>3. work' = [work EXCEPT ![id] = [failures |-> 0, gen |-> 0]]
      <3>1. pending'[id] = tx[s].put[id] /\ tx[s].put[id] # NoRow /\ id \in Events
            /\ Unfailed(tx[s].put[id], 0)
        BY <1>1, <1>3 DEF CommitsAdmission, TypeOK, Draft, AcceptDraft
      <3>2. Slot(id)' = [failures |-> 0, gen |-> 0]
        BY <3>1 DEF Slot, Unfailed
      <3>3. \A e \in Events \ {id} : Slot(e)' = Slot(e)
        BY <1>1, <1>2, <1>3 DEF CommitsAdmission, TypeOK
      <3>. QED
        BY <3>1, <3>2, <3>3
    <2>4. Promise!Admit(id, c)
      BY <1>2, <1>3, <2>2, <2>3, SameCardinality DEF CommitsAdmission, Promise!Admit, Slot
    <2>. QED
      BY <2>1, <2>4 DEF Promise!Next
  <1>4. CASE CommitsNothing(s)
    BY <1>2, <1>4 DEF CommitsNothing, Promise!vars
  <1>5. CASE CommitsSuccessors(s) /\ call[s].op = "process"
    <2> PICK good \in SUBSET Events, bad \in SUBSET Events :
          good = tx[s].gone /\ bad = {e \in Events : tx[s].put[e] # NoRow}
      BY <1>5 DEF CommitsSuccessors
    <2>1. /\ good \cup bad \subseteq tx[s].locks /\ tx[s].locks \subseteq Events
          /\ \A e \in tx[s].locks : pending[e] # NoRow /\ pending[e].failures < Quarantine
          /\ \A e \in bad : e \notin good /\ OneMoreFailure(tx[s].put[e], pending[e])
      BY <1>1, <1>5 DEF CommitsSuccessors, Draft, BatchDraft
    <2>2. Cardinality(good \cup bad) <= BatchLimit
      <3>1. IsFiniteSet(tx[s].locks) /\ Cardinality(tx[s].locks) <= BatchLimit
        BY <1>1, <1>5, <2>1, EventsAssumption, FS_Subset DEF Draft, BatchDraft
      <3>2. /\ Cardinality(good \cup bad) <= Cardinality(tx[s].locks)
            /\ Cardinality(good \cup bad) \in Nat /\ Cardinality(tx[s].locks) \in Nat
        BY <2>1, <3>1, FS_Subset, FS_CardinalityType
      <3>. QED
        BY <3>1, <3>2, LimitsAssumption
    <2>3. \A e \in good \cup bad : e \in Promise!Slots /\ work[e].failures < Quarantine
      BY <1>1, <2>1, SlotsAreQueue DEF Queue, Slot
    <2>4. work' = [e \in Events |->
                    IF e \in good THEN NoRow
                    ELSE IF e \in bad THEN [work[e] EXCEPT !.failures = @ + 1]
                    ELSE work[e]]
      <3>1. ASSUME NEW e \in Events
            PROVE  Slot(e)' = IF e \in good THEN NoRow
                              ELSE IF e \in bad THEN [Slot(e) EXCEPT !.failures = @ + 1]
                              ELSE Slot(e)
        <4>1. CASE e \in good
          BY <1>5, <4>1 DEF CommitsSuccessors, Slot
        <4>2. CASE e \in bad
          <5>1. /\ pending'[e] = tx[s].put[e] /\ tx[s].put[e] # NoRow /\ pending[e] # NoRow
                /\ tx[s].put[e].failures = pending[e].failures + 1
                /\ tx[s].put[e].gen = pending[e].gen
            BY <1>5, <2>1, <4>2 DEF CommitsSuccessors, OneMoreFailure
          <5>2. Slot(e)' = [failures |-> pending[e].failures + 1, gen |-> pending[e].gen]
            BY <5>1 DEF Slot
          <5>3. Slot(e) = [failures |-> pending[e].failures, gen |-> pending[e].gen]
            BY <5>1 DEF Slot
          <5>. QED
            BY <2>1, <4>2, <5>2, <5>3
        <4>3. CASE e \notin good \cup bad
          BY <1>2, <1>5, <4>3 DEF CommitsSuccessors
        <4>. QED
          BY <4>1, <4>2, <4>3
      <3>. QED
        BY <3>1
    <2>5. CASE good \cup bad # {}
      <3>1. Promise!Settle(good, bad)
        BY <1>2, <1>5, <2>1, <2>2, <2>3, <2>4, <2>5, SameCardinality
        DEF Promise!Settle, CommitsSuccessors, Slot
      <3>. QED
        BY <2>1, <3>1 DEF Promise!Next
    <2>6. CASE good \cup bad = {}
      <3>1. work' = work /\ usage' = usage /\ ledger' = ledger
        BY <1>5, <2>4, <2>6 DEF CommitsSuccessors
      <3>. QED
        BY <1>2, <1>5, <3>1 DEF Promise!vars, Slot
    <2>. QED
      BY <2>5, <2>6
  <1>6. CASE CommitsSuccessors(s) /\ call[s].op = "retry"
    <2>1. /\ tx[s].gone = {} /\ usage' = usage /\ ledger' = ledger
          /\ \A e \in Events : pending'[e] = IF tx[s].put[e] # NoRow THEN tx[s].put[e] ELSE pending[e]
      BY <1>1, <1>6 DEF CommitsSuccessors, Draft, RetryDraft
    <2> PICK id \in Events, g \in RetryGens : id = call[s].id /\ g = call[s].gen
      BY <1>6, CallKinds DEF StoreInv, RetryCall
    <2>2. CASE tx[s].put[id] = NoRow
      <3>1. \A e \in Events : tx[s].put[e] = NoRow
        BY <1>1, <1>6, <2>2 DEF Draft, RetryDraft
      <3>2. \A e \in Events : Slot(e)' = Slot(e)
        BY <1>2, <2>1, <3>1
      <3>3. revived' = revived
        BY <2>2 DEF Apply
      <3>. QED
        BY <2>1, <3>2, <3>3 DEF Promise!vars, Slot
    <2>3. CASE tx[s].put[id] # NoRow
      <3>1. /\ pending[id].failures = Quarantine /\ pending[id].gen = g
            /\ pending[id] # NoRow /\ Unfailed(tx[s].put[id], g + 1)
            /\ \A f \in Events \ {id} : tx[s].put[f] = NoRow
        BY <1>1, <1>6, <2>3 DEF Draft, RetryDraft, CommitsSuccessors
      <3>2. /\ Slot(id)' = [failures |-> 0, gen |-> g + 1]
            /\ Slot(id) = [failures |-> Quarantine, gen |-> g]
        BY <2>1, <2>3, <3>1 DEF Slot, Unfailed
      <3>3. \A f \in Events \ {id} : Slot(f)' = Slot(f)
        BY <1>2, <2>1, <3>1
      <3>4. work' = [work EXCEPT ![id] = [failures |-> 0, gen |-> g + 1]]
        BY <3>2, <3>3
      <3>5. id \in Promise!Slots /\ work[id] = [failures |-> Quarantine, gen |-> g]
        BY <1>1, <3>1, <3>2, SlotsAreQueue DEF Queue
      <3>6. revived' = [revived EXCEPT ![id][g] = @ + 1]
        BY <1>6, <2>3 DEF Apply
      <3>7. Promise!Reactivate(id, g)
        BY <2>1, <3>4, <3>5, <3>6 DEF Promise!Reactivate, Slot
      <3>. QED
        BY <3>7 DEF Promise!Next
    <2>. QED
      BY <2>2, <2>3
  <1>. QED
    BY <1>3, <1>4, <1>5, <1>6, ApplyCases DEF CommitsSuccessors

\* The transactions of the store implement UsageLedger: the durable tables change
\* only by an admission, by settling one batch, or by one reactivation for a
\* request that names the generation it found.
THEOREM StoreKeepsPromise == Spec => KeepsPromise
  <1>1. Init => Promise!Init
    BY DEF Init, Promise!Init
  <1>2. StoreInv /\ StoreInv' /\ SafetyInv /\ [Next]_vars => [Promise!Next]_(Promise!vars)
    <2> SUFFICES ASSUME StoreInv, StoreInv', SafetyInv, [Next]_vars
                 PROVE  [Promise!Next]_(Promise!vars)
      OBVIOUS
    <2>1. CASE UNCHANGED <<tables, revived>>
      BY <2>1 DEF tables, Promise!vars
    <2>2. ASSUME NEW s \in Conns, Commit(s) \/ LateCommit(s)
          PROVE  [Promise!Next]_(Promise!vars)
      BY <2>2, CommitKeepsPromise DEF Commit, LateCommit
    <2>. QED
      BY <2>1, <2>2, WritersCommit DEF AnswerOverflowing, history
  <1>. QED
    BY <1>1, <1>2, StoreInvariant, SafetyInvariant, PTL DEF Spec, KeepsPromise, Promise!Spec
-----------------------------------------------------------------------------
(* 5. The reports.  A sum over a set is a recursion over its subsets; what it *)
(* computes is shown by induction over the size of the set.                  *)

\* Induction over numbers, for a property given as the set of numbers that have it.
LEMMA AllNumbers ==
    ASSUME NEW Good, 0 \in Good, \A n \in Nat : n \in Good => n + 1 \in Good
    PROVE  \A n \in Nat : n \in Good
  <1> DEFINE Bad == {n \in Nat : n \notin Good}
  <1>1. SUFFICES ASSUME Bad # {} PROVE FALSE
    OBVIOUS
  <1>2. PICK x \in Bad : \A y \in Bad : x <= y
    BY <1>1, LeastNumber
  <1>3. x \in Nat /\ x # 0 /\ x \notin Good
    OBVIOUS
  <1>4. x - 1 \in Nat /\ x - 1 \notin Bad
    BY <1>2, <1>3
  <1>. QED
    BY <1>3, <1>4

\* The element that the fold of the library removes first.
First(s) == CHOOSE x \in s : TRUE

\* f is the recursive function by which the library adds up g over subsets of S.
Adds(f, g, S) ==
    f = [s \in SUBSET S |-> IF s = {} THEN 0 ELSE g[First(s)] + f[s \ {First(s)}]]

LEMMA FirstIsThere == ASSUME NEW s, s # {} PROVE First(s) \in s
  BY DEF First

\* What a smaller set is.
LEMMA OneLess ==
    ASSUME NEW s, IsFiniteSet(s), NEW x \in s
    PROVE  /\ IsFiniteSet(s \ {x}) /\ Cardinality(s) \in Nat /\ Cardinality(s) > 0
           /\ Cardinality(s \ {x}) \in Nat /\ Cardinality(s \ {x}) = Cardinality(s) - 1
  <1>1. IsFiniteSet(s \ {x}) /\ Cardinality(s \ {x}) = Cardinality(s) - 1
    BY FS_RemoveElement
  <1>2. Cardinality(s) \in Nat /\ Cardinality(s \ {x}) \in Nat
    BY <1>1, FS_CardinalityType
  <1>. QED
    BY <1>1, <1>2

\* The recursion is well defined on a finite set.
LEMMA AddsExists ==
    ASSUME NEW S, IsFiniteSet(S), NEW g
    PROVE  \E f : Adds(f, g, S)
  <1> DEFINE Small(n) == {s \in SUBSET S : Cardinality(s) <= n}
             Upto(f, n) == f = [s \in Small(n) |->
                                  IF s = {} THEN 0 ELSE g[First(s)] + f[s \ {First(s)}]]
             Good == {n \in Nat : \E f : Upto(f, n)}
  <1>1. \A s \in SUBSET S : IsFiniteSet(s) /\ Cardinality(s) \in Nat /\ Cardinality(s) <= Cardinality(S)
    BY FS_Subset, FS_CardinalityType
  <1>2. 0 \in Good
    <2>1. \A s \in Small(0) : s = {}
      BY <1>1, FS_EmptySet
    <2>2. Upto([s \in Small(0) |-> 0], 0)
      BY <2>1
    <2>. QED
      BY <2>2
  <1>3. ASSUME NEW n \in Nat, n \in Good PROVE n + 1 \in Good
    <2>1. PICK f : Upto(f, n)
      BY <1>3
    <2> DEFINE h == [s \in Small(n + 1) |->
                       IF s = {} THEN 0 ELSE g[First(s)] + f[s \ {First(s)}]]
    <2>2. ASSUME NEW s \in Small(n) PROVE s \in Small(n + 1) /\ h[s] = f[s]
      <3>1. s \in Small(n + 1)
        BY <1>1
      <3>. QED
        BY <2>1, <3>1
    <2>3. ASSUME NEW s \in Small(n + 1), s # {} PROVE s \ {First(s)} \in Small(n)
      <3>1. First(s) \in s /\ IsFiniteSet(s)
        BY <1>1, <2>3, FirstIsThere
      <3>. QED
        BY <3>1, OneLess
    <2>4. Upto(h, n + 1)
      BY <2>2, <2>3
    <2> HIDE DEF h
    <2>5. \E k : Upto(k, n + 1)
      BY <2>4
    <2> HIDE DEF Upto
    <2>. QED
      BY <2>5
  <1> HIDE DEF Good
  <1>4. Cardinality(S) \in Nat /\ Cardinality(S) \in Good
    BY <1>2, <1>3, AllNumbers, FS_CardinalityType
  <1>5. PICK f : Upto(f, Cardinality(S))
    BY <1>4 DEF Good
  <1>6. Small(Cardinality(S)) = SUBSET S
    BY <1>1
  <1>. QED
    BY <1>5, <1>6 DEF Adds

\* Two such sums agree where their terms do, and sums of numbers are numbers.
LEMMA AddsAgree ==
    ASSUME NEW S, IsFiniteSet(S), NEW g, NEW f, Adds(f, g, S),
           NEW T, NEW k, NEW h, Adds(h, k, T),
           NEW u, u \subseteq S, u \subseteq T, \A x \in u : g[x] = k[x] /\ g[x] \in Nat
    PROVE  f[u] = h[u] /\ f[u] \in Nat
  <1> DEFINE Good == {n \in Nat : \A s \in SUBSET u :
                        Cardinality(s) = n => f[s] = h[s] /\ f[s] \in Nat}
  <1>1. \A s \in SUBSET u : IsFiniteSet(s) /\ Cardinality(s) \in Nat
    BY FS_Subset, FS_CardinalityType
  <1>2. ASSUME NEW s \in SUBSET u
        PROVE  /\ s = {} => f[s] = 0 /\ h[s] = 0
               /\ s # {} => /\ f[s] = g[First(s)] + f[s \ {First(s)}]
                            /\ h[s] = k[First(s)] + h[s \ {First(s)}]
    <2>1. s \in SUBSET S /\ s \in SUBSET T
      OBVIOUS
    <2>. QED
      BY <2>1 DEF Adds
  <1>3. 0 \in Good
    BY <1>1, <1>2, FS_EmptySet
  <1>4. ASSUME NEW n \in Nat, n \in Good PROVE n + 1 \in Good
    <2>1. SUFFICES ASSUME NEW s \in SUBSET u, Cardinality(s) = n + 1
                   PROVE  f[s] = h[s] /\ f[s] \in Nat
      OBVIOUS
    <2>2. s # {}
      BY <2>1, FS_EmptySet
    <2>3. First(s) \in s /\ IsFiniteSet(s)
      BY <1>1, <2>2, FirstIsThere
    <2>4. Cardinality(s \ {First(s)}) = n
      BY <2>1, <2>3, OneLess
    <2>5. f[s \ {First(s)}] = h[s \ {First(s)}] /\ f[s \ {First(s)}] \in Nat
      BY <1>4, <2>4
    <2>6. /\ f[s] = g[First(s)] + f[s \ {First(s)}]
          /\ h[s] = k[First(s)] + h[s \ {First(s)}]
      BY <1>2, <2>2
    <2>7. g[First(s)] = k[First(s)] /\ g[First(s)] \in Nat
      BY <2>3
    <2>. QED
      BY <2>5, <2>6, <2>7
  <1> HIDE DEF Good
  <1>5. Cardinality(u) \in Good
    BY <1>1, <1>3, <1>4, AllNumbers
  <1>. QED
    BY <1>5 DEF Good

\* Any element may be taken out first.
LEMMA AddsAny ==
    ASSUME NEW S, IsFiniteSet(S), NEW g \in [S -> Nat], NEW f, Adds(f, g, S),
           NEW u \in SUBSET S, NEW z \in u
    PROVE  f[u] = g[z] + f[u \ {z}]
  <1> DEFINE Good == {n \in Nat : \A s \in SUBSET S : \A x \in s :
                        Cardinality(s) = n => f[s] = g[x] + f[s \ {x}]}
  <1>1. \A s \in SUBSET S : IsFiniteSet(s) /\ Cardinality(s) \in Nat
    BY FS_Subset, FS_CardinalityType
  <1>2. ASSUME NEW s \in SUBSET S
        PROVE  f[s] \in Nat /\ (s # {} => f[s] = g[First(s)] + f[s \ {First(s)}])
    <2>1. f[s] \in Nat
      BY AddsAgree
    <2>. QED
      BY <2>1 DEF Adds
  <1>3. 0 \in Good
    BY <1>1, FS_EmptySet
  <1>4. ASSUME NEW n \in Nat, n \in Good PROVE n + 1 \in Good
    <2>1. SUFFICES ASSUME NEW s \in SUBSET S, NEW x \in s, Cardinality(s) = n + 1
                   PROVE  f[s] = g[x] + f[s \ {x}]
      OBVIOUS
    <2> DEFINE c == First(s)
    <2>2. c \in s /\ IsFiniteSet(s) /\ f[s] = g[c] + f[s \ {c}]
      BY <1>1, <1>2, FirstIsThere
    <2> HIDE DEF c
    <2>3. CASE x = c
      BY <2>2, <2>3
    <2>4. CASE x # c
      <3>1. Cardinality(s \ {c}) = n /\ Cardinality(s \ {x}) = n
        BY <2>1, <2>2, OneLess
      <3>2. /\ s \ {c} \in SUBSET S /\ x \in s \ {c}
            /\ s \ {x} \in SUBSET S /\ c \in s \ {x}
        BY <2>2, <2>4
      <3>3. f[s \ {c}] = g[x] + f[(s \ {c}) \ {x}]
        BY <1>4, <3>1, <3>2
      <3>4. f[s \ {x}] = g[c] + f[(s \ {x}) \ {c}]
        BY <1>4, <3>1, <3>2
      <3>5. (s \ {x}) \ {c} = (s \ {c}) \ {x}
        OBVIOUS
      <3>6. f[(s \ {c}) \ {x}] \in Nat /\ g[c] \in Nat /\ g[x] \in Nat
        BY <1>2, <2>2
      <3>. QED
        BY <2>2, <3>3, <3>4, <3>5, <3>6
    <2>. QED
      BY <2>3, <2>4
  <1> HIDE DEF Good
  <1>5. Cardinality(u) \in Good
    BY <1>1, <1>3, <1>4, AllNumbers
  <1>. QED
    BY <1>5 DEF Good

\* SumFunction is such a sum.
LEMMA SumAdds ==
    ASSUME NEW g, NEW f, Adds(f, g, DOMAIN g)
    PROVE  \E h : Adds(h, g, DOMAIN g) /\ SumFunction(g) = h[DOMAIN g]
  BY DEF SumFunction, SumFunctionOnSet, FoldFunctionOnSet, MapThenFoldSet, Adds, First

\* What SumFunction computes, for a finite family of numbers.
LEMMA SumFacts ==
    ASSUME NEW S, IsFiniteSet(S), NEW g \in [S -> Nat]
    PROVE  /\ SumFunction(g) \in Nat
           /\ S = {} => SumFunction(g) = 0
           /\ \A x \in S : SumFunction(g) = g[x] + SumFunction([y \in S \ {x} |-> g[y]])
  <1>1. ASSUME NEW R, IsFiniteSet(R), NEW k \in [R -> Nat]
        PROVE  \E f : Adds(f, k, R) /\ SumFunction(k) = f[R]
    <2>1. \E f : Adds(f, k, R)
      BY <1>1, AddsExists
    <2>2. DOMAIN k = R
      OBVIOUS
    <2>. QED
      BY <2>1, <2>2, SumAdds
  <1>2. PICK f : Adds(f, g, S) /\ SumFunction(g) = f[S]
    BY <1>1
  <1>3. SumFunction(g) \in Nat
    BY <1>2, AddsAgree
  <1>4. S = {} => SumFunction(g) = 0
    BY <1>2 DEF Adds
  <1>5. ASSUME NEW x \in S PROVE SumFunction(g) = g[x] + SumFunction([y \in S \ {x} |-> g[y]])
    <2> DEFINE k == [y \in S \ {x} |-> g[y]]
    <2>1. IsFiniteSet(S \ {x}) /\ k \in [S \ {x} -> Nat] /\ \A y \in S \ {x} : k[y] = g[y] /\ k[y] \in Nat
      BY FS_RemoveElement
    <2> HIDE DEF k
    <2>2. PICK h : Adds(h, k, S \ {x}) /\ SumFunction(k) = h[S \ {x}]
      BY <1>1, <2>1
    <2>3. h[S \ {x}] = f[S \ {x}]
      BY <1>2, <2>1, <2>2, AddsAgree
    <2>4. f[S] = g[x] + f[S \ {x}]
      BY <1>2, AddsAny
    <2>. QED
      BY <1>2, <2>2, <2>3, <2>4 DEF k
  <1>. QED
    BY <1>3, <1>4, <1>5


\* The same with a name for the rest of the family.
LEMMA SumRemove ==
    ASSUME NEW S, IsFiniteSet(S), NEW g \in [S -> Nat], NEW x \in S,
           NEW k, k = [y \in S \ {x} |-> g[y]]
    PROVE  SumFunction(g) = g[x] + SumFunction(k)
  BY SumFacts

\* A family that has more terms, or larger ones, has the larger sum.
LEMMA SumGrows ==
    ASSUME NEW T, IsFiniteSet(T), NEW k \in [T -> Nat],
           NEW S, S \subseteq T, NEW g \in [S -> Nat], \A x \in S : g[x] <= k[x]
    PROVE  SumFunction(g) <= SumFunction(k)
  <1> DEFINE Below(A, p, B, q) ==
               /\ IsFiniteSet(B) /\ A \subseteq B /\ p \in [A -> Nat] /\ q \in [B -> Nat]
               /\ \A x \in A : p[x] <= q[x]
             Good == {n \in Nat : \A A, p, B, q :
                        Below(A, p, B, q) /\ Cardinality(B) = n => SumFunction(p) <= SumFunction(q)}
  <1>1. 0 \in Good
    <2> SUFFICES ASSUME NEW A, NEW p, NEW B, NEW q, Below(A, p, B, q), Cardinality(B) = 0
                 PROVE  SumFunction(p) <= SumFunction(q)
      OBVIOUS
    <2>1. A = {} /\ B = {}
      BY FS_EmptySet
    <2>2. SumFunction(p) = 0 /\ SumFunction(q) = 0
      BY <2>1, FS_EmptySet, SumFacts
    <2>. QED
      BY <2>2
  <1>2. ASSUME NEW n \in Nat, n \in Good PROVE n + 1 \in Good
    <2> SUFFICES ASSUME NEW A, NEW p, NEW B, NEW q, Below(A, p, B, q), Cardinality(B) = n + 1
                 PROVE  SumFunction(p) <= SumFunction(q)
      OBVIOUS
    <2>1. PICK x \in B : TRUE
      BY FS_EmptySet
    <2> DEFINE q1 == [y \in B \ {x} |-> q[y]]
               p1 == [y \in A \ {x} |-> p[y]]
    <2>2. IsFiniteSet(B \ {x}) /\ Cardinality(B \ {x}) = n /\ IsFiniteSet(A) /\ IsFiniteSet(A \ {x})
      <3>1. IsFiniteSet(B \ {x}) /\ Cardinality(B \ {x}) = n
        BY OneLess
      <3>2. IsFiniteSet(A)
        BY FS_Subset
      <3>. QED
        BY <3>1, <3>2, FS_RemoveElement
    <2>3. q1 \in [B \ {x} -> Nat] /\ p1 \in [A \ {x} -> Nat] /\ q[x] \in Nat
      OBVIOUS
    <2>4. SumFunction(q) = q[x] + SumFunction(q1) /\ SumFunction(q1) \in Nat
      <3>1. IsFiniteSet(B) /\ q \in [B -> Nat] /\ q1 = [y \in B \ {x} |-> q[y]]
        OBVIOUS
      <3> HIDE DEF q1, Below, Good
      <3>2. SumFunction(q) = q[x] + SumFunction(q1)
        BY <3>1, SumRemove
      <3>. QED
        BY <2>2, <2>3, <3>2, SumFacts
    <2>5. Below(A \ {x}, p1, B \ {x}, q1)
      BY <2>2
    <2>6. SumFunction(p1) <= SumFunction(q1)
      BY <1>2, <2>2, <2>5
    <2>7. SumFunction(p) \in Nat /\ SumFunction(p1) \in Nat
      BY <2>2, <2>3, SumFacts
    <2>8. CASE x \in A
      <3>1. SumFunction(p) = p[x] + SumFunction(p1)
        <4>1. p \in [A -> Nat] /\ p1 = [y \in A \ {x} |-> p[y]]
          OBVIOUS
        <4> HIDE DEF p1, Below, Good
        <4>. QED
          BY <2>2, <2>8, <4>1, SumRemove
      <3>2. p[x] \in Nat /\ p[x] <= q[x]
        BY <2>8
      <3> HIDE DEF p1, q1
      <3>. QED
        BY <2>3, <2>4, <2>6, <2>7, <3>1, <3>2
    <2>9. CASE x \notin A
      <3>1. A \ {x} = A /\ p1 = p
        BY <2>9
      <3> HIDE DEF p1, q1
      <3>. QED
        BY <2>3, <2>4, <2>6, <2>7, <3>1
    <2>. QED
      BY <2>8, <2>9
  <1>3. Below(S, g, T, k) /\ Cardinality(T) \in Nat
    BY FS_CardinalityType
  <1> HIDE DEF Good
  <1>4. Cardinality(T) \in Good
    BY <1>1, <1>2, <1>3, AllNumbers
  <1> HIDE DEF Below
  <1>. QED
    BY <1>3, <1>4 DEF Good

\* The elements of Q, shared out by of, are counted class by class.
LEMMA SumOfParts ==
    ASSUME NEW Q, IsFiniteSet(Q), NEW of, NEW C, IsFiniteSet(C)
    PROVE  SumFunction([c \in C |-> Cardinality({e \in Q : of[e] = c})])
             = Cardinality({e \in Q : of[e] \in C})
  <1> DEFINE Part(c) == {e \in Q : of[e] = c}
             Parts(D) == {e \in Q : of[e] \in D}
             Sizes(D) == [c \in D |-> Cardinality(Part(c))]
             Good == {n \in Nat : \A D : IsFiniteSet(D) /\ Cardinality(D) = n =>
                        SumFunction(Sizes(D)) = Cardinality(Parts(D))}
  <1>1. ASSUME NEW D
        PROVE  /\ IsFiniteSet(Parts(D)) /\ Cardinality(Parts(D)) \in Nat
               /\ Sizes(D) \in [D -> Nat]
    <2>1. IsFiniteSet(Parts(D)) /\ \A c \in D : IsFiniteSet(Part(c))
      BY FS_Subset
    <2>2. \A c \in D : Cardinality(Part(c)) \in Nat
      BY <2>1, FS_CardinalityType
    <2> HIDE DEF Part, Parts
    <2>. QED
      BY <2>1, <2>2, FS_CardinalityType
  <1>2. 0 \in Good
    <2> SUFFICES ASSUME NEW D, IsFiniteSet(D), Cardinality(D) = 0
                 PROVE  SumFunction(Sizes(D)) = Cardinality(Parts(D))
      OBVIOUS
    <2>1. D = {} /\ Parts(D) = {}
      BY FS_EmptySet
    <2>2. SumFunction(Sizes(D)) = 0
      BY <1>1, <2>1, SumFacts
    <2>. QED
      BY <2>1, <2>2, FS_EmptySet
  <1>3. ASSUME NEW n \in Nat, n \in Good PROVE n + 1 \in Good
    <2> SUFFICES ASSUME NEW D, IsFiniteSet(D), Cardinality(D) = n + 1
                 PROVE  SumFunction(Sizes(D)) = Cardinality(Parts(D))
      OBVIOUS
    <2>1. PICK x \in D : TRUE
      BY FS_EmptySet
    <2>2. IsFiniteSet(D \ {x}) /\ Cardinality(D \ {x}) = n
      BY OneLess
    <2>3. SumFunction(Sizes(D \ {x})) = Cardinality(Parts(D \ {x}))
      BY <1>3, <2>2
    <2>4. [y \in D \ {x} |-> Sizes(D)[y]] = Sizes(D \ {x}) /\ Sizes(D)[x] = Cardinality(Part(x))
      OBVIOUS
    <2>5. SumFunction(Sizes(D)) = Cardinality(Part(x)) + SumFunction(Sizes(D \ {x}))
      <3> HIDE DEF Sizes, Part
      <3>1. PICK g : g = Sizes(D)
        OBVIOUS
      <3>2. g \in [D -> Nat]
        BY <1>1, <3>1
      <3>3. Sizes(D \ {x}) = [y \in D \ {x} |-> g[y]] /\ g[x] = Cardinality(Part(x))
        BY <2>4, <3>1
      <3>. QED
        BY <3>1, <3>2, <3>3, SumRemove
    <2>6. /\ Parts(D) = Parts(D \ {x}) \cup Part(x)
          /\ Parts(D \ {x}) \cap Part(x) = {}
      OBVIOUS
    <2>7. IsFiniteSet(Part(x)) /\ Cardinality(Part(x)) \in Nat
      <3>1. IsFiniteSet(Part(x))
        BY FS_Subset
      <3>. QED
        BY <3>1, FS_CardinalityType
    <2>8. /\ IsFiniteSet(Parts(D \ {x})) /\ Cardinality(Parts(D \ {x})) \in Nat
      BY <1>1
    <2> HIDE DEF Parts, Part, Sizes
    <2>9. Cardinality(Parts(D)) = Cardinality(Parts(D \ {x})) + Cardinality(Part(x))
      <3>1. Cardinality(Parts(D \ {x}) \cap Part(x)) = 0
        BY <2>6, FS_EmptySet
      <3>2. Cardinality(Parts(D \ {x}) \cup Part(x))
              = Cardinality(Parts(D \ {x})) + Cardinality(Part(x))
                  - Cardinality(Parts(D \ {x}) \cap Part(x))
        BY <2>7, <2>8, FS_Union
      <3>. QED
        BY <2>6, <2>7, <2>8, <3>1, <3>2
    <2>. QED
      BY <2>3, <2>5, <2>7, <2>8, <2>9
  <1>4. Cardinality(C) \in Nat
    BY FS_CardinalityType
  <1> HIDE DEF Good
  <1>5. Cardinality(C) \in Good
    BY <1>2, <1>3, <1>4, AllNumbers
  <1>. QED
    BY <1>5 DEF Good
-----------------------------------------------------------------------------
\* Two disjoint finite sets are counted together.
LEMMA DisjointCount ==
    ASSUME NEW A, NEW B, IsFiniteSet(A), IsFiniteSet(B), A \cap B = {}
    PROVE  /\ IsFiniteSet(A \cup B)
           /\ Cardinality(A \cup B) = Cardinality(A) + Cardinality(B)
  <1>1. Cardinality(A \cap B) = 0 /\ Cardinality(A) \in Nat /\ Cardinality(B) \in Nat
    BY FS_EmptySet, FS_CardinalityType
  <1>2. /\ IsFiniteSet(A \cup B)
        /\ Cardinality(A \cup B) = Cardinality(A) + Cardinality(B) - Cardinality(A \cap B)
    BY FS_Union
  <1>. QED
    BY <1>1, <1>2

\* Every row of the queue belongs to the customer of its charge.
LEMMA QueueRows ==
    ASSUME StoreInv, DraftsInv, NEW e \in Events
    PROVE  /\ usage[e] # NoRow => usage[e].input.customer \in Customers
           /\ (usage[e] # NoRow) <=> (pending[e] # NoRow \/ e \in ledger)
           /\ ~(pending[e] # NoRow /\ e \in ledger)
           /\ pending[e] # NoRow => pending[e].failures \in 0..Quarantine
  <1>1. usage[e] # NoRow => usage[e].input \in Inputs
    BY DEF StoreInv, TypeOK, UsageRow
  <1>2. pending[e] # NoRow => pending[e].failures \in 0..Quarantine
    BY DEF DraftsInv, TableInv, PendingChecks
  <1>. QED
    BY <1>1, <1>2 DEF StoreInv, OneHome, Customers

\* A summary counts each accepted event of its customer once.
LEMMA SummaryCounts ==
    ASSUME StoreInv, DraftsInv, NEW c \in Customers
    PROVE  Summary(c).pending + Summary(c).processed + Summary(c).failed = Cardinality(Accepted(c))
  <1> DEFINE A == Accepted(c)
             W == Waiting(A)
             B == Billed(c)
             F == SetAside(A)
  <1>1. A \subseteq Events /\ \A e \in A : usage[e] # NoRow
    BY DEF Accepted
  <1>2. \A e \in A : pending[e] # NoRow => pending[e].failures < Quarantine \/ pending[e].failures = Quarantine
    BY <1>1, QueueRows DEF Quarantine
  <1>3. A = (W \cup B) \cup F /\ W \cap B = {} /\ (W \cup B) \cap F = {}
    BY <1>1, <1>2, QueueRows DEF Waiting, SetAside, Billed, Quarantine
  <1>4. IsFiniteSet(W) /\ IsFiniteSet(B) /\ IsFiniteSet(F)
    <2>1. W \subseteq Events /\ B \subseteq Events /\ F \subseteq Events
      BY <1>1 DEF Waiting, SetAside, Billed
    <2>. QED
      BY <2>1, EventsAssumption, FS_Subset
  <1>5. Cardinality(A) = Cardinality(W) + Cardinality(B) + Cardinality(F)
    <2> HIDE DEF A, W, B, F
    <2>1. IsFiniteSet(W \cup B) /\ Cardinality(W \cup B) = Cardinality(W) + Cardinality(B)
      BY <1>3, <1>4, DisjointCount
    <2>. QED
      BY <1>3, <1>4, <2>1, DisjointCount
  <1>. QED
    BY <1>5 DEF Summary

\* The customers' counts of queue rows in a state add up to the count over the table.
LEMMA CustomersCount ==
    ASSUME NEW Q, Q \subseteq Events,
           \A e \in Q : usage[e] # NoRow /\ usage[e].input.customer \in Customers
    PROVE  Cardinality(Q) = SumFunction([c \in Customers |-> Cardinality(Q \cap Accepted(c))])
  <1> DEFINE of == [e \in Events |-> usage[e].input.customer]
  <1>1. IsFiniteSet(Q)
    BY EventsAssumption, FS_Subset
  <1>2. \A c \in Customers : Q \cap Accepted(c) = {e \in Q : of[e] = c}
    BY DEF Accepted
  <1>3. Q = {e \in Q : of[e] \in Customers}
    OBVIOUS
  <1> HIDE DEF of
  <1>4. SumFunction([c \in Customers |-> Cardinality({e \in Q : of[e] = c})])
          = Cardinality({e \in Q : of[e] \in Customers})
    BY <1>1, CustomersAssumption, SumOfParts
  <1>5. [c \in Customers |-> Cardinality({e \in Q : of[e] = c})]
          = [c \in Customers |-> Cardinality(Q \cap Accepted(c))]
    BY <1>2
  <1>. QED
    BY <1>3, <1>4, <1>5

\* Both reports account for every accepted event exactly once, in every state that
\* a reader can see (Summary, QueueStats).
THEOREM ReportsAlwaysAgree == Spec => []ReportsAgree
  <1>1. StoreInv /\ SafetyInv => ReportsAgree
    <2> SUFFICES ASSUME StoreInv, DraftsInv PROVE ReportsAgree
      BY DEF SafetyInv
    <2>1. \A e \in Events : pending[e] # NoRow =>
            usage[e] # NoRow /\ usage[e].input.customer \in Customers
      BY QueueRows
    <2>2. QueueStats.pending = SumFunction([c \in Customers |-> Summary(c).pending])
      <3>1. \A c \in Customers : Summary(c).pending = Cardinality(Waiting(Events) \cap Accepted(c))
        <4>1. \A c \in Customers : Waiting(Accepted(c)) = Waiting(Events) \cap Accepted(c)
          BY DEF Waiting, Accepted
        <4>. QED
          BY <4>1 DEF Summary
      <3>2. [c \in Customers |-> Summary(c).pending]
              = [c \in Customers |-> Cardinality(Waiting(Events) \cap Accepted(c))]
        BY <3>1
      <3>3. Waiting(Events) \subseteq Events /\ \A e \in Waiting(Events) : pending[e] # NoRow
        BY DEF Waiting
      <3>4. Cardinality(Waiting(Events))
              = SumFunction([c \in Customers |-> Cardinality(Waiting(Events) \cap Accepted(c))])
        BY <2>1, <3>3, CustomersCount
      <3>. QED
        BY <3>2, <3>4 DEF QueueStats
    <2>3. QueueStats.failed = SumFunction([c \in Customers |-> Summary(c).failed])
      <3>1. \A c \in Customers : Summary(c).failed = Cardinality(SetAside(Events) \cap Accepted(c))
        <4>1. \A c \in Customers : SetAside(Accepted(c)) = SetAside(Events) \cap Accepted(c)
          BY DEF SetAside, Accepted
        <4>. QED
          BY <4>1 DEF Summary
      <3>2. [c \in Customers |-> Summary(c).failed]
              = [c \in Customers |-> Cardinality(SetAside(Events) \cap Accepted(c))]
        BY <3>1
      <3>3. SetAside(Events) \subseteq Events /\ \A e \in SetAside(Events) : pending[e] # NoRow
        BY DEF SetAside
      <3>4. Cardinality(SetAside(Events))
              = SumFunction([c \in Customers |-> Cardinality(SetAside(Events) \cap Accepted(c))])
        BY <2>1, <3>3, CustomersCount
      <3>. QED
        BY <3>2, <3>4 DEF QueueStats
    <2>. QED
      BY <2>2, <2>3, SummaryCounts DEF ReportsAgree
  <1>. QED
    BY <1>1, StoreInvariant, SafetyInvariant, PTL

\* A step keeps every charge and every posting.
LEMMA PostingsStay ==
    ASSUME StoreInv, StoreInv', [Next]_vars
    PROVE  /\ \A e \in Events : usage[e] # NoRow => usage'[e] = usage[e]
           /\ ledger \subseteq ledger'
  <1>1. CASE UNCHANGED tables
    BY <1>1 DEF tables
  <1>2. ASSUME NEW s \in Conns, Commit(s) \/ LateCommit(s)
        PROVE  /\ \A e \in Events : usage[e] # NoRow => usage'[e] = usage[e]
               /\ ledger \subseteq ledger'
    <2>1. pc[s] \in {"commit", "indoubt"} /\ Apply(s)
      BY <1>2 DEF Commit, LateCommit
    <2>2. ledger \subseteq ledger'
      BY <2>1 DEF Apply
    <2>. QED
      BY <2>1, <2>2, ApplyKeeps
  <1>. QED
    BY <1>1, <1>2, WritersCommit DEF AnswerOverflowing

\* A posted event stays on the bill of its customer with the same amounts.
LEMMA BillGrows ==
    ASSUME StoreInv, StoreInv', DraftsInv, DraftsInv', [Next]_vars, NEW c \in Customers
    PROVE  /\ Summary(c)'.units >= Summary(c).units
           /\ Summary(c)'.amount >= Summary(c).amount
           /\ Summary(c)'.processed >= Summary(c).processed
  <1> DEFINE S == Billed(c)
             T == Billed(c)'
             units == [e \in S |-> usage[e].input.units]
             amounts == [e \in S |-> usage[e].amount]
             units1 == [e \in T |-> usage'[e].input.units]
             amounts1 == [e \in T |-> usage'[e].amount]
  <1>1. /\ S \subseteq Events /\ \A e \in S : usage[e] # NoRow
        /\ T \subseteq Events /\ \A e \in T : usage'[e] # NoRow
    BY DEF Billed, Accepted
  <1>2. S \subseteq T /\ \A e \in S : usage'[e] = usage[e]
    BY <1>1, PostingsStay DEF Billed, Accepted
  <1>3. IsFiniteSet(T) /\ Cardinality(S) <= Cardinality(T)
    <2>1. IsFiniteSet(T)
      BY <1>1, EventsAssumption, FS_Subset
    <2>. QED
      BY <1>2, <2>1, FS_Subset
  <1>4. ASSUME NEW e \in S PROVE usage[e].input.units \in Nat /\ usage[e].amount \in Nat
    <2>1. e \in Events /\ usage[e] \in UsageRow /\ UsageChecks(usage[e])
      BY <1>1 DEF StoreInv, TypeOK, DraftsInv, TableInv
    <2>. QED
      BY <2>1, InputsAssumption DEF UsageRow, UsageChecks
  <1>5. ASSUME NEW e \in T PROVE usage'[e].input.units \in Nat /\ usage'[e].amount \in Nat
    <2>1. e \in Events /\ usage'[e] \in UsageRow /\ UsageChecks(usage'[e])
      BY <1>1 DEF StoreInv, TypeOK, DraftsInv, TableInv
    <2>. QED
      BY <2>1, InputsAssumption DEF UsageRow, UsageChecks
  <1>6. /\ units \in [S -> Nat] /\ amounts \in [S -> Nat]
        /\ units1 \in [T -> Nat] /\ amounts1 \in [T -> Nat]
    BY <1>4, <1>5
  <1>7. \A e \in S : units[e] <= units1[e] /\ amounts[e] <= amounts1[e]
    BY <1>2, <1>6
  <1>8. /\ Summary(c).units = SumFunction(units) /\ Summary(c).amount = SumFunction(amounts)
        /\ Summary(c)'.units = SumFunction(units1) /\ Summary(c)'.amount = SumFunction(amounts1)
        /\ Summary(c).processed = Cardinality(S) /\ Summary(c)'.processed = Cardinality(T)
    BY DEF Summary
  <1> HIDE DEF S, T, units, amounts, units1, amounts1
  <1>9. SumFunction(units) <= SumFunction(units1) /\ SumFunction(amounts) <= SumFunction(amounts1)
    BY <1>2, <1>3, <1>6, <1>7, SumGrows
  <1>10. /\ IsFiniteSet(S) /\ Cardinality(S) \in Nat /\ Cardinality(T) \in Nat
    BY <1>2, <1>3, FS_Subset, FS_CardinalityType
  <1>11. /\ SumFunction(units) \in Nat /\ SumFunction(units1) \in Nat
         /\ SumFunction(amounts) \in Nat /\ SumFunction(amounts1) \in Nat
    BY <1>3, <1>6, <1>10, SumFacts
  <1>. QED
    BY <1>3, <1>8, <1>9, <1>10, <1>11

\* What Summary has reported as billed is never taken back.
THEOREM BillsNeverShrink == Spec => BillNeverShrinks
  <1>1. StoreInv /\ StoreInv' /\ SafetyInv /\ SafetyInv' /\ [Next]_vars =>
          [\A c \in Customers :
             /\ Summary(c)'.units >= Summary(c).units
             /\ Summary(c)'.amount >= Summary(c).amount
             /\ Summary(c)'.processed >= Summary(c).processed]_vars
    BY BillGrows DEF SafetyInv
  <1>. QED
    BY <1>1, StoreInvariant, SafetyInvariant, PTL DEF Spec, BillNeverShrinks
=============================================================================

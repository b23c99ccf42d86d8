---------------------------- MODULE HttpApiProofs ----------------------------
(***************************************************************************)
(* Machine-checked proofs about HttpApi, for any number of requests, any   *)
(* menu of questions, any events and any queue limit.                      *)
(*                                                                         *)
(* An answer is compared with the tables long after it was given, so the   *)
(* invariant says how a committed row may go on (Grows), what a commit in  *)
(* doubt may turn it into (LateInv), which requests a row may name         *)
(* (NameInv) and what each given answer owes the row (AnswerInv).  Two      *)
(* layers on top of it say that no generation is reactivated for two        *)
(* requests (TwinInv) and what the pages of the scrapes hold (ScrapeInv).   *)
(***************************************************************************)
EXTENDS HttpApi, FiniteSetTheorems, TLAPS

Codes == {200, 202, 400, 401, 404, 405, 409, 413, 415, 500, 503}
Waits == {"idle", "call", "reread", "scrape", "collect"}
Ends == {"answer", "count", "done"}

\* How far q is decides what is known of it.
Phase(q) ==
    /\ hpc[q] = "idle" <=> req[q] = NoRow
    /\ hpc[q] = "idle" => ~knew[q]
    /\ hpc[q] \in Waits => status[q] = 0 /\ shown[q] = NoRow
    /\ hpc[q] \in Ends => status[q] # 0
    /\ hpc[q] = "call" => req[q].route \in {"ready", "accept", "event", "summary", "retry"}
    /\ hpc[q] = "reread" => req[q].route = "retry"
    /\ hpc[q] \in {"scrape", "collect"} => req[q].route = "metrics"

PhaseInv == \A q \in Requests : Phase(q)

\* A commit in doubt creates an event or reactivates it, and holds its locks.
LateInv ==
    \A e \in Events : late[e] # NoRow /\ rows[e] # NoRow =>
        /\ late[e].id = rows[e].id /\ late[e].input = rows[e].input
        /\ late[e].gen = rows[e].gen + 1

Names(v, q) == v # NoRow /\ (v.id = q \/ v.by = q)

\* A row names only requests that were told 202, or 500.
NameInv ==
    \A e \in Events, q \in Requests :
        Names(rows[e], q) \/ Names(late[e], q) => status[q] \in {202, 500}

\* What the answer of q owes the row of its event.
AnswerInv(q) ==
    req[q] # NoRow =>
        LET row == rows[req[q].e]
            accept == req[q].route = "accept"
            retry == req[q].route = "retry"
        IN  /\ accept /\ status[q] = 202 => row # NoRow /\ row.id = q
            /\ accept /\ status[q] = 200 => row # NoRow
            /\ retry /\ status[q] = 202 =>
                 /\ row # NoRow /\ shown[q] # NoRow /\ shown[q].gen = req[q].gen + 1
                 /\ row.gen > req[q].gen + 1 \/ (row.gen = req[q].gen + 1 /\ row.by = q)
            /\ shown[q] # NoRow =>
                 /\ row # NoRow /\ shown[q].id = row.id
                 /\ shown[q].input = row.input /\ shown[q].gen <= row.gen
            /\ knew[q] => row # NoRow
            /\ knew[q] /\ Refusal(req[q]) = 0 /\ accept =>
                 /\ status[q] \in {0, 200, 409, 500}
                 /\ status[q] = 409 => row.input # req[q].input
            /\ knew[q] /\ Refusal(req[q]) = 0 /\ (retry \/ req[q].route = "event") =>
                 status[q] # 404

AnswersInv == \A q \in Requests : AnswerInv(q)

AckInv == \A e \in acked : rows[e] # NoRow

HttpInv == TypeOK /\ PhaseInv /\ LateInv /\ NameInv /\ AnswersInv /\ AckInv
-----------------------------------------------------------------------------
\* What a request asks is a record of known fields.
LEMMA MenuFields ==
    ASSUME NEW r \in Menu
    PROVE  /\ r # NoRow /\ r.route \in Routes /\ r.e \in Events
           /\ r.input \in Inputs /\ r.gen \in Nat
  BY MenuAssumption, NoRowAssumption DEF Asked

\* The checks answer with one of their codes; what passes them has a handler.
LEMMA RefusalCodes ==
    ASSUME NEW r \in Menu
    PROVE  /\ Refusal(r) \in {0, 400, 401, 404, 405, 413, 415}
           /\ Refusal(r) = 0 => r.route # "unmatched"
           /\ Refusal(r) = 404 => r.route = "unmatched"
  <1>1. r.route \in Routes /\ r.body \in Bodies
    BY MenuAssumption DEF Asked
  <1>2. r.body # "decoded" => BodyStatus(r.body) \in {400, 413, 415}
    BY <1>1 DEF Bodies, BodyStatus
  <1>. QED
    BY <1>1, <1>2 DEF Refusal

\* The asker of an arrived request.
LEMMA Arrived ==
    ASSUME HttpInv, NEW q \in Requests, hpc[q] # "idle"
    PROVE  /\ req[q] \in Menu /\ req[q] # NoRow /\ req[q].route \in Routes /\ req[q].e \in Events
           /\ req[q].input \in Inputs /\ req[q].gen \in Nat
  <1>1. req[q] \in Menu
    BY DEF HttpInv, TypeOK, PhaseInv, Phase
  <1>. QED
    BY <1>1, MenuFields

LEMMA NewRowType ==
    ASSUME NEW i \in Inputs, NEW id \in Requests \cup {Elsewhere}
    PROVE  /\ NewRow(i, id) \in Rows /\ NewRow(i, id) # NoRow
           /\ NewRow(i, id).id = id /\ NewRow(i, id).input = i /\ NewRow(i, id).gen = 0
           /\ NewRow(i, id).by = Elsewhere
  <1>1. NewRow(i, id) \in Rows
    BY DEF NewRow, Rows
  <1>2. NewRow(i, id) # NoRow
    BY <1>1, NoRowAssumption
  <1>. QED
    BY <1>1, <1>2 DEF NewRow

\* Every variable has its type in the beginning, and nothing has happened.
LEMMA HttpInit == Init => HttpInv
  <1> SUFFICES ASSUME Init PROVE HttpInv
    OBVIOUS
  <1>1. TypeOK
    BY DEF Init, TypeOK, NoScrape, Pages
  <1>2. PhaseInv
    BY DEF Init, PhaseInv, Phase, Waits, Ends
  <1>3. LateInv /\ NameInv /\ AnswersInv /\ AckInv
    BY DEF Init, LateInv, NameInv, Names, AnswersInv, AnswerInv, AckInv
  <1>. QED
    BY <1>1, <1>2, <1>3 DEF HttpInv
-----------------------------------------------------------------------------
\* A committed row keeps its input and its creator, and its generation tells
\* whether it has been reactivated again.
Grows(e) ==
    rows[e] # NoRow =>
        /\ rows'[e] # NoRow
        /\ rows'[e].id = rows[e].id /\ rows'[e].input = rows[e].input
        /\ rows'[e].gen >= rows[e].gen
        /\ rows'[e].gen = rows[e].gen => rows'[e].by = rows[e].by

\* Rows that do not change grow.
LEMMA RowKept ==
    ASSUME TypeOK, NEW e \in Events, rows'[e] = rows[e]
    PROVE  Grows(e)
  <1>1. rows[e] # NoRow => rows[e].gen \in Nat
    BY DEF TypeOK, Rows
  <1>. QED
    BY <1>1 DEF Grows

\* An answer stays true of a row that grows.
LEMMA AnswerKept ==
    ASSUME HttpInv, TypeOK', NEW p \in Requests, \A e \in Events : Grows(e),
           req'[p] = req[p], status'[p] = status[p], shown'[p] = shown[p], knew'[p] = knew[p]
    PROVE  AnswerInv(p)'
  <1> SUFFICES ASSUME req[p] # NoRow PROVE AnswerInv(p)'
    BY DEF AnswerInv
  <1>1. /\ req[p] \in Menu /\ req[p].e \in Events /\ req[p].gen \in Nat
        /\ shown[p] \in Rows \cup {NoRow}
    BY MenuFields DEF HttpInv, TypeOK
  <1> DEFINE e == req[p].e
  <1>2. Grows(e) /\ AnswerInv(p)
    BY <1>1 DEF HttpInv, AnswersInv
  <1>3. /\ rows[e] # NoRow => rows[e].gen \in Nat
        /\ rows'[e] # NoRow => rows'[e].gen \in Nat
        /\ shown[p] # NoRow => shown[p].gen \in Nat
    BY <1>1 DEF HttpInv, TypeOK, Rows
  <1> HIDE DEF e
  <1>4. /\ req[p].route = "retry" /\ status[p] = 202 =>
             /\ rows'[e] # NoRow /\ shown[p] # NoRow /\ shown[p].gen = req[p].gen + 1
             /\ \/ rows'[e].gen > req[p].gen + 1
                \/ rows'[e].gen = req[p].gen + 1 /\ rows'[e].by = p
        /\ shown[p] # NoRow =>
             /\ rows'[e] # NoRow /\ shown[p].id = rows'[e].id
             /\ shown[p].input = rows'[e].input /\ shown[p].gen <= rows'[e].gen
    BY <1>1, <1>2, <1>3 DEF AnswerInv, Grows, e
  <1>5. /\ req[p].route = "accept" /\ status[p] = 202 => rows'[e] # NoRow /\ rows'[e].id = p
        /\ req[p].route = "accept" /\ status[p] = 200 => rows'[e] # NoRow
        /\ knew[p] => rows'[e] # NoRow
        /\ knew[p] /\ Refusal(req[p]) = 0 /\ req[p].route = "accept" =>
             /\ status[p] \in {0, 200, 409, 500}
             /\ status[p] = 409 => rows'[e].input # req[p].input
        /\ knew[p] /\ Refusal(req[p]) = 0 /\ req[p].route \in {"retry", "event"} =>
             status[p] # 404
    BY <1>2 DEF AnswerInv, Grows, e
  <1>. QED
    BY <1>4, <1>5 DEF AnswerInv, e

\* The answer of a call: what the handler of q leaves to be shown.
LEMMA ReturnInv ==
    ASSUME HttpInv, NEW q \in Requests, hpc[q] \in {"call", "reread"},
           NEW s \in Codes, NEW v \in Rows \cup {NoRow}, Return(q, s, v),
           rows' \in [Events -> Rows \cup {NoRow}], late' \in [Events -> Rows \cup {NoRow}],
           \A e \in Events : Grows(e), LateInv', NameInv', AnswerInv(q)'
    PROVE  HttpInv'
  <1>1. TypeOK'
    BY DEF Return, HttpInv, TypeOK, Codes, metered, history
  <1>2. /\ hpc'[q] = "answer" /\ status'[q] = s /\ UNCHANGED <<req, metered, history>>
        /\ \A p \in Requests \ {q} :
             hpc'[p] = hpc[p] /\ status'[p] = status[p] /\ shown'[p] = shown[p]
    BY DEF Return, HttpInv, TypeOK
  <1>3. PhaseInv'
    BY <1>2 DEF HttpInv, PhaseInv, Phase, Codes, Waits, Ends, history
  <1>4. AnswersInv'
    BY <1>1, <1>2, AnswerKept DEF AnswersInv, history
  <1>5. AckInv'
    <2>1. acked \subseteq Events /\ acked' = acked
      BY <1>2 DEF HttpInv, TypeOK, history
    <2>. QED
      BY <2>1 DEF HttpInv, AckInv, Grows
  <1>. QED
    BY <1>1, <1>3, <1>4, <1>5 DEF HttpInv

\* A call that has not returned is named nowhere.
LEMMA Unnamed ==
    ASSUME HttpInv, NEW q \in Requests, status[q] = 0, NEW e \in Events
    PROVE  ~Names(rows[e], q) /\ ~Names(late[e], q)
  BY DEF HttpInv, NameInv

\* A call that writes nothing owes only its own answer.
LEMMA QuietReturn ==
    ASSUME HttpInv, NEW q \in Requests, hpc[q] \in {"call", "reread"},
           NEW s \in Codes, NEW v \in Rows \cup {NoRow}, Return(q, s, v), UNCHANGED database,
           AnswerInv(q)'
    PROVE  HttpInv'
  <1>1. rows' = rows /\ late' = late
    BY DEF database
  <1>2. \A e \in Events : Grows(e)
    BY <1>1, RowKept DEF HttpInv
  <1>3. LateInv'
    BY <1>1 DEF HttpInv, LateInv
  <1>4. status[q] = 0 /\ \A p \in Requests \ {q} : status'[p] = status[p]
    BY DEF Return, HttpInv, TypeOK, PhaseInv, Phase, Waits
  <1>5. NameInv'
    BY <1>1, <1>4, Unnamed DEF HttpInv, NameInv, Names
  <1>. QED
    BY <1>1, <1>2, <1>3, <1>5, ReturnInv DEF HttpInv, TypeOK

\* The answers of a call that writes nothing, by route.
LEMMA QuietAnswer ==
    ASSUME HttpInv, NEW q \in Requests, hpc[q] \in {"call", "reread"},
           NEW s \in Codes, NEW v, Return(q, s, v), UNCHANGED database,
           NEW row, row = rows[req[q].e], v \in {NoRow, row},
           req[q].route \in {"accept", "retry"} => s # 202,
           req[q].route = "accept" /\ s = 200 => row # NoRow,
           req[q].route = "accept" /\ row # NoRow =>
              s \in {200, 409, 500} /\ (s = 409 => row.input # req[q].input),
           req[q].route \in {"retry", "event"} /\ row # NoRow => s # 404
    PROVE  HttpInv'
  <1>1. /\ rows' = rows /\ req' = req /\ knew' = knew /\ status'[q] = s /\ shown'[q] = v
    BY DEF Return, HttpInv, TypeOK, database, history
  <1>2. req[q] # NoRow /\ req[q].e \in Events
    BY Arrived
  <1>3. row \in Rows \cup {NoRow} /\ (row # NoRow => row.gen \in Nat)
    BY <1>2 DEF HttpInv, TypeOK, Rows
  <1>4. v \in Rows \cup {NoRow}
    BY <1>3
  <1>5. knew[q] => row # NoRow
    BY <1>2 DEF HttpInv, AnswersInv, AnswerInv
  <1>6. shown'[q] # NoRow =>
          /\ row # NoRow /\ shown'[q].id = row.id
          /\ shown'[q].input = row.input /\ shown'[q].gen <= row.gen
    BY <1>1, <1>3
  <1>7. AnswerInv(q)'
    BY <1>1, <1>2, <1>5, <1>6 DEF AnswerInv, Codes
  <1>. QED
    BY <1>4, <1>7, QuietReturn

\* The calls that write nothing.
LEMMA QuietCalls ==
    ASSUME HttpInv, NEW q \in Requests,
           \/ CallFails(q) \/ QueueFull(q) \/ Replay(q) \/ TooLarge(q) \/ Get(q) \/ Read(q)
           \/ RetryNothing(q) \/ Reread(q)
    PROVE  HttpInv'
  <1> DEFINE row == rows[req[q].e]
  <1>1. /\ hpc[q] \in {"call", "reread"} /\ UNCHANGED database
        /\ hpc[q] = "reread" => req[q].route = "retry"
    BY DEF CallFails, QueueFull, Replay, TooLarge, Get, Read, RetryNothing, Reread, Calls,
           HttpInv, PhaseInv, Phase
  <1>2. CASE CallFails(q)
    <2>1. \E s \in {500, 503} : Return(q, s, NoRow) /\ (req[q].route # "ready" => s = 500)
      BY <1>2 DEF CallFails
    <2>. QED
      BY <1>1, <2>1, QuietAnswer DEF Codes
  <1>3. CASE QueueFull(q)
    BY <1>1, <1>3, QuietAnswer DEF QueueFull, Calls, Codes
  <1>4. CASE TooLarge(q)
    BY <1>1, <1>4, QuietAnswer DEF TooLarge, Calls, Codes
  <1>5. CASE Replay(q)
    <2>1. req[q].route = "accept" /\ row # NoRow
      BY <1>5 DEF Replay, Calls
    <2>2. CASE row.input = req[q].input
      BY <1>1, <1>5, <2>1, <2>2, QuietAnswer DEF Replay, Codes
    <2>3. CASE row.input # req[q].input
      BY <1>1, <1>5, <2>1, <2>3, QuietAnswer DEF Replay, Codes
    <2>. QED
      BY <2>2, <2>3
  <1>6. CASE Get(q)
    <2>1. req[q].route = "event" /\ Return(q, IF row = NoRow THEN 404 ELSE 200, row)
      BY <1>6 DEF Get, Calls
    <2>. QED
      BY <1>1, <2>1, QuietAnswer DEF Codes
  <1>7. CASE Read(q)
    BY <1>1, <1>7, QuietAnswer DEF Read, Codes
  <1>8. CASE RetryNothing(q)
    <2>1. req[q].route = "retry" /\ (Return(q, 200, row) \/ Return(q, 409, NoRow))
      BY <1>8 DEF RetryNothing, Calls
    <2>. QED
      BY <1>1, <2>1, QuietAnswer DEF Codes
  <1>9. CASE Reread(q)
    <2>1. req[q].route = "retry" /\ Return(q, IF row = NoRow THEN 404 ELSE 200, row)
      BY <1>1, <1>9 DEF Reread
    <2>. QED
      BY <1>1, <2>1, QuietAnswer DEF Codes
  <1>. QED
    BY <1>2, <1>3, <1>4, <1>5, <1>6, <1>7, <1>8, <1>9

\* An acceptance commits, or its commit is in doubt.
LEMMA CreateInv ==
    ASSUME HttpInv, NEW q \in Requests, Create(q) \/ CreateInDoubt(q)
    PROVE  HttpInv'
  <1> PICK e \in Events : e = req[q].e
    BY Arrived DEF Create, CreateInDoubt, Creates, Calls
  <1> PICK v : v = NewRow(req[q].input, q)
    OBVIOUS
  <1>1. /\ hpc[q] = "call" /\ req[q].route = "accept" /\ rows[e] = NoRow /\ ~Admitting
        /\ req[q] # NoRow /\ status[q] = 0
    BY Arrived DEF Create, CreateInDoubt, Creates, Calls, HttpInv, PhaseInv, Phase, Waits
  <1>2. v \in Rows /\ v # NoRow /\ v.id = q /\ v.gen = 0 /\ v.by = Elsewhere
    BY <1>1, Arrived, NewRowType
  <1>3. late[e] = NoRow /\ ~knew[q]
    BY <1>1 DEF Admitting, HttpInv, AnswersInv, AnswerInv
  <1>4. /\ rows \in [Events -> Rows \cup {NoRow}] /\ late \in [Events -> Rows \cup {NoRow}]
    BY DEF HttpInv, TypeOK
  <1>5. \/ /\ rows' = [rows EXCEPT ![e] = v] /\ late' = late /\ Return(q, 202, v)
        \/ /\ late' = [late EXCEPT ![e] = v] /\ rows' = rows /\ Return(q, 500, NoRow)
    BY DEF Create, CreateInDoubt, RequestID
  <1>6. /\ rows' \in [Events -> Rows \cup {NoRow}] /\ late' \in [Events -> Rows \cup {NoRow}]
        /\ \A f \in Events : rows'[f] \in {rows[f], v} /\ late'[f] \in {late[f], v}
        /\ \A f \in Events : f # e => rows'[f] = rows[f] /\ late'[f] = late[f]
    BY <1>2, <1>4, <1>5
  <1>7. \A f \in Events : Grows(f)
    BY <1>1, <1>6, RowKept DEF Grows, HttpInv
  <1>8. LateInv'
    BY <1>1, <1>3, <1>4, <1>5, <1>6 DEF LateInv, HttpInv
  <1>9. /\ status'[q] \in {202, 500} /\ req' = req /\ knew' = knew
        /\ \A p \in Requests \ {q} : status'[p] = status[p]
    BY <1>5 DEF Return, HttpInv, TypeOK, history
  <1>10. NameInv'
    <2> SUFFICES ASSUME NEW f \in Events, NEW p \in Requests, p # q,
                        Names(rows'[f], p) \/ Names(late'[f], p)
                 PROVE  status[p] \in {202, 500}
      BY <1>9 DEF NameInv, Names
    <2>1. ~Names(v, p)
      BY <1>2, ElsewhereAssumption DEF Names
    <2>. QED
      BY <1>6, <2>1 DEF HttpInv, NameInv
  <1>11. AnswerInv(q)'
    BY <1>1, <1>2, <1>3, <1>4, <1>5, <1>9 DEF AnswerInv, Return, HttpInv, TypeOK
  <1>. QED
    BY <1>1, <1>2, <1>5, <1>6, <1>7, <1>8, <1>10, <1>11, ReturnInv DEF Codes

\* A reactivation commits, or its commit is in doubt.
LEMMA ReviveInv ==
    ASSUME HttpInv, NEW q \in Requests, Revive(q) \/ ReviveInDoubt(q)
    PROVE  HttpInv'
  <1> PICK e \in Events : e = req[q].e
    BY Arrived DEF Revive, ReviveInDoubt, Revives, Calls
  <1> PICK v : v = Revived(q)
    OBVIOUS
  <1>1. /\ hpc[q] = "call" /\ req[q].route = "retry" /\ rows[e] # NoRow /\ late[e] = NoRow
        /\ rows[e].gen = req[q].gen /\ req[q] # NoRow /\ status[q] = 0 /\ req[q].gen \in Nat
    BY Arrived DEF Revive, ReviveInDoubt, Revives, Calls, HttpInv, PhaseInv, Phase, Waits
  <1>2. rows[e] \in Rows
    BY <1>1 DEF HttpInv, TypeOK
  <1>3. /\ v \in Rows /\ v # NoRow /\ v.id = rows[e].id /\ v.input = rows[e].input
        /\ v.gen = rows[e].gen + 1 /\ v.by = q
    <2>1. rows[e].gen + 1 \in Nat
      BY <1>1
    <2>2. v = [rows[e] EXCEPT !.failed = FALSE, !.gen = rows[e].gen + 1, !.by = q]
      BY DEF Revived, RequestID
    <2>3. v \in Rows
      BY <1>2, <2>1, <2>2 DEF Rows
    <2>4. v # NoRow
      BY <2>3, NoRowAssumption
    <2>. QED
      BY <1>2, <2>2, <2>3, <2>4 DEF Rows
  <1>4. /\ rows \in [Events -> Rows \cup {NoRow}] /\ late \in [Events -> Rows \cup {NoRow}]
    BY DEF HttpInv, TypeOK
  <1>5. \/ /\ rows' = [rows EXCEPT ![e] = v] /\ late' = late /\ Return(q, 202, v)
        \/ /\ late' = [late EXCEPT ![e] = v] /\ rows' = rows /\ Return(q, 500, NoRow)
    BY DEF Revive, ReviveInDoubt
  <1>6. /\ rows' \in [Events -> Rows \cup {NoRow}] /\ late' \in [Events -> Rows \cup {NoRow}]
        /\ rows'[e] \in {rows[e], v} /\ late'[e] \in {late[e], v}
        /\ \A f \in Events : f # e => rows'[f] = rows[f] /\ late'[f] = late[f]
    BY <1>3, <1>4, <1>5
  <1>7. \A f \in Events : Grows(f)
    <2>1. Grows(e)
      <3>1. rows[e].gen \in Nat /\ rows[e].gen + 1 > rows[e].gen
        BY <1>1
      <3>. QED
        BY <1>3, <1>6, <3>1, RowKept DEF Grows, HttpInv
    <2>. QED
      BY <1>6, <2>1, RowKept DEF HttpInv
  <1>8. LateInv'
    BY <1>1, <1>3, <1>4, <1>5, <1>6 DEF LateInv, HttpInv
  <1>9. /\ status'[q] \in {202, 500} /\ req' = req /\ knew' = knew
        /\ \A p \in Requests \ {q} : status'[p] = status[p]
    BY <1>5 DEF Return, HttpInv, TypeOK, history
  <1>10. NameInv'
    <2> SUFFICES ASSUME NEW f \in Events, NEW p \in Requests, p # q,
                        Names(rows'[f], p) \/ Names(late'[f], p)
                 PROVE  status[p] \in {202, 500}
      BY <1>9 DEF NameInv, Names
    <2>1. Names(v, p) => Names(rows[e], p)
      BY <1>1, <1>3 DEF Names
    <2>. QED
      BY <1>6, <2>1 DEF HttpInv, NameInv
  <1>11. AnswerInv(q)'
    <2>1. rows[e].gen \in Nat /\ v.gen <= v.gen
      BY <1>1, <1>3
    <2>2. CASE rows' = [rows EXCEPT ![e] = v] /\ Return(q, 202, v)
      <3>1. status'[q] = 202 /\ shown'[q] = v /\ rows'[e] = v
        BY <1>4, <2>2 DEF Return, HttpInv, TypeOK
      <3>. QED
        BY <1>1, <1>3, <1>9, <2>1, <3>1 DEF AnswerInv
    <2>3. CASE rows' = rows /\ Return(q, 500, NoRow)
      <3>1. status'[q] = 500 /\ shown'[q] = NoRow /\ rows'[e] = rows[e]
        BY <2>3 DEF Return, HttpInv, TypeOK
      <3>. QED
        BY <1>1, <1>9, <3>1 DEF AnswerInv
    <2>. QED
      BY <1>5, <2>2, <2>3
  <1>. QED
    BY <1>1, <1>3, <1>5, <1>6, <1>7, <1>8, <1>10, <1>11, ReturnInv DEF Codes

\* Steps that leave database, questions and answers alone.
LEMMA SilentStep ==
    ASSUME HttpInv, TypeOK', PhaseInv', UNCHANGED <<req, shown, database, knew>>,
           AckInv', \A p \in Requests : status'[p] = status[p]
                      \/ (req[p].route = "metrics" /\ status[p] = 0 /\ status'[p] = 200)
    PROVE  HttpInv'
  <1>1. rows' = rows /\ late' = late
    BY DEF database
  <1>2. LateInv'
    BY <1>1 DEF HttpInv, LateInv
  <1>3. NameInv'
    BY <1>1, Unnamed DEF HttpInv, NameInv, Names
  <1>4. ASSUME NEW p \in Requests PROVE AnswerInv(p)'
    <2>1. AnswerInv(p)
      BY DEF HttpInv, AnswersInv
    <2>. QED
      BY <1>1, <2>1 DEF AnswerInv
  <1>. QED
    BY <1>2, <1>3, <1>4 DEF HttpInv, AnswersInv

\* What a scrape puts together is a page at every step.
LEMMA ScrapedPage ==
    ASSUME TypeOK, NEW q \in Requests, Scrape(q)
    PROVE  printed' \in [Requests -> Pages]
  <1>1. /\ printed \in [Requests -> Pages] /\ printed[q] \in Pages
        /\ counts \in [Routes -> [Classes -> Nat]] /\ errors \in Nat
    BY DEF TypeOK
  <1>2. CASE LoadRoute(q)
    <2> PICK d : d = NextRoute(printed[q].left)
      OBVIOUS
    <2>1. PICK cells, left :
            /\ cells = [printed[q].cells EXCEPT ![d] = counts[d]] /\ left = printed[q].left \ {d}
            /\ printed' = [printed EXCEPT ![q] = [printed[q] EXCEPT !.cells = cells, !.left = left]]
      BY <1>1, <1>2 DEF LoadRoute, Pages
    <2>2. cells \in [Routes -> [Classes -> Nat]] /\ left \in SUBSET Routes
      BY <1>1, <2>1 DEF Pages
    <2>. QED
      BY <1>1, <2>1, <2>2 DEF Pages
  <1>3. CASE QueryQueue(q)
    <2>1. PICK ok \in BOOLEAN : printed' = [printed EXCEPT ![q] = [printed[q] EXCEPT !.success = ok]]
      BY <1>1, <1>3 DEF QueryQueue
    <2>. QED
      BY <1>1, <2>1 DEF Pages
  <1>4. CASE LoadErrors(q)
    BY <1>1, <1>4 DEF LoadErrors, Pages
  <1>. QED
    BY <1>2, <1>3, <1>4 DEF Scrape

\* The scrape reads counters and answers 200.
LEMMA ScrapeStep ==
    ASSUME HttpInv, NEW q \in Requests, Scrape(q) \/ RetryMisses(q)
    PROVE  HttpInv'
  <1>1. UNCHANGED <<req, shown, database, knew, acked, before, counts>>
    BY DEF Scrape, LoadRoute, QueryQueue, LoadErrors, RetryMisses, handlers, history, metered
  <1>2. /\ hpc[q] \in {"call", "scrape", "collect"}
        /\ hpc[q] = "call" => req[q].route = "retry" /\ hpc' = [hpc EXCEPT ![q] = "reread"]
        /\ hpc[q] = "scrape" =>
             \/ hpc' = hpc
             \/ hpc' = [hpc EXCEPT ![q] = "collect"]
        /\ hpc[q] = "collect" => hpc' = [hpc EXCEPT ![q] = "answer"]
    BY DEF Scrape, LoadRoute, QueryQueue, LoadErrors, RetryMisses, Calls, handlers
  <1>3. status' = IF hpc[q] = "collect" THEN [status EXCEPT ![q] = 200] ELSE status
    BY DEF Scrape, LoadRoute, QueryQueue, LoadErrors, RetryMisses, Calls, handlers
  <1>4. errors' \in {errors, errors + 1}
    BY DEF Scrape, LoadRoute, QueryQueue, LoadErrors, RetryMisses, metered
  <1>5. TypeOK'
    <2>1. printed' \in [Requests -> Pages]
      BY ScrapedPage DEF RetryMisses, metered, HttpInv, TypeOK
    <2>. QED
      BY <1>1, <1>2, <1>3, <1>4, <2>1 DEF HttpInv, TypeOK, database
  <1>6. Phase(q)
    BY DEF HttpInv, PhaseInv
  <1>7. /\ \A p \in Requests \ {q} : hpc'[p] = hpc[p] /\ status'[p] = status[p]
        /\ status'[q] = IF hpc[q] = "collect" THEN 200 ELSE status[q]
        /\ \/ hpc[q] = "call" /\ hpc'[q] = "reread" /\ req[q].route = "retry"
           \/ hpc[q] = "scrape" /\ hpc'[q] \in {"scrape", "collect"}
           \/ hpc[q] = "collect" /\ hpc'[q] = "answer"
    BY <1>2, <1>3 DEF HttpInv, TypeOK
  <1>8. PhaseInv'
    <2>1. Phase(q)'
      BY <1>1, <1>6, <1>7 DEF Phase, Waits, Ends
    <2>. QED
      BY <1>1, <1>7, <2>1 DEF HttpInv, PhaseInv, Phase
  <1>9. AckInv'
    BY <1>1 DEF HttpInv, AckInv, database
  <1>10. \A p \in Requests : status'[p] = status[p]
            \/ (req[p].route = "metrics" /\ status[p] = 0 /\ status'[p] = 200)
    BY <1>6, <1>7 DEF Phase, Waits
  <1>. QED
    BY <1>1, <1>5, <1>8, <1>9, <1>10, SilentStep

\* The class of a status code is the index of a counter.
LEMMA StatusClass == \A s \in Codes : s \div 100 \in Classes
  BY DEF Codes, Classes

\* The answer is written, then the request is counted.
LEMMA AnswerCountInv ==
    ASSUME HttpInv, NEW q \in Requests, Answer(q) \/ Count(q)
    PROVE  HttpInv'
  <1>1. UNCHANGED <<req, shown, status, database, knew, before, errors, printed>>
    BY DEF Answer, Count, metered, history
  <1>2. /\ Phase(q) /\ hpc[q] \in {"answer", "count"} /\ req[q] \in Menu /\ req[q] # NoRow
        /\ req[q].route \in Routes /\ req[q].e \in Events /\ status[q] \in Codes
    BY Arrived DEF Answer, Count, HttpInv, TypeOK, PhaseInv, Phase, Ends, Codes
  <1>3. /\ \A p \in Requests \ {q} : hpc'[p] = hpc[p]
        /\ hpc'[q] \in {"count", "done"}
        /\ hpc' \in [Requests -> Ends \cup Waits]
    <2>1. hpc \in [Requests -> Ends \cup Waits]
      BY DEF HttpInv, TypeOK, Ends, Waits
    <2>2. \E h \in {"count", "done"} : hpc' = [hpc EXCEPT ![q] = h]
      BY DEF Answer, Count
    <2>. QED
      BY <2>1, <2>2 DEF Ends
  <1>4. PhaseInv'
    <2>1. Phase(q)'
      BY <1>1, <1>2, <1>3 DEF Phase, Waits, Ends
    <2>. QED
      BY <1>1, <1>3, <2>1 DEF HttpInv, PhaseInv, Phase
  <1>5. acked' \subseteq Events /\ AckInv'
    <2>1. \A e \in acked' : e \in acked \/ (e = req[q].e /\ req[q].route = "accept" /\ status[q] \in {200, 202})
      BY DEF Answer, Count, history
    <2>2. req[q].route = "accept" /\ status[q] \in {200, 202} => rows[req[q].e] # NoRow
      BY <1>2 DEF HttpInv, AnswersInv, AnswerInv
    <2>. QED
      BY <1>1, <1>2, <2>1, <2>2 DEF HttpInv, TypeOK, AckInv, database
  <1>6. counts' \in [Routes -> [Classes -> Nat]]
    <2>1. status[q] \div 100 \in Classes
      BY <1>2, StatusClass
    <2>2. counts \in [Routes -> [Classes -> Nat]]
      BY DEF HttpInv, TypeOK
    <2>3. \/ counts' = counts
          \/ counts' = [counts EXCEPT ![req[q].route][status[q] \div 100] = @ + 1]
      BY DEF Answer, Count, metered
    <2>. QED
      BY <1>2, <2>1, <2>2, <2>3
  <1>7. TypeOK'
    BY <1>1, <1>3, <1>5, <1>6 DEF HttpInv, TypeOK, Ends, Waits, database
  <1>. QED
    BY <1>1, <1>4, <1>5, <1>7, SilentStep

\* A request arrives: it is refused at once or begins its work.
LEMMA ArriveInv ==
    ASSUME HttpInv, NEW q \in Requests, NEW r \in Menu, Arrive(q, r)
    PROVE  HttpInv'
  <1> DEFINE s == IF Refusal(r) = 0 /\ r.route = "health" THEN 200 ELSE Refusal(r)
             h == IF s # 0 THEN "answer" ELSE IF r.route = "metrics" THEN "scrape" ELSE "call"
  <1>1. /\ hpc[q] = "idle" /\ UNCHANGED <<shown, database, metered, acked>>
        /\ req' = [req EXCEPT ![q] = r] /\ status' = [status EXCEPT ![q] = s]
        /\ hpc' = [hpc EXCEPT ![q] = h]
        /\ knew' = [knew EXCEPT ![q] = r.e \in acked]
        /\ before' = [before EXCEPT ![q] = IF r.route = "metrics" THEN Completed ELSE {}]
    BY DEF Arrive, HttpInv, TypeOK
  <1>2. /\ s \in {0, 200, 400, 401, 404, 405, 413, 415}
        /\ s = 0 => Refusal(r) = 0 /\ r.route \notin {"unmatched", "health"}
        /\ Refusal(r) = 0 /\ r.route # "health" => s = 0
        /\ s = 200 => r.route = "health"
        /\ s = 404 => r.route = "unmatched"
    BY RefusalCodes
  <1>3. /\ h \in {"answer", "scrape", "call"}
        /\ h = "answer" <=> s # 0
        /\ h = "scrape" => r.route = "metrics"
        /\ h = "call" => r.route \notin {"metrics", "unmatched", "health"}
    BY <1>2
  <1> HIDE DEF s, h
  <1>4. Completed \subseteq Requests
    BY DEF Completed
  <1>5. TypeOK'
    BY <1>1, <1>2, <1>3, <1>4 DEF HttpInv, TypeOK, database, metered
  <1>6. /\ \A p \in Requests \ {q} :
             hpc'[p] = hpc[p] /\ req'[p] = req[p] /\ status'[p] = status[p] /\ knew'[p] = knew[p]
        /\ hpc'[q] = h /\ req'[q] = r /\ status'[q] = s /\ knew'[q] = (r.e \in acked)
        /\ shown' = shown /\ rows' = rows /\ late' = late
    BY <1>1 DEF HttpInv, TypeOK, database
  <1>7. /\ r # NoRow /\ r.route \in Routes /\ r.e \in Events /\ status[q] = 0 /\ shown[q] = NoRow
    BY <1>1, MenuFields DEF HttpInv, PhaseInv, Phase, Waits
  <1>8. PhaseInv'
    <2>1. Phase(q)'
      BY <1>3, <1>6, <1>7 DEF Phase, Waits, Ends, Routes
    <2>. QED
      BY <1>6, <2>1 DEF HttpInv, PhaseInv, Phase
  <1>9. LateInv' /\ AckInv'
    BY <1>1, <1>6 DEF HttpInv, LateInv, AckInv
  <1>10. NameInv'
    BY <1>6, <1>7, Unnamed DEF HttpInv, NameInv, Names
  <1>11. AnswersInv'
    <2>1. AnswerInv(q)'
      <3>1. knew'[q] => rows[r.e] # NoRow
        BY <1>6 DEF HttpInv, AckInv
      <3>2. s # 202 /\ (r.route \in {"accept", "retry", "event"} => s # 200 /\ s # 404)
        BY <1>2
      <3>3. Refusal(r) = 0 /\ r.route \in {"accept", "retry", "event"} => s = 0
        BY <1>2
      <3>. QED
        BY <1>6, <1>7, <3>1, <3>2, <3>3 DEF AnswerInv
    <2>2. \A e \in Events : Grows(e)
      BY <1>6, RowKept DEF HttpInv
    <2>. QED
      BY <1>5, <1>6, <2>1, <2>2, AnswerKept DEF AnswersInv
  <1>. QED
    BY <1>5, <1>8, <1>9, <1>10, <1>11 DEF HttpInv

\* Steps of the rest of the system change only the tables.
LEMMA TableStep ==
    ASSUME HttpInv, UNCHANGED <<handlers, metered, history>>,
           rows' \in [Events -> Rows \cup {NoRow}], late' \in [Events -> Rows \cup {NoRow}],
           \A e \in Events : Grows(e), LateInv',
           \A e \in Events, q \in Requests :
              Names(rows'[e], q) \/ Names(late'[e], q) => Names(rows[e], q) \/ Names(late[e], q)
    PROVE  HttpInv'
  <1>1. UNCHANGED <<hpc, req, status, shown, counts, errors, printed, acked, knew, before>>
    BY DEF handlers, metered, history
  <1>2. TypeOK'
    BY <1>1 DEF HttpInv, TypeOK
  <1>3. PhaseInv'
    BY <1>1 DEF HttpInv, PhaseInv, Phase
  <1>4. NameInv'
    BY <1>1 DEF HttpInv, NameInv
  <1>5. AnswersInv'
    BY <1>1, <1>2, AnswerKept DEF AnswersInv
  <1>6. AckInv'
    BY <1>1 DEF HttpInv, TypeOK, AckInv, Grows
  <1>. QED
    BY <1>2, <1>3, <1>4, <1>5, <1>6 DEF HttpInv

\* A commit in doubt lands or is rolled back.
LEMMA LandInv ==
    ASSUME HttpInv, NEW e \in Events, Land(e) \/ Vanish(e)
    PROVE  HttpInv'
  <1>1. /\ rows \in [Events -> Rows \cup {NoRow}] /\ late \in [Events -> Rows \cup {NoRow}]
    BY DEF HttpInv, TypeOK
  <1>2. /\ late[e] # NoRow /\ late' = [late EXCEPT ![e] = NoRow]
        /\ rows' = rows \/ rows' = [rows EXCEPT ![e] = late[e]]
        /\ UNCHANGED <<handlers, metered, history>>
    BY DEF Land, Vanish
  <1>3. /\ rows' \in [Events -> Rows \cup {NoRow}] /\ late' \in [Events -> Rows \cup {NoRow}]
        /\ \A f \in Events \ {e} : rows'[f] = rows[f] /\ late'[f] = late[f]
        /\ late'[e] = NoRow /\ rows'[e] \in {rows[e], late[e]}
    BY <1>1, <1>2
  <1>4. Grows(e)
    <2>1. rows[e] # NoRow =>
            /\ rows[e].gen \in Nat /\ late[e].gen = rows[e].gen + 1
            /\ late[e].id = rows[e].id /\ late[e].input = rows[e].input
      BY <1>1, <1>2 DEF HttpInv, LateInv, Rows
    <2>2. CASE rows'[e] = late[e]
      BY <1>2, <2>1, <2>2 DEF Grows
    <2>. QED
      BY <1>3, <2>2, RowKept DEF HttpInv
  <1>5. \A f \in Events : Grows(f)
    BY <1>3, <1>4, RowKept DEF HttpInv
  <1>6. LateInv'
    BY <1>3 DEF HttpInv, LateInv
  <1>7. \A f \in Events, q \in Requests :
           Names(rows'[f], q) \/ Names(late'[f], q) => Names(rows[f], q) \/ Names(late[f], q)
    BY <1>3 DEF Names
  <1>. QED
    BY <1>2, <1>3, <1>5, <1>6, <1>7, TableStep

\* The worker posts an event or sets it aside; another instance accepts one.
LEMMA OthersInv ==
    ASSUME HttpInv, NEW e \in Events, Work(e) \/ \E i \in Inputs : AcceptElsewhere(e, i)
    PROVE  HttpInv'
  <1>1. /\ rows \in [Events -> Rows \cup {NoRow}] /\ late \in [Events -> Rows \cup {NoRow}]
    BY DEF HttpInv, TypeOK
  <1>2. /\ late[e] = NoRow /\ late' = late /\ UNCHANGED <<handlers, metered, history>>
    BY DEF Work, AcceptElsewhere, Admitting
  <1>3. PICK v \in Rows :
          /\ rows' = [rows EXCEPT ![e] = v]
          /\ \A q \in Requests : Names(v, q) => Names(rows[e], q)
          /\ rows[e] # NoRow => /\ v.id = rows[e].id /\ v.input = rows[e].input
                                /\ v.gen = rows[e].gen /\ v.by = rows[e].by
    <2>1. CASE Work(e)
      <3>1. rows[e] \in Rows /\ rows[e] # NoRow
        BY <1>1, <2>1 DEF Work, Queue
      <3>2. PICK v : /\ rows' = [rows EXCEPT ![e] = v]
                     /\ \/ v = [rows[e] EXCEPT !.posted = TRUE]
                        \/ v = [rows[e] EXCEPT !.failed = TRUE]
        BY <1>1, <2>1 DEF Work
      <3>3. /\ v \in Rows /\ v.id = rows[e].id /\ v.input = rows[e].input
            /\ v.gen = rows[e].gen /\ v.by = rows[e].by
        BY <3>1, <3>2 DEF Rows
      <3>. QED
        BY <3>1, <3>2, <3>3 DEF Names
    <2>2. CASE \E i \in Inputs : AcceptElsewhere(e, i)
      <3>1. PICK i \in Inputs : rows[e] = NoRow /\ rows' = [rows EXCEPT ![e] = NewRow(i, Elsewhere)]
        BY <2>2 DEF AcceptElsewhere
      <3>2. PICK v : v = NewRow(i, Elsewhere)
        OBVIOUS
      <3>3. v \in Rows /\ v.id = Elsewhere /\ v.by = Elsewhere
        BY <3>2, NewRowType
      <3>4. \A q \in Requests : ~Names(v, q)
        BY <3>3, ElsewhereAssumption DEF Names
      <3>. QED
        BY <3>1, <3>2, <3>3, <3>4
    <2>. QED
      BY <2>1, <2>2
  <1>4. /\ rows' \in [Events -> Rows \cup {NoRow}] /\ rows'[e] = v /\ v # NoRow
        /\ \A f \in Events \ {e} : rows'[f] = rows[f]
    BY <1>1, <1>3, NoRowAssumption
  <1>5. Grows(e)
    <2>1. rows[e] # NoRow => rows[e].gen \in Nat
      BY <1>1 DEF Rows
    <2>. QED
      BY <1>3, <1>4, <2>1 DEF Grows
  <1>6. \A f \in Events : Grows(f)
    BY <1>4, <1>5, RowKept DEF HttpInv
  <1>7. LateInv'
    BY <1>2, <1>4 DEF HttpInv, LateInv
  <1>8. \A f \in Events, q \in Requests :
           Names(rows'[f], q) \/ Names(late'[f], q) => Names(rows[f], q) \/ Names(late[f], q)
    BY <1>2, <1>3, <1>4 DEF Names
  <1>. QED
    BY <1>1, <1>2, <1>4, <1>6, <1>7, <1>8, TableStep

LEMMA HttpNext == HttpInv /\ [Next]_vars => HttpInv'
  <1> SUFFICES ASSUME HttpInv, [Next]_vars PROVE HttpInv'
    OBVIOUS
  <1>1. CASE UNCHANGED vars
    <2>1. /\ UNCHANGED <<hpc, req, status, shown, rows, late, acked, knew, before>>
          /\ UNCHANGED <<counts, errors, printed>>
      BY <1>1 DEF vars, handlers, database, metered, history
    <2>. QED
      BY <2>1 DEF HttpInv, TypeOK, PhaseInv, Phase, LateInv, NameInv, AnswersInv, AnswerInv, AckInv
  <1>2. ASSUME NEW q \in Requests, Call(q) PROVE HttpInv'
    BY <1>2, QuietCalls, CreateInv, ReviveInv, ScrapeStep DEF Call
  <1>3. ASSUME NEW q \in Requests, Handle(q) PROVE HttpInv'
    BY <1>2, <1>3, ScrapeStep, AnswerCountInv DEF Handle
  <1>4. ASSUME NEW q \in Requests, NEW r \in Menu, Arrive(q, r) PROVE HttpInv'
    BY <1>4, ArriveInv
  <1>5. ASSUME NEW e \in Events,
               Land(e) \/ Vanish(e) \/ Work(e) \/ \E i \in Inputs : AcceptElsewhere(e, i)
        PROVE  HttpInv'
    BY <1>5, LandInv, OthersInv
  <1>. QED
    BY <1>1, <1>3, <1>4, <1>5 DEF Next
-----------------------------------------------------------------------------
\* The tables, what rows name, and what each answer owes them stay consistent in
\* every interleaving of handlers, late commits, worker and other instances
\* (httpapi.go, Service.Accept, Service.Retry, Store.Accept, Store.Retry).
THEOREM HttpInvariant == Spec => []HttpInv
  BY HttpInit, HttpNext, PTL DEF Spec

\* Every variable of the API keeps its type: handlers only answer with the codes
\* of serve and serviceError, and a scrape of which some counters are read while
\* others are not is a page (metrics, Collector.Metrics).
THEOREM HttpTypes == Spec => []TypeOK
  <1>1. HttpInv => TypeOK
    BY DEF HttpInv
  <1>. QED
    BY <1>1, HttpInvariant, PTL

\* Two requests that were told 202 for a retry of the same event named different
\* generations.
TwinInv ==
    \A q \in Requests : \A p \in Requests \ {q} :
        Told(q, "retry", 202) /\ Told(p, "retry", 202) /\ req[p].e = req[q].e =>
            req[p].gen # req[q].gen

\* Only Revive answers a retry with 202.
LEMMA NewlyTold ==
    ASSUME HttpInv, [Next]_vars, NEW p \in Requests, Told(p, "retry", 202)'
    PROVE  Revive(p) \/ (Told(p, "retry", 202) /\ req'[p] = req[p])
  <1>1. ASSUME status'[p] = status[p], req'[p] = req[p]
        PROVE  Told(p, "retry", 202) /\ req'[p] = req[p]
    BY <1>1 DEF Told
  <1>2. CASE UNCHANGED vars
    BY <1>1, <1>2 DEF vars, handlers
  <1>3. ASSUME NEW q \in Requests, Call(q)
        PROVE  Revive(p) \/ (Told(p, "retry", 202) /\ req'[p] = req[p])
    <2>1. CASE RetryMisses(q)
      BY <1>1, <2>1 DEF RetryMisses
    <2>2. ASSUME NEW s, NEW v, Return(q, s, v), s # 202 \/ p # q \/ req[q].route # "retry"
          PROVE  Told(p, "retry", 202) /\ req'[p] = req[p]
      BY <2>2 DEF Return, Told, HttpInv, TypeOK
    <2>3. CASE Revive(q)
      BY <2>2, <2>3 DEF Revive
    <2>4. CASE Create(q)
      BY <2>2, <2>4 DEF Create, Creates, Calls
    <2>5. CASE CreateInDoubt(q) \/ ReviveInDoubt(q)
      BY <2>2, <2>5 DEF CreateInDoubt, ReviveInDoubt
    <2>6. CASE CallFails(q)
      BY <2>2, <2>6 DEF CallFails
    <2>7. CASE QueueFull(q) \/ TooLarge(q) \/ Read(q)
      BY <2>2, <2>7 DEF QueueFull, TooLarge, Read
    <2>8. CASE Replay(q) \/ RetryNothing(q)
      BY <2>2, <2>8 DEF Replay, RetryNothing
    <2>9. CASE Get(q) \/ Reread(q)
      BY <2>2, <2>9 DEF Get, Reread
    <2>. QED
      BY <1>3, <2>1, <2>3, <2>4, <2>5, <2>6, <2>7, <2>8, <2>9 DEF Call
  <1>4. ASSUME NEW q \in Requests, Scrape(q)
        PROVE  Told(p, "retry", 202) /\ req'[p] = req[p]
    <2>1. req' = req /\ (status' = status \/ status' = [status EXCEPT ![q] = 200])
      BY <1>4 DEF Scrape, LoadRoute, QueryQueue, LoadErrors, handlers
    <2>. QED
      BY <2>1 DEF Told, HttpInv, TypeOK
  <1>5. ASSUME NEW q \in Requests, Answer(q) \/ Count(q)
        PROVE  Told(p, "retry", 202) /\ req'[p] = req[p]
    BY <1>1, <1>5 DEF Answer, Count
  <1>6. ASSUME NEW q \in Requests, NEW r \in Menu, Arrive(q, r)
        PROVE  Told(p, "retry", 202) /\ req'[p] = req[p]
    <2> DEFINE s == IF Refusal(r) = 0 /\ r.route = "health" THEN 200 ELSE Refusal(r)
    <2>1. req' = [req EXCEPT ![q] = r] /\ status' = [status EXCEPT ![q] = s]
      BY <1>6 DEF Arrive
    <2>2. s # 202
      BY RefusalCodes
    <2>. QED
      BY <2>1, <2>2 DEF Told, HttpInv, TypeOK
  <1>7. ASSUME NEW e \in Events,
               Land(e) \/ Vanish(e) \/ Work(e) \/ \E i \in Inputs : AcceptElsewhere(e, i)
        PROVE  Told(p, "retry", 202) /\ req'[p] = req[p]
    BY <1>1, <1>7 DEF Land, Vanish, Work, AcceptElsewhere, handlers
  <1>. QED
    BY <1>2, <1>3, <1>4, <1>5, <1>6, <1>7 DEF Next, Handle

\* A reactivation finds its own generation in the row, and the row has left the
\* generation of every reactivation before.
LEMMA TwinNext == HttpInv /\ TwinInv /\ [Next]_vars => TwinInv'
  <1> SUFFICES ASSUME HttpInv, TwinInv, [Next]_vars, NEW q \in Requests, NEW p \in Requests,
                      p # q, Told(q, "retry", 202)', Told(p, "retry", 202)', req'[p].e = req'[q].e
               PROVE  req'[p].gen # req'[q].gen
    BY DEF TwinInv
  <1>1. ASSUME NEW a \in Requests, NEW b \in Requests, a # b, Revive(a),
               Told(b, "retry", 202)', req'[a].e = req'[b].e
        PROVE  req'[a].gen # req'[b].gen
    <2>1. req' = req
      BY <1>1 DEF Revive, Return
    <2>2. status'[b] = status[b]
      BY <1>1 DEF Revive, Return, HttpInv, TypeOK
    <2>3. Told(b, "retry", 202)
      BY <1>1, <2>1, <2>2 DEF Told
    <2>4. req[b].gen \in Nat /\ req[b].e \in Events
      BY <2>3, MenuFields DEF Told, HttpInv, TypeOK
    <2>5. rows[req[b].e] # NoRow => rows[req[b].e].gen \in Nat
      BY <2>4 DEF HttpInv, TypeOK, Rows
    <2>6. /\ rows[req[b].e] # NoRow
          /\ rows[req[b].e].gen > req[b].gen + 1 \/ rows[req[b].e].gen = req[b].gen + 1
      BY <2>3 DEF Told, HttpInv, AnswersInv, AnswerInv
    <2>7. rows[req[a].e].gen = req[a].gen
      BY <1>1 DEF Revive, Revives
    <2>. QED
      BY <1>1, <2>1, <2>4, <2>5, <2>6, <2>7
  <1>2. CASE Revive(q)
    BY <1>1, <1>2
  <1>3. CASE Revive(p)
    BY <1>1, <1>3
  <1>4. CASE ~Revive(q) /\ ~Revive(p)
    <2>1. /\ Told(q, "retry", 202) /\ req'[q] = req[q]
          /\ Told(p, "retry", 202) /\ req'[p] = req[p]
      BY <1>4, NewlyTold
    <2>. QED
      BY <2>1 DEF TwinInv
  <1>. QED
    BY <1>2, <1>3, <1>4

\* The request answered 202 is the one whose id the stored event carries, as its
\* creator or as the reactivation of its generation; it shows the generation
\* after the one it named, and of identical retries only one is answered 202
\* (accept, retry, Service.Retry).
THEOREM CreatedNamesItsRequest == Spec => []CreatorIsStored
  <1>1. HttpInv /\ TwinInv => CreatorIsStored
    <2> SUFFICES ASSUME HttpInv, TwinInv, NEW q \in Requests
                 PROVE  /\ Told(q, "accept", 202) =>
                              rows[req[q].e] # NoRow /\ rows[req[q].e].id = q
                        /\ Told(q, "retry", 202) =>
                              /\ shown[q].gen = req[q].gen + 1
                              /\ rows[req[q].e].gen > shown[q].gen \/ rows[req[q].e].by = q
                              /\ \A p \in Requests \ {q} :
                                    Told(p, "retry", 202) /\ req[p].e = req[q].e =>
                                       req[p].gen # req[q].gen
      BY DEF CreatorIsStored
    <2>1. AnswerInv(q)
      BY DEF HttpInv, AnswersInv
    <2>2. Told(q, "retry", 202) =>
            /\ shown[q].gen = req[q].gen + 1
            /\ rows[req[q].e].gen > shown[q].gen \/ rows[req[q].e].by = q
      BY <2>1 DEF AnswerInv, Told
    <2>. QED
      BY <2>1, <2>2 DEF AnswerInv, Told, TwinInv
  <1>2. Init => TwinInv
    BY DEF Init, TwinInv, Told
  <1>3. (HttpInv /\ TwinInv) /\ [Next]_vars => (HttpInv /\ TwinInv)'
    BY HttpNext, TwinNext
  <1>. QED
    BY <1>1, <1>2, <1>3, HttpInit, PTL DEF Spec

\* An event that was shown keeps its request id and input and never goes back to
\* an earlier generation (accept's replay, event, retry).
THEOREM ShownStays == Spec => []ShownIsStored
  <1>1. HttpInv => ShownIsStored
    <2> SUFFICES ASSUME HttpInv, NEW q \in Requests, shown[q] # NoRow
                 PROVE  /\ rows[req[q].e] # NoRow
                        /\ shown[q].id = rows[req[q].e].id
                        /\ shown[q].input = rows[req[q].e].input
                        /\ shown[q].gen <= rows[req[q].e].gen
      BY DEF ShownIsStored
    <2>1. AnswerInv(q) /\ Phase(q)
      BY DEF HttpInv, AnswersInv, PhaseInv
    <2>2. req[q] # NoRow
      BY <2>1 DEF Phase, Waits
    <2>. QED
      BY <2>1, <2>2 DEF AnswerInv
  <1>. QED
    BY <1>1, HttpInvariant, PTL

\* A refused request is named by no row, committed or in doubt, at any later time
\* (serve, readBody, serviceError).
THEOREM RefusalsWriteNothing == Spec => []RefusedWroteNothing
  <1>1. HttpInv => RefusedWroteNothing
    BY DEF HttpInv, NameInv, Names, RefusedWroteNothing
  <1>. QED
    BY <1>1, HttpInvariant, PTL

\* An event whose acceptance was answered is found by every request that arrives
\* afterwards (Service.Accept, Service.Get, Service.Retry).
THEOREM AcceptedIsFound == Spec => []AcknowledgedIsFound
  <1>1. HttpInv => AcknowledgedIsFound
    <2> SUFFICES ASSUME HttpInv, NEW q \in Requests, knew[q], Refusal(req[q]) = 0
                 PROVE  /\ req[q].route = "accept" =>
                              /\ status[q] \in {0, 200, 409, 500}
                              /\ status[q] = 409 => rows[req[q].e].input # req[q].input
                        /\ req[q].route \in {"event", "retry"} => status[q] # 404
      BY DEF AcknowledgedIsFound
    <2>1. AnswerInv(q) /\ Phase(q)
      BY DEF HttpInv, AnswersInv, PhaseInv
    <2>2. req[q] # NoRow
      BY <2>1 DEF Phase
    <2>. QED
      BY <2>1, <2>2 DEF AnswerInv
  <1>. QED
    BY <1>1, HttpInvariant, PTL
-----------------------------------------------------------------------------
(* The last layer: the counters and the pages of the scrapes.  A counter  *)
(* is the number of completed requests of its cell, so a page that was read *)
(* counter by counter lies between what was completed before the scrape     *)
(* arrived and what is completed now; the error counter is the number of    *)
(* failed queue queries.                                                    *)

InCell(P, r, c) == {p \in P : Cell(p) = <<r, c>>}

CountInv == \A r \in Routes, c \in Classes : counts[r][c] = Cardinality(InCell(Completed, r, c))

\* A page so far, and its error counter against those of earlier scrapes.
PageInv(q) ==
    /\ before[q] \subseteq Completed
    /\ hpc[q] = "idle" => printed[q].left = Routes
    /\ hpc[q] = "collect" \/ Told(q, "metrics", 200) => printed[q].left = {}
    /\ \A r \in Routes, c \in Classes : r \notin printed[q].left =>
         /\ Cardinality(InCell(before[q], r, c)) <= printed[q].cells[r][c]
         /\ printed[q].cells[r][c] <= counts[r][c]
    /\ printed[q].errors <= errors
    /\ hpc[q] = "collect" /\ ~printed[q].success =>
         \A p \in before[q] : printed[p].errors < errors
    /\ Told(q, "metrics", 200) => \A p \in before[q] :
         /\ printed[p].errors <= printed[q].errors
         /\ ~printed[q].success => printed[p].errors < printed[q].errors

\* The failed queries that a finished page must count.
FailedFor(q) == QueryFailed \cap (before[q] \cup {q})

FailInv ==
    /\ errors = Cardinality(QueryFailed)
    /\ \A q \in Requests : Told(q, "metrics", 200) =>
         Cardinality(FailedFor(q)) <= printed[q].errors

ScrapeInv ==
    /\ CountInv
    /\ FailInv
    /\ \A q \in Requests : PageInv(q)

\* A completed request is over: nothing about it changes.
Settled ==
    \A p \in Completed :
        hpc'[p] = "done" /\ req'[p] = req[p] /\ status'[p] = status[p] /\ printed'[p] = printed[p]

\* The cells of settled requests are settled.
LEMMA CellSettled ==
    ASSUME Settled, NEW P, P \subseteq Completed, NEW r, NEW c
    PROVE  {p \in P : Cell(p)' = <<r, c>>} = InCell(P, r, c)
  <1>1. \A p \in P : Cell(p)' = Cell(p)
    BY DEF Settled, Cell
  <1>. QED
    BY <1>1 DEF InCell

\* A set of requests has a number of members in each cell, and a larger set no
\* fewer of them.
LEMMA CellMonotone ==
    ASSUME NEW P, NEW Q, P \subseteq Q, Q \subseteq Requests, NEW r, NEW c
    PROVE  /\ Cardinality(InCell(P, r, c)) \in Nat /\ Cardinality(InCell(Q, r, c)) \in Nat
           /\ Cardinality(InCell(P, r, c)) <= Cardinality(InCell(Q, r, c))
           /\ IsFiniteSet(InCell(Q, r, c))
  <1>1. InCell(P, r, c) \subseteq InCell(Q, r, c) /\ InCell(Q, r, c) \subseteq Requests
    BY DEF InCell
  <1>2. IsFiniteSet(InCell(Q, r, c)) /\ IsFiniteSet(InCell(P, r, c))
    BY <1>1, FiniteAssumption, FS_Subset
  <1>. QED
    BY <1>1, <1>2, FS_Subset, FS_CardinalityType

\* What is known of a page that is not written to stays known.
LEMMA PageKept ==
    ASSUME HttpInv, HttpInv', ScrapeInv, Settled, NEW q \in Requests,
           \A r \in Routes, c \in Classes : counts'[r][c] >= counts[r][c],
           errors' >= errors, before'[q] = before[q], printed'[q] = printed[q],
           hpc'[q] = "idle" => hpc[q] = "idle",
           hpc'[q] = "collect" => hpc[q] = "collect",
           Told(q, "metrics", 200)' => Told(q, "metrics", 200)
    PROVE  PageInv(q)'
  <1>1. /\ PageInv(q) /\ before[q] \subseteq Completed /\ printed[q] \in Pages
        /\ errors \in Nat /\ errors' \in Nat
        /\ counts \in [Routes -> [Classes -> Nat]] /\ counts' \in [Routes -> [Classes -> Nat]]
    BY DEF ScrapeInv, PageInv, HttpInv, TypeOK
  <1>2. Completed \subseteq Completed' /\ Completed \subseteq Requests
    BY DEF Settled, Completed
  <1>3. ASSUME NEW r \in Routes, NEW c \in Classes, r \notin printed[q].left
        PROVE  /\ Cardinality(InCell(before[q], r, c)') <= printed[q].cells[r][c]
               /\ printed[q].cells[r][c] <= counts'[r][c]
    <2>0. InCell(before[q], r, c)' = {p \in before[q] : Cell(p)' = <<r, c>>}
      BY DEF InCell
    <2>1. InCell(before[q], r, c)' = InCell(before[q], r, c)
      BY <1>1, <2>0, CellSettled
    <2>2. printed[q].cells[r][c] \in Nat /\ counts[r][c] \in Nat /\ counts'[r][c] \in Nat
      BY <1>1 DEF Pages
    <2>3. /\ Cardinality(InCell(before[q], r, c)) <= printed[q].cells[r][c]
          /\ printed[q].cells[r][c] <= counts[r][c]
      BY <1>1, <1>3 DEF PageInv
    <2>4. counts'[r][c] >= counts[r][c]
      OBVIOUS
    <2>5. printed[q].cells[r][c] <= counts'[r][c]
      BY <2>2, <2>3, <2>4
    <2>. QED
      BY <2>1, <2>3, <2>5
  <1>4. \A p \in before[q] : printed'[p] = printed[p] /\ printed[p].errors \in Nat
    BY <1>1, <1>2 DEF Settled, HttpInv, TypeOK, Pages
  <1>5. printed'[q].errors <= errors'
    <2>1. printed[q].errors \in Nat /\ printed[q].errors <= errors
      BY <1>1 DEF PageInv, Pages
    <2>. QED
      BY <1>1, <2>1
  <1>6. hpc'[q] = "collect" /\ ~printed'[q].success =>
          \A p \in before'[q] : printed'[p].errors < errors'
    <2>1. SUFFICES ASSUME hpc[q] = "collect", ~printed[q].success, NEW p \in before[q]
                   PROVE  printed'[p].errors < errors'
      OBVIOUS
    <2>2. printed[p].errors < errors
      BY <1>1, <2>1 DEF PageInv
    <2>. QED
      BY <1>1, <1>4, <2>2
  <1>7. Told(q, "metrics", 200)' => \A p \in before'[q] :
          /\ printed'[p].errors <= printed'[q].errors
          /\ ~printed'[q].success => printed'[p].errors < printed'[q].errors
    BY <1>1, <1>4 DEF PageInv
  <1>8. /\ before'[q] \subseteq Completed'
        /\ hpc'[q] = "idle" => printed'[q].left = Routes
        /\ hpc'[q] = "collect" \/ Told(q, "metrics", 200)' => printed'[q].left = {}
    BY <1>1, <1>2 DEF PageInv
  <1>. QED
    BY <1>3, <1>5, <1>6, <1>7, <1>8 DEF PageInv

\* The counters keep their meaning while nobody completes.
LEMMA CountKept ==
    ASSUME CountInv, Settled, Completed' = Completed, counts' = counts
    PROVE  CountInv'
  <1> SUFFICES ASSUME NEW r \in Routes, NEW c \in Classes
               PROVE  counts'[r][c] = Cardinality(InCell(Completed, r, c)')
    BY DEF CountInv
  <1>1. InCell(Completed, r, c)' = InCell(Completed, r, c)
    BY CellSettled DEF InCell
  <1>. QED
    BY <1>1 DEF CountInv

\* No query fails and no page is finished.
LEMMA FailKept ==
    ASSUME FailInv, errors' = errors,
           \A q \in Requests :
              /\ printed'[q].success = printed[q].success
              /\ hpc'[q] = "collect" <=> hpc[q] = "collect"
              /\ Told(q, "metrics", 200)' <=> Told(q, "metrics", 200)
              /\ Told(q, "metrics", 200) => before'[q] = before[q] /\ printed'[q] = printed[q]
    PROVE  FailInv'
  <1>1. QueryFailed' = QueryFailed
    BY DEF QueryFailed
  <1>2. \A q \in Requests : Told(q, "metrics", 200) => FailedFor(q)' = FailedFor(q)
    BY <1>1 DEF FailedFor
  <1>. QED
    BY <1>1, <1>2 DEF FailInv

\* Steps that write no page and no counter.
LEMMA QuietPages ==
    ASSUME HttpInv, HttpInv', ScrapeInv, Settled, UNCHANGED <<counts, errors, printed, before>>,
           Completed' = Completed,
           \A q \in Requests :
              /\ hpc'[q] = "idle" => hpc[q] = "idle"
              /\ hpc'[q] = "collect" <=> hpc[q] = "collect"
              /\ Told(q, "metrics", 200)' <=> Told(q, "metrics", 200)
    PROVE  ScrapeInv'
  <1>1. errors \in Nat /\ counts \in [Routes -> [Classes -> Nat]]
    BY DEF HttpInv, TypeOK
  <1>2. errors' >= errors /\ \A r \in Routes, c \in Classes : counts'[r][c] >= counts[r][c]
    BY <1>1
  <1>3. \A q \in Requests : PageInv(q)'
    BY <1>2, PageKept
  <1>4. CountInv' /\ FailInv'
    BY CountKept, FailKept DEF ScrapeInv
  <1>. QED
    BY <1>3, <1>4 DEF ScrapeInv

\* A call returns, or a missed retry goes on to read its event.
LEMMA CallPages ==
    ASSUME HttpInv, HttpInv', ScrapeInv, NEW q \in Requests, Call(q)
    PROVE  ScrapeInv'
  <1>1. /\ hpc[q] \in {"call", "reread"} /\ UNCHANGED <<req, counts, errors, printed, before>>
        /\ \E h \in {"answer", "reread"} : hpc' = [hpc EXCEPT ![q] = h]
        /\ \A p \in Requests \ {q} : status'[p] = status[p]
    <2>1. status \in [Requests -> Codes \cup {0}]
      BY DEF HttpInv, TypeOK, Codes
    <2>2. CASE RetryMisses(q)
      BY <2>2 DEF RetryMisses, Calls, metered, history
    <2>3. CASE \E s, v : Return(q, s, v)
      <3>1. PICK s, v : Return(q, s, v)
        BY <2>3
      <3>2. hpc[q] \in {"call", "reread"}
        BY DEF Call, CallFails, Create, CreateInDoubt, Creates, QueueFull, Replay, TooLarge, Get,
               Read, Revive, ReviveInDoubt, Revives, RetryNothing, RetryMisses, Reread, Calls
      <3>. QED
        BY <2>1, <3>1, <3>2 DEF Return, metered, history
    <2>4. RetryMisses(q) \/ \E s, v : Return(q, s, v)
      BY DEF Call, CallFails, Create, CreateInDoubt, QueueFull, Replay, TooLarge, Get,
             Read, Revive, ReviveInDoubt, RetryNothing, Reread
    <2>. QED
      BY <2>2, <2>3, <2>4
  <1>2. /\ \A p \in Requests \ {q} : hpc'[p] = hpc[p]
        /\ hpc'[q] \in {"answer", "reread"} /\ req[q].route # "metrics"
    BY <1>1 DEF HttpInv, TypeOK, PhaseInv, Phase
  <1>3. Completed' = Completed
    BY <1>1, <1>2 DEF Completed
  <1>4. Settled
    BY <1>1, <1>2 DEF Settled, Completed
  <1>5. \A p \in Requests :
          /\ hpc'[p] = "idle" => hpc[p] = "idle"
          /\ hpc'[p] = "collect" <=> hpc[p] = "collect"
          /\ Told(p, "metrics", 200)' <=> Told(p, "metrics", 200)
    BY <1>1, <1>2 DEF Told
  <1>. QED
    BY <1>1, <1>3, <1>4, <1>5, QuietPages

\* The answer is written; the database, the worker and other instances work.
LEMMA OutsidePages ==
    ASSUME HttpInv, HttpInv', ScrapeInv,
           \/ \E q \in Requests : Answer(q)
           \/ UNCHANGED <<handlers, metered, history>>
    PROVE  ScrapeInv'
  <1>1. /\ UNCHANGED <<req, status, counts, errors, printed, before>>
        /\ \/ hpc' = hpc
           \/ \E q \in Requests : hpc[q] = "answer" /\ hpc' = [hpc EXCEPT ![q] = "count"]
    BY DEF Answer, handlers, metered, history
  <1>2. \A p \in Requests : hpc'[p] = hpc[p] \/ (hpc[p] = "answer" /\ hpc'[p] = "count")
    BY <1>1 DEF HttpInv, TypeOK
  <1>3. Completed' = Completed
    BY <1>2 DEF Completed
  <1>4. Settled
    BY <1>1, <1>2 DEF Settled, Completed
  <1>5. \A p \in Requests :
          /\ hpc'[p] = "idle" => hpc[p] = "idle"
          /\ hpc'[p] = "collect" <=> hpc[p] = "collect"
          /\ Told(p, "metrics", 200)' <=> Told(p, "metrics", 200)
    BY <1>1, <1>2 DEF Told
  <1>. QED
    BY <1>1, <1>3, <1>4, <1>5, QuietPages

\* A request arrives: its page is empty, and the completed requests are before it.
LEMMA ArrivePages ==
    ASSUME HttpInv, HttpInv', ScrapeInv, NEW q \in Requests, NEW r \in Menu, Arrive(q, r)
    PROVE  ScrapeInv'
  <1>1. /\ hpc[q] = "idle" /\ UNCHANGED <<counts, errors, printed>>
        /\ before' = [before EXCEPT ![q] = IF r.route = "metrics" THEN Completed ELSE {}]
        /\ req' = [req EXCEPT ![q] = r]
        /\ status' = [status EXCEPT ![q] =
                        IF Refusal(r) = 0 /\ r.route = "health" THEN 200 ELSE Refusal(r)]
        /\ \E h \in {"answer", "scrape", "call"} : hpc' = [hpc EXCEPT ![q] = h]
    BY DEF Arrive, metered
  <1>2. /\ hpc'[q] \in {"answer", "scrape", "call"} /\ before'[q] \subseteq Completed
        /\ req'[q] = r
        /\ status'[q] = IF Refusal(r) = 0 /\ r.route = "health" THEN 200 ELSE Refusal(r)
        /\ \A p \in Requests \ {q} : /\ hpc'[p] = hpc[p] /\ req'[p] = req[p]
                                      /\ status'[p] = status[p] /\ before'[p] = before[p]
    BY <1>1 DEF HttpInv, TypeOK
  <1>3. Completed' = Completed /\ Settled
    BY <1>1, <1>2 DEF Completed, Settled
  <1>4. ~(Told(q, "metrics", 200)')
    BY <1>1, <1>2, RefusalCodes DEF Told
  <1>5. errors \in Nat /\ counts \in [Routes -> [Classes -> Nat]]
    BY DEF HttpInv, TypeOK
  <1>6. errors' >= errors /\ \A d \in Routes, c \in Classes : counts'[d][c] >= counts[d][c]
    BY <1>1, <1>5
  <1>7. ASSUME NEW p \in Requests, p # q PROVE PageInv(p)'
    <2>1. Told(p, "metrics", 200)' => Told(p, "metrics", 200)
      BY <1>2, <1>7 DEF Told
    <2>. QED
      BY <1>1, <1>2, <1>3, <1>6, <1>7, <2>1, PageKept
  <1>8. PageInv(q)'
    <2>1. printed[q].left = Routes /\ printed[q].errors <= errors
      BY <1>1 DEF ScrapeInv, PageInv
    <2>. QED
      BY <1>1, <1>2, <1>3, <1>4, <2>1 DEF PageInv
  <1>9. CountInv'
    BY <1>1, <1>3, CountKept DEF ScrapeInv
  <1>10. FailInv'
    <2>1. ~Told(q, "metrics", 200)
      BY <1>1 DEF Told, HttpInv, PhaseInv, Phase
    <2>. QED
      BY <1>1, <1>2, <1>4, <2>1, FailKept DEF ScrapeInv, Told
  <1>. QED
    BY <1>7, <1>8, <1>9, <1>10 DEF ScrapeInv

\* The request is counted: one more in its cell.
LEMMA CountPages ==
    ASSUME HttpInv, HttpInv', ScrapeInv, NEW q \in Requests, Count(q)
    PROVE  ScrapeInv'
  <1>1. /\ hpc[q] = "count" /\ hpc' = [hpc EXCEPT ![q] = "done"]
        /\ counts' = [counts EXCEPT ![req[q].route][status[q] \div 100] = @ + 1]
        /\ UNCHANGED <<req, status, errors, printed, before>>
    BY DEF Count, history
  <1>2. /\ \A p \in Requests \ {q} : hpc'[p] = hpc[p]
        /\ hpc'[q] = "done"
    BY <1>1 DEF HttpInv, TypeOK
  <1>3. Settled /\ Completed' = Completed \cup {q} /\ q \notin Completed /\ Completed \subseteq Requests
    BY <1>1, <1>2 DEF Settled, Completed
  <1>4. PICK d \in Routes, k \in Classes : d = req[q].route /\ k = status[q] \div 100
    <2>1. status[q] \in Codes /\ req[q].route \in Routes
      BY <1>1, Arrived DEF HttpInv, TypeOK, PhaseInv, Phase, Ends, Codes
    <2>. QED
      BY <2>1, StatusClass
  <1>5. errors \in Nat /\ counts \in [Routes -> [Classes -> Nat]]
    BY DEF HttpInv, TypeOK
  <1>6. \A r \in Routes, c \in Classes :
          counts'[r][c] = IF r = d /\ c = k THEN counts[r][c] + 1 ELSE counts[r][c]
    BY <1>1, <1>4, <1>5
  <1>7. errors' >= errors /\ \A r \in Routes, c \in Classes : counts'[r][c] >= counts[r][c]
    BY <1>1, <1>5, <1>6
  <1>8. ASSUME NEW p \in Requests PROVE PageInv(p)'
    <2>1. Told(p, "metrics", 200)' => Told(p, "metrics", 200)
      BY <1>1 DEF Told
    <2>2. (hpc'[p] = "idle" => hpc[p] = "idle") /\ (hpc'[p] = "collect" => hpc[p] = "collect")
      BY <1>2
    <2>. QED
      BY <1>1, <1>3, <1>7, <2>1, <2>2, PageKept
  <1>9. ASSUME NEW r \in Routes, NEW c \in Classes
        PROVE  counts'[r][c] = Cardinality(InCell(Completed, r, c)')
    <2> DEFINE old == InCell(Completed, r, c)
    <2>1. IsFiniteSet(old) /\ Cardinality(old) \in Nat /\ counts[r][c] = Cardinality(old)
      BY <1>3, CellMonotone DEF ScrapeInv, CountInv
    <2>2. /\ {p \in Completed : Cell(p)' = <<r, c>>} = old
          /\ InCell(Completed, r, c)' = {p \in Completed' : Cell(p)' = <<r, c>>}
          /\ Cell(q)' = <<d, k>> /\ q \notin old
      BY <1>1, <1>3, <1>4, CellSettled DEF InCell, Cell
    <2> HIDE DEF old
    <2>3. CASE r = d /\ c = k
      <3>1. InCell(Completed, r, c)' = old \cup {q}
        BY <1>3, <2>2, <2>3
      <3>2. Cardinality(old \cup {q}) = Cardinality(old) + 1
        BY <2>1, <2>2, FS_AddElement
      <3>. QED
        BY <1>6, <2>1, <2>3, <3>1, <3>2
    <2>4. CASE ~(r = d /\ c = k)
      <3>1. InCell(Completed, r, c)' = old
        BY <1>3, <2>2, <2>4
      <3>. QED
        BY <1>6, <2>1, <2>4, <3>1
    <2>. QED
      BY <2>3, <2>4
  <1>10. CountInv'
    BY <1>9 DEF CountInv
  <1>11. FailInv'
    BY <1>1, <1>2, FailKept DEF ScrapeInv, Told
  <1>. QED
    BY <1>8, <1>10, <1>11 DEF ScrapeInv

\* A route's counters are read: they count at least the requests before.
LEMMA LoadPages ==
    ASSUME HttpInv, HttpInv', ScrapeInv, NEW q \in Requests, LoadRoute(q)
    PROVE  ScrapeInv'
  <1> PICK d : d = NextRoute(printed[q].left)
    OBVIOUS
  <1>1. /\ hpc[q] = "scrape" /\ UNCHANGED <<hpc, req, status, counts, errors, before>>
        /\ printed' = [printed EXCEPT ![q].cells[d] = counts[d],
                                      ![q].left = printed[q].left \ {d}]
    BY DEF LoadRoute, handlers, history
  <1>2. printed \in [Requests -> Pages] /\ counts \in [Routes -> [Classes -> Nat]] /\ errors \in Nat
    BY DEF ScrapeInv, HttpInv, TypeOK
  <1> PICK page : page = printed'[q]
    OBVIOUS
  <1>3. /\ printed' = [printed EXCEPT ![q] = page]
        /\ page = [printed[q] EXCEPT !.cells = [printed[q].cells EXCEPT ![d] = counts[d]],
                                    !.left = printed[q].left \ {d}]
    BY <1>1, <1>2 DEF Pages
  <1>4. /\ page.cells = [printed[q].cells EXCEPT ![d] = counts[d]]
        /\ page.left = printed[q].left \ {d}
        /\ page.success = printed[q].success /\ page.errors = printed[q].errors
        /\ page \in Pages
    <2>1. printed[q] \in Pages
      BY <1>2
    <2>2. [printed[q].cells EXCEPT ![d] = counts[d]] \in [Routes -> [Classes -> Nat]]
      BY <1>2, <2>1 DEF Pages
    <2>3. printed[q].left \ {d} \in SUBSET Routes
      BY <2>1 DEF Pages
    <2>. QED
      BY <1>3, <2>1, <2>2, <2>3 DEF Pages
  <1>5. Completed' = Completed /\ Completed \subseteq Requests
    BY <1>1 DEF Completed
  <1>6. Settled
    BY <1>1, <1>2, <1>3 DEF Settled, Completed
  <1>7. errors' >= errors /\ \A r \in Routes, c \in Classes : counts'[r][c] >= counts[r][c]
    BY <1>1, <1>2
  <1>8. ASSUME NEW p \in Requests, p # q PROVE PageInv(p)'
    <2>1. (Told(p, "metrics", 200)' => Told(p, "metrics", 200)) /\ printed'[p] = printed[p]
      BY <1>1, <1>2, <1>3, <1>8 DEF Told
    <2>. QED
      BY <1>1, <1>6, <1>7, <2>1, PageKept
  <1>9. PageInv(q)'
    <2>1. PageInv(q) /\ before[q] \subseteq Completed
      BY DEF ScrapeInv, PageInv
    <2>2. status[q] = 0
      BY <1>1 DEF HttpInv, PhaseInv, Phase, Waits
    <2>3. ASSUME NEW r \in Routes, NEW c \in Classes, r \notin page.left
          PROVE  /\ Cardinality(InCell(before[q], r, c)') <= page.cells[r][c]
                 /\ page.cells[r][c] <= counts[r][c]
      <3>0. InCell(before[q], r, c)' = {p \in before[q] : Cell(p)' = <<r, c>>}
        BY <1>1 DEF InCell
      <3>1. InCell(before[q], r, c)' = InCell(before[q], r, c)
        BY <1>6, <2>1, <3>0, CellSettled
      <3>2. CASE r = d
        <4>1. page.cells[r][c] = counts[r][c] /\ counts[r][c] \in Nat
          BY <1>2, <1>4, <3>2 DEF Pages
        <4>2. Cardinality(InCell(before[q], r, c)) <= Cardinality(InCell(Completed, r, c))
          BY <1>5, <2>1, CellMonotone
        <4>. QED
          BY <3>1, <4>1, <4>2 DEF ScrapeInv, CountInv
      <3>3. CASE r # d
        <4>1. page.cells[r] = printed[q].cells[r] /\ r \notin printed[q].left
          BY <1>2, <1>4, <2>3, <3>3 DEF Pages
        <4>. QED
          BY <2>1, <3>1, <4>1 DEF PageInv
      <3>. QED
        BY <3>2, <3>3
    <2>4. hpc'[q] = "scrape" /\ ~(Told(q, "metrics", 200)') /\ page.errors <= errors'
      <3>1. page.errors <= errors'
        BY <1>1, <1>4, <2>1 DEF PageInv
      <3>. QED
        BY <1>1, <2>2, <3>1 DEF Told
    <2>5. before'[q] \subseteq Completed'
      BY <1>1, <1>5, <2>1
    <2>. QED
      BY <1>1, <2>3, <2>4, <2>5 DEF PageInv
  <1>10. CountInv'
    BY <1>1, <1>5, <1>6, CountKept DEF ScrapeInv
  <1>11. FailInv'
    <2>1. ~Told(q, "metrics", 200)
      BY <1>1 DEF Told, HttpInv, PhaseInv, Phase, Waits
    <2>2. \A p \in Requests : printed'[p].success = printed[p].success /\ (p # q => printed'[p] = printed[p])
      BY <1>2, <1>3, <1>4
    <2>. QED
      BY <1>1, <2>1, <2>2, FailKept DEF ScrapeInv, Told
  <1>. QED
    BY <1>8, <1>9, <1>10, <1>11 DEF ScrapeInv

\* The queue query is counted if it fails, before the error counter is read.
LEMMA QueryPages ==
    ASSUME HttpInv, HttpInv', ScrapeInv, NEW q \in Requests, QueryQueue(q)
    PROVE  ScrapeInv'
  <1>1. PICK ok \in BOOLEAN :
          /\ printed' = [printed EXCEPT ![q].success = ok]
          /\ errors' = IF ok THEN errors ELSE errors + 1
    BY DEF QueryQueue
  <1>2. /\ hpc[q] = "scrape" /\ printed[q].left = {} /\ hpc' = [hpc EXCEPT ![q] = "collect"]
        /\ UNCHANGED <<req, status, counts, before>>
    BY DEF QueryQueue, history
  <1>3. printed \in [Requests -> Pages] /\ counts \in [Routes -> [Classes -> Nat]] /\ errors \in Nat
    BY DEF ScrapeInv, HttpInv, TypeOK
  <1> PICK page : page = [printed[q] EXCEPT !.success = ok]
    OBVIOUS
  <1>4. /\ printed' = [printed EXCEPT ![q] = page] /\ page \in Pages
        /\ page.cells = printed[q].cells /\ page.left = {}
        /\ page.success = ok /\ page.errors = printed[q].errors
    BY <1>1, <1>2, <1>3 DEF Pages
  <1>5. /\ hpc'[q] = "collect" /\ \A p \in Requests \ {q} : hpc'[p] = hpc[p] /\ printed'[p] = printed[p]
        /\ printed'[q] = page
    BY <1>2, <1>3, <1>4 DEF HttpInv, TypeOK
  <1>6. Completed' = Completed /\ Completed \subseteq Requests /\ Settled
    BY <1>2, <1>5 DEF Completed, Settled
  <1>7. errors' >= errors /\ \A r \in Routes, c \in Classes : counts'[r][c] >= counts[r][c]
    BY <1>1, <1>2, <1>3
  <1>8. ASSUME NEW p \in Requests, p # q PROVE PageInv(p)'
    <2>1. (Told(p, "metrics", 200)' => Told(p, "metrics", 200)) /\ printed'[p] = printed[p]
          /\ hpc'[p] = hpc[p] /\ before'[p] = before[p]
      BY <1>2, <1>5, <1>8 DEF Told
    <2>. QED
      BY <1>6, <1>7, <2>1, PageKept
  <1>9. PageInv(q)'
    <2>1. PageInv(q) /\ before[q] \subseteq Completed
      BY DEF ScrapeInv, PageInv
    <2>2. status[q] = 0
      BY <1>2 DEF HttpInv, PhaseInv, Phase, Waits
    <2>3. ASSUME NEW r \in Routes, NEW c \in Classes
          PROVE  /\ Cardinality(InCell(before[q], r, c)') <= page.cells[r][c]
                 /\ page.cells[r][c] <= counts[r][c]
      <3>0. InCell(before[q], r, c)' = {p \in before[q] : Cell(p)' = <<r, c>>}
        BY <1>2 DEF InCell
      <3>1. InCell(before[q], r, c)' = InCell(before[q], r, c)
        BY <1>6, <2>1, <3>0, CellSettled
      <3>. QED
        BY <1>2, <1>4, <2>1, <3>1 DEF PageInv
    <2>4. \A p \in Requests : printed[p].errors \in Nat /\ printed[p].errors <= errors
      BY <1>3 DEF ScrapeInv, PageInv, Pages
    <2>5. page.errors <= errors'
      BY <1>1, <1>3, <1>4, <2>4
    <2>6. ~ok => \A p \in before[q] : printed'[p].errors < errors'
      BY <1>1, <1>2, <1>3, <1>5, <1>6, <2>1, <2>4 DEF Completed
    <2>7. ~(Told(q, "metrics", 200)') /\ before'[q] \subseteq Completed'
      BY <1>2, <1>6, <2>1, <2>2 DEF Told
    <2>. QED
      BY <1>2, <1>4, <1>5, <2>3, <2>5, <2>6, <2>7 DEF PageInv
  <1>10. CountInv'
    BY <1>2, <1>6, CountKept DEF ScrapeInv
  <1>11. FailInv'
    <2>1. /\ q \notin QueryFailed /\ IsFiniteSet(QueryFailed) /\ Cardinality(QueryFailed) = errors
          /\ \A p \in Requests : Told(p, "metrics", 200)' <=> Told(p, "metrics", 200)
          /\ ~Told(q, "metrics", 200)
      <3>1. status[q] = 0
        BY <1>2 DEF HttpInv, PhaseInv, Phase, Waits
      <3>2. QueryFailed \subseteq Requests
        BY DEF QueryFailed
      <3>. QED
        BY <1>2, <3>1, <3>2, FiniteAssumption, FS_Subset DEF QueryFailed, Told, ScrapeInv, FailInv
    <2>2. QueryFailed' = IF ok THEN QueryFailed ELSE QueryFailed \cup {q}
      <3>1. \A p \in Requests \ {q} : p \in QueryFailed' <=> p \in QueryFailed
        BY <1>5, <2>1 DEF QueryFailed
      <3>2. q \in QueryFailed' <=> ~ok
        BY <1>4, <1>5 DEF QueryFailed
      <3>. QED
        BY <2>1, <3>1, <3>2 DEF QueryFailed
    <2>3. errors' = Cardinality(QueryFailed')
      BY <1>1, <2>1, <2>2, FS_AddElement
    <2>4. ASSUME NEW p \in Requests, Told(p, "metrics", 200)
          PROVE  Cardinality(FailedFor(p)') <= printed'[p].errors
      <3>1. p # q /\ q \notin before[p] /\ printed'[p] = printed[p] /\ before'[p] = before[p]
        BY <1>2, <1>5, <2>1, <2>4 DEF ScrapeInv, PageInv, Completed
      <3>2. FailedFor(p)' = FailedFor(p)
        BY <2>2, <3>1 DEF FailedFor
      <3>. QED
        BY <2>4, <3>1, <3>2 DEF ScrapeInv, FailInv
    <2>. QED
      BY <2>1, <2>3, <2>4 DEF FailInv
  <1>. QED
    BY <1>8, <1>9, <1>10, <1>11 DEF ScrapeInv

\* The error counter is read last: it is not behind any page of the past.
LEMMA ErrorPages ==
    ASSUME HttpInv, HttpInv', ScrapeInv, NEW q \in Requests, LoadErrors(q)
    PROVE  ScrapeInv'
  <1>1. /\ hpc[q] = "collect" /\ hpc' = [hpc EXCEPT ![q] = "answer"]
        /\ printed' = [printed EXCEPT ![q].errors = errors]
        /\ status' = [status EXCEPT ![q] = 200]
        /\ UNCHANGED <<req, counts, errors, before>>
    BY DEF LoadErrors, history
  <1>2. printed \in [Requests -> Pages] /\ counts \in [Routes -> [Classes -> Nat]] /\ errors \in Nat
    BY DEF ScrapeInv, HttpInv, TypeOK
  <1> PICK page : page = [printed[q] EXCEPT !.errors = errors]
    OBVIOUS
  <1>3. /\ printed' = [printed EXCEPT ![q] = page] /\ page \in Pages
        /\ page.cells = printed[q].cells /\ page.left = printed[q].left
        /\ page.success = printed[q].success /\ page.errors = errors
    BY <1>1, <1>2 DEF Pages
  <1>4. /\ hpc'[q] = "answer" /\ printed'[q] = page
        /\ \A p \in Requests \ {q} : /\ hpc'[p] = hpc[p] /\ status'[p] = status[p]
                                      /\ printed'[p] = printed[p]
    BY <1>1, <1>2, <1>3 DEF HttpInv, TypeOK
  <1>5. Completed' = Completed /\ Completed \subseteq Requests /\ Settled
    BY <1>1, <1>4 DEF Completed, Settled
  <1>6. errors' >= errors /\ \A r \in Routes, c \in Classes : counts'[r][c] >= counts[r][c]
    BY <1>1, <1>2
  <1>7. ASSUME NEW p \in Requests, p # q PROVE PageInv(p)'
    <2>1. (Told(p, "metrics", 200)' => Told(p, "metrics", 200)) /\ printed'[p] = printed[p]
          /\ hpc'[p] = hpc[p] /\ before'[p] = before[p]
      BY <1>1, <1>4, <1>7 DEF Told
    <2>. QED
      BY <1>5, <1>6, <2>1, PageKept
  <1>8. PageInv(q)'
    <2>1. PageInv(q) /\ before[q] \subseteq Completed /\ q \notin before[q]
      BY <1>1 DEF ScrapeInv, PageInv, Completed
    <2>2. ASSUME NEW r \in Routes, NEW c \in Classes
          PROVE  /\ Cardinality(InCell(before[q], r, c)') <= page.cells[r][c]
                 /\ page.cells[r][c] <= counts[r][c]
      <3>0. InCell(before[q], r, c)' = {p \in before[q] : Cell(p)' = <<r, c>>}
        BY <1>1 DEF InCell
      <3>1. InCell(before[q], r, c)' = InCell(before[q], r, c)
        BY <1>5, <2>1, <3>0, CellSettled
      <3>. QED
        BY <1>1, <1>3, <2>1, <3>1 DEF PageInv
    <2>3. \A p \in before[q] :
            printed'[p] = printed[p] /\ printed[p].errors \in Nat /\ printed[p].errors <= errors
      BY <1>2, <1>4, <1>5, <2>1 DEF ScrapeInv, PageInv, Pages
    <2>4. ~page.success => \A p \in before[q] : printed[p].errors < errors
      BY <1>1, <1>3, <2>1 DEF PageInv
    <2>5. page.left = {}
      BY <1>1, <1>3, <2>1 DEF PageInv
    <2>6. page.errors <= errors'
      BY <1>1, <1>2, <1>3
    <2>. QED
      BY <1>1, <1>3, <1>4, <1>5, <2>1, <2>2, <2>3, <2>4, <2>5, <2>6 DEF PageInv
  <1>9. CountInv'
    BY <1>1, <1>5, CountKept DEF ScrapeInv
  <1>10. FailInv'
    <2>1. Told(q, "metrics", 200)' /\ req[q] # NoRow
      BY <1>1 DEF Told, HttpInv, TypeOK, PhaseInv, Phase
    <2>2. \A p \in Requests \ {q} : Told(p, "metrics", 200)' <=> Told(p, "metrics", 200)
      BY <1>1, <1>4 DEF Told
    <2>3. QueryFailed' = QueryFailed
      <3>1. \A p \in Requests \ {q} : p \in QueryFailed' <=> p \in QueryFailed
        BY <1>4, <2>2 DEF QueryFailed
      <3>2. q \in QueryFailed' <=> q \in QueryFailed
        BY <1>1, <1>3, <1>4, <2>1 DEF QueryFailed
      <3>. QED
        BY <3>1, <3>2 DEF QueryFailed
    <2>4. \A p \in Requests : FailedFor(p)' = FailedFor(p)
      BY <1>1, <2>3 DEF FailedFor
    <2>5. Cardinality(FailedFor(q)) <= Cardinality(QueryFailed)
      <3>1. QueryFailed \subseteq Requests /\ FailedFor(q) \subseteq QueryFailed
        BY DEF QueryFailed, FailedFor
      <3>. QED
        BY <3>1, FiniteAssumption, FS_Subset
    <2>6. ASSUME NEW p \in Requests, Told(p, "metrics", 200)'
          PROVE  Cardinality(FailedFor(p)') <= printed'[p].errors
      <3>1. CASE p = q
        BY <1>3, <1>4, <2>4, <2>5, <3>1 DEF ScrapeInv, FailInv
      <3>2. CASE p # q
        BY <1>4, <2>2, <2>4, <2>6, <3>2 DEF ScrapeInv, FailInv
      <3>. QED
        BY <3>1, <3>2
    <2>. QED
      BY <1>1, <2>3, <2>6 DEF ScrapeInv, FailInv
  <1>. QED
    BY <1>7, <1>8, <1>9, <1>10 DEF ScrapeInv
-----------------------------------------------------------------------------
\* No request is counted and no page is read in the beginning.
LEMMA ScrapeInit == Init => ScrapeInv
  <1> SUFFICES ASSUME Init PROVE ScrapeInv
    OBVIOUS
  <1>1. printed \in [Requests -> Pages] /\ \A q \in Requests : printed[q] = NoScrape
    BY DEF Init, NoScrape, Pages
  <1>2. Completed = {}
    BY DEF Init, Completed
  <1>3. CountInv
    <2>1. \A r, c : InCell(Completed, r, c) = {}
      BY <1>2 DEF InCell
    <2>2. \A r \in Routes, c \in Classes : counts[r][c] = 0
      BY DEF Init
    <2>. QED
      BY <2>1, <2>2, FS_EmptySet DEF CountInv
  <1>4. ASSUME NEW q \in Requests PROVE PageInv(q)
    <2>1. /\ printed[q].left = Routes /\ printed[q].errors = 0 /\ errors = 0
          /\ hpc[q] = "idle" /\ status[q] = 0 /\ before[q] = {}
      BY <1>1 DEF Init, NoScrape
    <2>. QED
      BY <2>1 DEF PageInv, Told
  <1>5. FailInv
    <2>1. QueryFailed = {} /\ errors = 0 /\ \A q \in Requests : ~Told(q, "metrics", 200)
      BY DEF Init, QueryFailed, Told
    <2>. QED
      BY <2>1, FS_EmptySet DEF FailInv
  <1>. QED
    BY <1>3, <1>4, <1>5 DEF ScrapeInv

LEMMA ScrapeNext == HttpInv /\ HttpInv' /\ ScrapeInv /\ [Next]_vars => ScrapeInv'
  <1> SUFFICES ASSUME HttpInv, HttpInv', ScrapeInv, [Next]_vars PROVE ScrapeInv'
    OBVIOUS
  <1>1. CASE UNCHANGED vars
    BY <1>1, OutsidePages DEF vars
  <1>2. ASSUME NEW q \in Requests, Handle(q) PROVE ScrapeInv'
    BY <1>2, CallPages, LoadPages, QueryPages, ErrorPages, OutsidePages, CountPages
       DEF Handle, Scrape
  <1>3. ASSUME NEW q \in Requests, NEW r \in Menu, Arrive(q, r) PROVE ScrapeInv'
    BY <1>3, ArrivePages
  <1>4. ASSUME NEW e \in Events,
               Land(e) \/ Vanish(e) \/ Work(e) \/ \E i \in Inputs : AcceptElsewhere(e, i)
        PROVE  ScrapeInv'
    BY <1>4, OutsidePages DEF Land, Vanish, Work, AcceptElsewhere
  <1>. QED
    BY <1>1, <1>2, <1>3, <1>4 DEF Next

\* A page that was read counter by counter, while other handlers count, lies
\* between the requests completed when the scrape arrived and those completed
\* now.  Its error counter lies between the queue queries that failed in those
\* requests and in itself and all that have failed, those of concurrent scrapes
\* too, and is ordered with those of earlier pages (metrics, ServeHTTP,
\* Collector.Metrics).
THEOREM ScrapesAreBetween == Spec => []ScrapeBetween
  <1>1. HttpInv /\ ScrapeInv => ScrapeBetween
    <2> SUFFICES ASSUME HttpInv, ScrapeInv, NEW q \in Requests, Told(q, "metrics", 200)
                 PROVE  /\ \A r \in Routes, c \in Classes :
                              /\ Cardinality({p \in before[q] : Cell(p) = <<r, c>>})
                                    <= printed[q].cells[r][c]
                              /\ printed[q].cells[r][c]
                                    <= Cardinality({p \in Completed : Cell(p) = <<r, c>>})
                        /\ Cardinality(QueryFailed \cap (before[q] \cup {q})) <= printed[q].errors
                        /\ printed[q].errors <= Cardinality(QueryFailed)
                        /\ \A p \in before[q] :
                              /\ printed[p].errors <= printed[q].errors
                              /\ ~printed[q].success => printed[p].errors < printed[q].errors
      BY DEF ScrapeBetween
    <2>1. PageInv(q) /\ CountInv /\ FailInv
      BY DEF ScrapeInv
    <2>2. /\ Cardinality(QueryFailed \cap (before[q] \cup {q})) <= printed[q].errors
          /\ printed[q].errors <= Cardinality(QueryFailed)
      BY <2>1 DEF PageInv, FailInv, FailedFor
    <2>. QED
      BY <2>1, <2>2 DEF PageInv, CountInv, InCell
  <1>2. Init => HttpInv /\ ScrapeInv
    BY HttpInit, ScrapeInit
  <1>3. (HttpInv /\ ScrapeInv) /\ [Next]_vars => (HttpInv /\ ScrapeInv)'
    BY HttpNext, ScrapeNext
  <1>. QED
    BY <1>1, <1>2, <1>3, PTL DEF Spec
=============================================================================

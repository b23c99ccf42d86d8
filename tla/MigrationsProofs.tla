-------------------------- MODULE MigrationsProofs --------------------------
(***************************************************************************)
(* What the migrations never erase, for every number of sessions, events   *)
(* and request ids.                                                        *)
(***************************************************************************)
EXTENDS Migrations, TLAPS

\* Two open transactions never work on the same event.
Solo == \A s, t \in Sessions : tx[s].e = tx[t].e => s = t \/ tx[s].e = NoRow

\* What a transaction knows from its locks at each of its positions.
Acceptance(s) ==
    tx[s].at \in {"enqueue", "readAccepted"} =>
        /\ "usage" \in tx[s].held
        /\ (tx[s].id = NoRow) = (usage[tx[s].e] # NoRow)
Claimed(s) ==
    tx[s].at = "claimed" =>
        /\ tx[s].held = {"usage", "pending"}
        /\ pending[tx[s].e] # NoRow /\ pending[tx[s].e].failures < Quarantine
Shape(s) ==
    /\ tx[s].at = "idle" => tx[s].held = {} /\ tx[s].e = NoRow
    /\ tx[s].at # "idle" => tx[s].e \in Events
    /\ tx[s].at = "enqueue" => tx[s].id # NoRow
    /\ tx[s].id \in Ids => tx[s].bin = 3
    /\ tx[s].at = "readRetried" => tx[s].item # NoRow /\ "pending" \in tx[s].held
Known == \A s \in Sessions : Acceptance(s) /\ Claimed(s) /\ Shape(s)

\* A migration's position fixes the version it started from.
Stage ==
    /\ mpc = "up1" => version = 0
    /\ mpc \in {"up2", "down1"} => version = 1
    /\ mpc \in {"up3", "guard2", "drop2"} => version = 2
    /\ mpc \in {"down3", "guard3", "drop3"} => version = 3

\* 000003 down holds usage_events from its LOCK TABLE on.
Fence ==
    /\ mpc \in {"guard3", "drop3"} => Unused("usage")
    /\ mpc = "drop3" => \A e \in Events : usage[e] \notin Ids

\* Request ids exist under schema version 3 only.
IdsSince3 == version # 3 => \A e \in Events : usage[e] \notin Ids

Inv == TypeOK /\ Solo /\ Known /\ Stage /\ Fence /\ IdsSince3 /\ RequestIdsDurable

LEMMA NewItemTyped == NewItem \in Items /\ ~Active(NewItem)
BY MaxGenAssumption DEF NewItem, Items, Active, Quarantine

LEMMA InvInit == Init => Inv
<1> SUFFICES ASSUME Init PROVE Inv
  OBVIOUS
<1>0. version = 1 /\ mpc = "idle"
  BY DEF Init
<1>1. TypeOK
  <2>1. NoTx \in Txs
    BY DEF NoTx, Txs
  <2>2. tx \in [Sessions -> Txs]
    BY <2>1 DEF Init
  <2>3. TablesOK
    BY LegacyAssumption, NewItemTyped DEF TablesOK, Init
  <2> QED
    BY <1>0, <2>2, <2>3 DEF TypeOK
<1>2. Solo /\ Known
  BY IdsAssumption, EventsAssumption
  DEF Solo, Known, Acceptance, Claimed, Shape, NoTx, Init
<1>3. Stage /\ Fence
  BY <1>0 DEF Stage, Fence
<1>4. IdsSince3 /\ RequestIdsDurable
  BY IdsAssumption DEF IdsSince3, RequestIdsDurable, Init
<1> QED
  BY <1>1, <1>2, <1>3, <1>4 DEF Inv

\* A step of the migration that leaves the tables alone.
LEMMA QuietMigration ==
    ASSUME Inv, Begin(0, "up1") \/ Begin(1, "up2") \/ Begin(2, "up3") \/ Begin(1, "down1")
                \/ Begin(2, "guard2") \/ Begin(3, "down3") \/ MigrationFails
                \/ Up1 \/ Up2 \/ Up3 \/ LockUsage \/ Guard3 \/ Guard2
    PROVE  Inv'
<1> USE DEF Inv, Begin, MigrationFails, Up1, Up2, Up3, LockUsage, Guard3, Guard2, Migrated
<1>1. UNCHANGED <<tables, tx, acked>> /\ version' \in 0..3
  BY DEF TypeOK, tables
<1>2. TypeOK'
  <2>1. TablesOK'
    BY <1>1 DEF TypeOK, TablesOK, tables
  <2> QED
    BY <1>1, <2>1 DEF TypeOK
<1>3. Solo' /\ Known'
  BY <1>1 DEF Solo, Known, Acceptance, Claimed, Shape, tables
<1>4. Stage'
  BY DEF Stage
<1>5. Fence'
  BY <1>1 DEF Fence, Unused, tables
<1>6. IdsSince3'
  BY <1>1 DEF IdsSince3, Stage, tables
<1>7. RequestIdsDurable'
  BY <1>1 DEF RequestIdsDurable, tables
<1> QED
  BY <1>2, <1>3, <1>4, <1>5, <1>6, <1>7

\* Without request ids in the table nobody has been answered with one.
LEMMA NoneAcked ==
    ASSUME TypeOK, RequestIdsDurable, \A e \in Events : usage[e] \notin Ids
    PROVE  \A e \in Events : acked[e] = {}
<1> SUFFICES ASSUME NEW e \in Events, NEW i \in acked[e] PROVE FALSE
  OBVIOUS
<1>1. acked[e] \subseteq Ids /\ acked[e] \subseteq {usage[e]}
  BY DEF TypeOK, TablesOK, RequestIdsDurable
<1> QED
  BY <1>1

LEMMA Drop3Keeps == ASSUME Inv, Drop3 PROVE Inv'
<1>1. /\ TypeOK /\ Solo /\ Known /\ Stage /\ Fence /\ RequestIdsDurable
      /\ mpc' = "idle" /\ version' = 2 /\ mpc = "drop3"
      /\ UNCHANGED <<pending, ledger, tx, acked>>
      /\ usage' = [e \in Events |-> IF usage[e] = NoRow THEN NoRow ELSE ""]
  BY DEF Inv, Drop3, Migrated
<1>2. \A e \in Events : acked[e] = {}
  BY <1>1, NoneAcked DEF Fence
<1>3. \A e \in Events : (usage'[e] = NoRow) = (usage[e] = NoRow) /\ usage'[e] \notin Ids
  BY <1>1, IdsAssumption
<1>4. TypeOK'
  <2>1. TablesOK'
    BY <1>1 DEF TypeOK, TablesOK
  <2>2. version' = 2 /\ mpc' = "idle" /\ tx' \in [Sessions -> Txs]
    BY <1>1, Zenon DEF TypeOK
  <2> QED
    BY <2>1, <2>2 DEF TypeOK
<1>5. Solo' /\ Stage' /\ Fence'
  BY <1>1 DEF Solo, Stage, Fence, Unused
<1>6. Known'
  BY <1>1, <1>3 DEF Known, Acceptance, Claimed, Shape
<1>7. IdsSince3' /\ RequestIdsDurable'
  BY <1>1, <1>2, <1>3 DEF IdsSince3, RequestIdsDurable
<1> QED
  BY <1>4, <1>5, <1>6, <1>7 DEF Inv

LEMMA Drop2Keeps == ASSUME Inv, Drop2 PROVE Inv'
<1>1. /\ TypeOK /\ Solo /\ Known /\ Stage /\ Fence /\ RequestIdsDurable /\ IdsSince3
      /\ mpc' = "idle" /\ version' = 1 /\ mpc = "drop2" /\ Unused("pending")
      /\ UNCHANGED <<usage, ledger, tx, acked>>
      /\ pending' = [e \in Events |-> IF pending[e] = NoRow THEN NoRow ELSE NewItem]
  BY DEF Inv, Drop2, Migrated
<1>2. TypeOK'
  <2>1. TablesOK'
    BY <1>1, NewItemTyped DEF TypeOK, TablesOK
  <2> QED
    BY <1>1, <2>1 DEF TypeOK
<1>3. Solo' /\ Stage' /\ Fence'
  BY <1>1 DEF Solo, Stage, Fence, Unused
<1>4. Known'
  BY <1>1 DEF Known, Acceptance, Claimed, Shape, Unused
<1>5. IdsSince3' /\ RequestIdsDurable'
  BY <1>1 DEF IdsSince3, RequestIdsDurable, Stage
<1> QED
  BY <1>2, <1>3, <1>4, <1>5 DEF Inv

LEMMA Drop1Keeps == ASSUME Inv, Drop1 PROVE Inv'
<1>1. /\ TypeOK /\ Solo /\ Known /\ Stage /\ RequestIdsDurable /\ IdsSince3
      /\ mpc' = "idle" /\ version' = 0 /\ mpc = "down1"
      /\ Unused("usage") /\ Unused("pending")
      /\ UNCHANGED <<tx, acked>> /\ ledger' = {}
      /\ usage' = [e \in Events |-> NoRow] /\ pending' = [e \in Events |-> NoRow]
  BY DEF Inv, Drop1, Migrated
<1>2. \A e \in Events : acked[e] = {}
  BY <1>1, NoneAcked DEF IdsSince3, Stage
<1>3. TypeOK'
  <2>1. TablesOK'
    BY <1>1 DEF TypeOK, TablesOK
  <2> QED
    BY <1>1, <2>1 DEF TypeOK
<1>4. Solo' /\ Stage' /\ Fence'
  BY <1>1 DEF Solo, Stage, Fence, Unused
<1>5. Known'
  BY <1>1 DEF Known, Acceptance, Claimed, Shape, Unused
<1>6. IdsSince3' /\ RequestIdsDurable'
  BY <1>1, <1>2, IdsAssumption DEF IdsSince3, RequestIdsDurable
<1> QED
  BY <1>3, <1>4, <1>5, <1>6 DEF Inv

\* A transaction that opens with what its position has to know.
LEMMA OpenKeeps ==
    ASSUME Inv, NEW s \in Sessions, NEW b \in {2, 3}, NEW e \in Events,
           NEW at \in {"enqueue", "readAccepted", "claimed", "readRetried"},
           NEW id \in Ids \cup {"", NoRow}, NEW item \in Items \cup {NoRow},
           NEW held \in SUBSET {"usage", "pending"},
           Open(s, at, b, e, id, item, held),
           at \in {"enqueue", "readAccepted"} =>
               "usage" \in held /\ (id = NoRow) = (usage[e] # NoRow),
           at = "claimed" => /\ held = {"usage", "pending"} /\ pending[e] # NoRow
                             /\ pending[e].failures < Quarantine,
           at = "enqueue" => id # NoRow,
           id \in Ids => b = 3,
           at = "readRetried" => item # NoRow /\ "pending" \in held
    PROVE  Inv'
<1> DEFINE r == [at |-> at, bin |-> b, e |-> e, id |-> id, item |-> item, held |-> held]
<1>0. /\ r.at = at /\ r.bin = b /\ r.e = e /\ r.id = id /\ r.item = item
      /\ r.held = held /\ r \in Txs
  BY DEF Txs
<1>1. /\ TypeOK /\ Solo /\ Known /\ Stage /\ Fence /\ RequestIdsDurable /\ IdsSince3
      /\ UNCHANGED <<version, usage, pending, ledger, mpc, acked>>
      /\ tx' = [tx EXCEPT ![s] = r] /\ tx[s].at = "idle"
      /\ Alone(s, e) /\ MayLock(s, held)
  BY DEF Inv, Open, tables
<1> HIDE DEF r
<1>2. tx'[s] = r /\ \A t \in Sessions \ {s} : tx'[t] = tx[t]
  BY <1>1 DEF TypeOK
<1>3. TypeOK'
  <2>1. tx' \in [Sessions -> Txs]
    BY <1>0, <1>1 DEF TypeOK
  <2>2. TablesOK'
    BY <1>1 DEF TypeOK, TablesOK
  <2> QED
    BY <1>1, <2>1, <2>2 DEF TypeOK
<1>4. Solo'
  <2> SUFFICES ASSUME NEW p \in Sessions, NEW q \in Sessions, p # q, tx'[p].e = tx'[q].e
               PROVE  tx'[p].e = NoRow
    BY DEF Solo
  <2>0. /\ \A t \in Sessions \ {s} : tx[t].e # e
        /\ tx[p].e = tx[q].e => tx[p].e = NoRow
    BY <1>1 DEF Alone, Solo
  <2>1. CASE p = s
    <3>1. tx'[p].e = e
      BY <1>0, <1>2, <2>1
    <3>2. q \in Sessions \ {s} /\ tx'[q] = tx[q]
      BY <1>2, <2>1
    <3> QED
      BY <2>0, <3>1, <3>2
  <2>2. CASE q = s
    <3>1. tx'[q].e = e
      BY <1>0, <1>2, <2>2
    <3>2. p \in Sessions \ {s} /\ tx'[p] = tx[p]
      BY <1>2, <2>2
    <3> QED
      BY <2>0, <3>1, <3>2
  <2>3. CASE p # s /\ q # s
    BY <1>2, <2>0, <2>3
  <2> QED
    BY <2>1, <2>2, <2>3
<1>5. Known'
  <2>1. ASSUME NEW t \in Sessions PROVE (Acceptance(t) /\ Claimed(t) /\ Shape(t))'
    <3>1. CASE t = s
      BY <1>0, <1>1, <1>2, <3>1 DEF Acceptance, Claimed, Shape
    <3>2. CASE t # s
      <4>1. Acceptance(t) /\ Claimed(t) /\ Shape(t) /\ tx'[t] = tx[t]
            /\ usage' = usage /\ pending' = pending
        BY <1>1, <1>2, <3>2 DEF Known
      <4> QED
        BY <4>1 DEF Acceptance, Claimed, Shape
    <3> QED
      BY <3>1, <3>2
  <2> QED
    BY <2>1 DEF Known
<1>6. Stage' /\ IdsSince3' /\ RequestIdsDurable'
  BY <1>1 DEF Stage, IdsSince3, RequestIdsDurable
<1>7. Fence'
  <2>1. mpc \in {"guard3", "drop3"} => Wanted = {"usage"}
    BY DEF Wanted
  <2>2. mpc \in {"guard3", "drop3"} => "usage" \notin held
    BY <1>1, <2>1 DEF MayLock, Known, Shape
  <2> QED
    BY <1>0, <1>1, <1>2, <2>2 DEF Fence, Unused
<1> QED
  BY <1>3, <1>4, <1>5, <1>6, <1>7 DEF Inv

\* A transaction that closes, or moves on, without touching the tables.
LEMMA RollbackKeeps == ASSUME Inv, NEW s \in Sessions, Rollback(s) PROVE Inv'
<1>0. NoTx \in Txs /\ NoTx.at = "idle" /\ NoTx.e = NoRow /\ NoTx.held = {}
      /\ NoTx.id = NoRow
  BY DEF NoTx, Txs
<1>1. /\ TypeOK /\ Solo /\ Known /\ Stage /\ Fence /\ RequestIdsDurable /\ IdsSince3
      /\ UNCHANGED <<version, usage, pending, ledger, mpc, acked>>
      /\ tx' = [tx EXCEPT ![s] = NoTx]
  BY DEF Inv, Rollback, Close, tables
<1>2. tx'[s] = NoTx /\ \A t \in Sessions \ {s} : tx'[t] = tx[t]
  BY <1>1 DEF TypeOK
<1>3. TypeOK'
  <2>1. tx' \in [Sessions -> Txs]
    BY <1>0, <1>1 DEF TypeOK
  <2>2. TablesOK'
    BY <1>1 DEF TypeOK, TablesOK
  <2> QED
    BY <1>1, <2>1, <2>2 DEF TypeOK
<1>4. Solo'
  BY <1>0, <1>1, <1>2 DEF Solo
<1>5. Known'
  <2>1. ASSUME NEW t \in Sessions PROVE (Acceptance(t) /\ Claimed(t) /\ Shape(t))'
    <3>1. CASE t = s
      BY <1>0, <1>2, <3>1, IdsAssumption DEF Acceptance, Claimed, Shape
    <3>2. CASE t # s
      <4>1. Acceptance(t) /\ Claimed(t) /\ Shape(t) /\ tx'[t] = tx[t]
            /\ usage' = usage /\ pending' = pending
        BY <1>1, <1>2, <3>2 DEF Known
      <4> QED
        BY <4>1 DEF Acceptance, Claimed, Shape
    <3> QED
      BY <3>1, <3>2
  <2> QED
    BY <2>1 DEF Known
<1>6. Stage' /\ IdsSince3' /\ RequestIdsDurable'
  BY <1>1 DEF Stage, IdsSince3, RequestIdsDurable
<1>7. Fence'
  BY <1>0, <1>1, <1>2 DEF Fence, Unused
<1> QED
  BY <1>3, <1>4, <1>5, <1>6, <1>7 DEF Inv

LEMMA EnqueueKeeps == ASSUME Inv, NEW s \in Sessions, Enqueue(s) PROVE Inv'
<1> DEFINE r == [tx[s] EXCEPT !.at = "readAccepted", !.held = {"usage", "pending"}]
<1>1. /\ TypeOK /\ Solo /\ Known /\ Stage /\ Fence /\ RequestIdsDurable /\ IdsSince3
      /\ UNCHANGED <<version, usage, pending, ledger, mpc, acked>>
      /\ tx' = [tx EXCEPT ![s] = r] /\ tx[s].at = "enqueue"
  BY DEF Inv, Enqueue, tables
<1>0. /\ r.at = "readAccepted" /\ r.bin = tx[s].bin /\ r.e = tx[s].e /\ r.id = tx[s].id
      /\ r.item = tx[s].item /\ r.held = {"usage", "pending"} /\ r \in Txs
  <2>1. tx[s] \in Txs
    BY <1>1 DEF TypeOK
  <2> QED
    BY <2>1 DEF Txs
<1> HIDE DEF r
<1>2. tx'[s] = r /\ \A t \in Sessions \ {s} : tx'[t] = tx[t]
  BY <1>1 DEF TypeOK
<1>3. TypeOK'
  <2>1. tx' \in [Sessions -> Txs]
    BY <1>0, <1>1 DEF TypeOK
  <2>2. TablesOK'
    BY <1>1 DEF TypeOK, TablesOK
  <2> QED
    BY <1>1, <2>1, <2>2 DEF TypeOK
<1>4. Solo'
  BY <1>0, <1>1, <1>2 DEF Solo
<1>5. Known'
  BY <1>0, <1>1, <1>2 DEF Known, Acceptance, Claimed, Shape
<1>6. Stage' /\ IdsSince3' /\ RequestIdsDurable'
  BY <1>1 DEF Stage, IdsSince3, RequestIdsDurable
<1>7. Fence'
  BY <1>0, <1>1, <1>2 DEF Fence, Unused, Known, Acceptance
<1> QED
  BY <1>3, <1>4, <1>5, <1>6, <1>7 DEF Inv

\* COMMIT: the rows of the transaction's own event change, and nothing else.
LEMMA CommitKeeps ==
    ASSUME Inv, NEW s \in Sessions, Close(s), tx[s].at # "idle",
           UNCHANGED <<version, mpc>>, TablesOK', RequestIdsDurable',
           \A f \in Events \ {tx[s].e} : usage'[f] = usage[f] /\ pending'[f] = pending[f],
           usage'[tx[s].e] \in Ids =>
               \/ usage'[tx[s].e] = usage[tx[s].e]
               \/ version = 3 /\ "usage" \in tx[s].held
    PROVE  Inv'
<1>0. NoTx \in Txs /\ NoTx.at = "idle" /\ NoTx.e = NoRow /\ NoTx.held = {}
      /\ NoTx.id = NoRow
  BY DEF NoTx, Txs
<1>1. /\ TypeOK /\ Solo /\ Known /\ Stage /\ Fence /\ IdsSince3
      /\ tx' = [tx EXCEPT ![s] = NoTx]
  BY DEF Inv, Close
<1>2. tx'[s] = NoTx /\ \A t \in Sessions \ {s} : tx'[t] = tx[t]
  BY <1>1 DEF TypeOK
<1>3. TypeOK'
  <2>1. tx' \in [Sessions -> Txs]
    BY <1>0, <1>1 DEF TypeOK
  <2> QED
    BY <1>1, <2>1 DEF TypeOK
<1>4. Solo'
  BY <1>0, <1>1, <1>2 DEF Solo
<1>5. Known'
  <2>1. ASSUME NEW t \in Sessions PROVE (Acceptance(t) /\ Claimed(t) /\ Shape(t))'
    <3>1. CASE t = s
      BY <1>0, <1>2, <3>1, IdsAssumption DEF Acceptance, Claimed, Shape
    <3>2. CASE t # s
      <4>1. Acceptance(t) /\ Claimed(t) /\ Shape(t) /\ tx'[t] = tx[t]
        BY <1>1, <1>2, <3>2 DEF Known
      <4>2. tx[s].e \in Events /\ tx[s].e # NoRow
        BY <1>1, EventsAssumption DEF Known, Shape
      <4>3. tx[t].e # tx[s].e
        BY <1>1, <3>2, <4>2 DEF Solo
      <4>4. tx[t].at # "idle" => /\ usage'[tx[t].e] = usage[tx[t].e]
                                /\ pending'[tx[t].e] = pending[tx[t].e]
        BY <4>1, <4>3 DEF Shape
      <4> QED
        BY <4>1, <4>4 DEF Acceptance, Claimed, Shape
    <3> QED
      BY <3>1, <3>2
  <2> QED
    BY <2>1 DEF Known
<1>6. Stage'
  BY <1>1 DEF Stage
<1>7. IdsSince3'
  BY <1>1 DEF IdsSince3
<1>8. Fence'
  <2>1. mpc \in {"guard3", "drop3"} => Unused("usage")'
    BY <1>0, <1>1, <1>2 DEF Fence, Unused
  <2>2. mpc = "drop3" => \A e \in Events : usage'[e] \notin Ids
    BY <1>1 DEF Fence, Unused
  <2> QED
    BY <2>1, <2>2 DEF Fence
<1> QED
  BY <1>3, <1>4, <1>5, <1>6, <1>7, <1>8 DEF Inv

LEMMA ReadAcceptedKeeps == ASSUME Inv, NEW s \in Sessions, ReadAccepted(s) PROVE Inv'
<1>0. version \in 0..3
  BY DEF Inv, TypeOK
<1> DEFINE e == tx[s].e
           stored == IF tx[s].id = NoRow THEN usage[e] ELSE tx[s].id
<1>1. /\ TypeOK /\ Known /\ RequestIdsDurable
      /\ tx[s].at = "readAccepted" /\ version >= tx[s].bin
      /\ usage' = [usage EXCEPT ![e] = stored]
      /\ acked' = [acked EXCEPT ![e] = @ \cup ({stored} \ {""})]
      /\ Close(s) /\ UNCHANGED <<version, ledger, mpc>>
  BY DEF Inv, ReadAccepted
<1>2. pending' = IF tx[s].item = NoRow THEN pending ELSE [pending EXCEPT ![e] = tx[s].item]
  BY DEF ReadAccepted
<1>3. /\ e \in Events /\ "usage" \in tx[s].held /\ (tx[s].id \in Ids => tx[s].bin = 3)
      /\ (tx[s].id = NoRow) = (usage[e] # NoRow)
  BY <1>1 DEF Known, Shape, Acceptance
<1>4. /\ tx[s].id \in Ids \cup {"", NoRow} /\ tx[s].item \in Items \cup {NoRow}
      /\ usage[e] \in Ids \cup {"", NoRow} /\ acked[e] \subseteq {usage[e]}
      /\ acked[e] \subseteq Ids /\ version \in 0..3
  <2>1. tx[s] \in Txs
    BY <1>1 DEF TypeOK
  <2>2. tx[s].id \in Ids \cup {"", NoRow} /\ tx[s].item \in Items \cup {NoRow}
    BY <2>1 DEF Txs
  <2> QED
    BY <1>1, <1>3, <2>2 DEF TypeOK, TablesOK, RequestIdsDurable
<1>5. stored \in Ids \cup {""} /\ acked[e] \subseteq {stored}
      /\ (stored \in Ids => stored = usage[e] \/ version = 3)
  <2>1. CASE tx[s].id = NoRow
    BY <1>3, <1>4, <2>1
  <2>2. CASE tx[s].id # NoRow
    <3>1. usage[e] = NoRow /\ acked[e] = {}
      BY <1>3, <1>4, <2>2, IdsAssumption
    <3>2. stored = tx[s].id /\ stored \in Ids \cup {""}
      BY <1>4, <2>2
    <3>3. stored \in Ids => version >= 3
      BY <1>1, <1>3, <3>2
    <3>4. version >= 3 => version = 3
      BY <1>0
    <3> QED
      BY <3>1, <3>2, <3>3, <3>4
  <2> QED
    BY <2>1, <2>2
<1> HIDE DEF stored, e
<1>6. TablesOK'
  <2>1. usage \in [Events -> Ids \cup {"", NoRow}] /\ acked \in [Events -> SUBSET Ids]
        /\ pending \in [Events -> Items \cup {NoRow}] /\ ledger \subseteq Events
    BY <1>1 DEF TypeOK, TablesOK
  <2>2. usage' \in [Events -> Ids \cup {"", NoRow}]
    BY <1>1, <1>5, <2>1
  <2>3. acked' \in [Events -> SUBSET Ids]
    BY <1>1, <1>4, <1>5, <2>1
  <2>4. pending' \in [Events -> Items \cup {NoRow}]
    BY <1>2, <1>4, <2>1
  <2> QED
    BY <1>1, <2>1, <2>2, <2>3, <2>4 DEF TablesOK
<1>7. usage'[e] = stored /\ acked'[e] \subseteq {stored}
  BY <1>1, <1>3, <1>5 DEF TypeOK, TablesOK
<1>8. \A f \in Events \ {e} : usage'[f] = usage[f] /\ pending'[f] = pending[f]
                               /\ acked'[f] = acked[f]
  BY <1>1, <1>2, <1>3 DEF TypeOK, TablesOK
<1>9. RequestIdsDurable'
  BY <1>1, <1>7, <1>8 DEF RequestIdsDurable
<1>10. usage'[e] \in Ids => usage'[e] = usage[e] \/ (version = 3 /\ "usage" \in tx[s].held)
  BY <1>3, <1>5, <1>7
<1> QED
  BY <1>1, <1>6, <1>8, <1>9, <1>10, CommitKeeps DEF e

LEMMA ProcessKeeps == ASSUME Inv, NEW s \in Sessions, Process(s) PROVE Inv'
<1> DEFINE e == tx[s].e
<1>1. /\ TypeOK /\ Known /\ RequestIdsDurable /\ tx[s].at = "claimed"
      /\ \/ pending' = [pending EXCEPT ![e] = NoRow] /\ ledger' = ledger \cup {e}
         \/ pending' = [pending EXCEPT ![e].failures = @ + 1] /\ ledger' = ledger
      /\ Close(s) /\ UNCHANGED <<version, usage, mpc, acked>>
  BY DEF Inv, Process
<1>2. e \in Events /\ pending[e] # NoRow /\ pending[e].failures < Quarantine
  BY <1>1 DEF Known, Shape, Claimed
<1>3. pending \in [Events -> Items \cup {NoRow}] /\ pending[e] \in Items
  BY <1>1, <1>2 DEF TypeOK, TablesOK
<1>4. [pending[e] EXCEPT !.failures = @ + 1] \in Items
  BY <1>2, <1>3 DEF Items, Quarantine
<1> HIDE DEF e
<1>5. pending' \in [Events -> Items \cup {NoRow}]
      /\ \A f \in Events \ {e} : pending'[f] = pending[f]
  <2>1. CASE pending' = [pending EXCEPT ![e] = NoRow]
    BY <1>2, <1>3, <2>1
  <2>2. CASE pending' = [pending EXCEPT ![e].failures = @ + 1]
    BY <1>2, <1>3, <1>4, <2>2
  <2> QED
    BY <1>1, <2>1, <2>2
<1>6. TablesOK'
  BY <1>1, <1>2, <1>5 DEF TypeOK, TablesOK
<1>7. RequestIdsDurable'
  BY <1>1 DEF RequestIdsDurable
<1> QED
  BY <1>1, <1>5, <1>6, <1>7, CommitKeeps DEF e

LEMMA ReadRetriedKeeps == ASSUME Inv, NEW s \in Sessions, ReadRetried(s) PROVE Inv'
<1> DEFINE e == tx[s].e
<1>1. /\ TypeOK /\ Known /\ RequestIdsDurable /\ tx[s].at = "readRetried"
      /\ pending' = [pending EXCEPT ![e] = tx[s].item]
      /\ Close(s) /\ UNCHANGED <<version, usage, ledger, mpc, acked>>
  BY DEF Inv, ReadRetried
<1>2. e \in Events
  BY <1>1 DEF Known, Shape
<1>3. pending \in [Events -> Items \cup {NoRow}] /\ tx[s].item \in Items \cup {NoRow}
  <2>1. tx[s] \in Txs
    BY <1>1 DEF TypeOK
  <2> QED
    BY <1>1, <2>1 DEF TypeOK, TablesOK, Txs
<1> HIDE DEF e
<1>5. pending' \in [Events -> Items \cup {NoRow}]
      /\ \A f \in Events \ {e} : pending'[f] = pending[f]
  BY <1>1, <1>2, <1>3
<1>6. TablesOK'
  BY <1>1, <1>5 DEF TypeOK, TablesOK
<1>7. RequestIdsDurable'
  BY <1>1 DEF RequestIdsDurable
<1> QED
  BY <1>1, <1>5, <1>6, <1>7, CommitKeeps DEF e

LEMMA InsertUsageKeeps ==
    ASSUME Inv, NEW s \in Sessions, NEW b \in Binaries, NEW e \in Events, NEW i \in Ids,
           InsertUsage(s, b, e, i)
    PROVE  Inv'
<1>1. b \in {2, 3}
  BY BinariesAssumption
<1>2. CASE usage[e] = NoRow
  <2> DEFINE d == IF b = 3 THEN i ELSE ""
  <2>1. Open(s, "enqueue", b, e, d, NewItem, {"usage"})
    BY <1>2 DEF InsertUsage
  <2>2. d \in Ids \cup {"", NoRow} /\ d # NoRow /\ (d \in Ids => b = 3)
    BY IdsAssumption
  <2> HIDE DEF d
  <2> QED
    BY <1>1, <1>2, <2>1, <2>2, NewItemTyped, OpenKeeps
<1>3. CASE usage[e] # NoRow
  <2>1. Open(s, "readAccepted", b, e, NoRow, NoRow, {"usage"})
    BY <1>3 DEF InsertUsage
  <2> QED
    BY <1>1, <1>3, <2>1, IdsAssumption, OpenKeeps
<1> QED
  BY <1>2, <1>3

LEMMA ClaimKeeps ==
    ASSUME Inv, NEW s \in Sessions, NEW b \in Binaries, NEW e \in Events, Claim(s, b, e)
    PROVE  Inv'
<1>1. b \in {2, 3} /\ pending[e] # NoRow /\ pending[e].failures < Quarantine
      /\ Open(s, "claimed", b, e, NoRow, pending[e], {"usage", "pending"})
  BY BinariesAssumption DEF Claim, Eligible
<1>2. pending[e] \in Items \cup {NoRow}
  BY DEF Inv, TypeOK, TablesOK
<1> QED
  BY <1>1, <1>2, IdsAssumption, OpenKeeps

LEMMA LockRowKeeps ==
    ASSUME Inv, NEW s \in Sessions, NEW b \in Binaries, NEW e \in Events,
           NEW g \in 0..MaxGen, LockRow(s, b, e, g)
    PROVE  Inv'
<1>1. b \in {2, 3} /\ pending[e] \in Items
  BY BinariesAssumption DEF LockRow, Inv, TypeOK, TablesOK
<1>2. [failures |-> 0, gen |-> g + 1] \in Items
  BY MaxGenAssumption DEF Items, Quarantine
<1>3. PICK item \in Items : Open(s, "readRetried", b, e, NoRow, item, {"pending"})
  BY <1>1, <1>2 DEF LockRow
<1>4. item # NoRow
  BY NoItemAssumption
<1> QED
  BY <1>1, <1>3, <1>4, IdsAssumption, OpenKeeps

LEMMA InvStep == Inv /\ [Next]_vars => Inv'
<1> SUFFICES ASSUME Inv, [Next]_vars PROVE Inv'
  OBVIOUS
<1>1. CASE UNCHANGED vars
  <2>1. UNCHANGED <<version, usage, pending, ledger, mpc, tx, acked>>
    BY <1>1 DEF vars, tables
  <2> QED
    BY <2>1 DEF Inv, TypeOK, TablesOK, Solo, Known, Acceptance, Claimed, Shape, Stage,
                Fence, Unused, IdsSince3, RequestIdsDurable
<1>2. CASE Migrate
  BY <1>2, QuietMigration, Drop1Keeps, Drop2Keeps, Drop3Keeps
  DEF Migrate, StartUp, StartDown
<1>3. ASSUME NEW s \in Sessions, Service(s) PROVE Inv'
  BY <1>3, InsertUsageKeeps, ClaimKeeps, LockRowKeeps, EnqueueKeeps, ReadAcceptedKeeps,
     ProcessKeeps, ReadRetriedKeeps, RollbackKeeps DEF Service
<1> QED
  BY <1>1, <1>2, <1>3 DEF Next

\* The tables, the transactions and the migration keep their types: failures
\* never pass the quarantine limit that pending_events checks.
THEOREM TypeCorrect == Spec => []TypeOK
<1>1. Inv => TypeOK
  BY DEF Inv
<1> QED
  BY <1>1, InvInit, InvStep, PTL DEF Spec

\* An acknowledged request id is never erased or replaced, whatever migrations
\* and binaries run beside each other (000003 down and Store.Accept).
THEOREM IdsSurvive == Spec => []RequestIdsDurable
<1>1. Inv => RequestIdsDurable
  BY DEF Inv
<1> QED
  BY <1>1, InvInit, InvStep, PTL DEF Spec
-----------------------------------------------------------------------------
(* 000002 down beside binaries that all need schema version 3 *)

\* Such a binary commits nothing below version 3, and its claims keep 000003
\* down from leaving version 3 under them.
Current ==
    /\ \A s \in Sessions : tx[s].at # "idle" => tx[s].bin = 3
    /\ \A s \in Sessions : tx[s].at = "claimed" => version = 3
    /\ mpc = "drop2" => \A e \in Events : ~Active(pending[e])

LEMMA CurrentStep ==
    ASSUME Binaries = {3}, Inv, Current, [Next]_vars
    PROVE  Current'
<1>0. TypeOK /\ Known /\ Stage /\ Inv'
  BY InvStep DEF Inv
<1>1. CASE UNCHANGED vars
  BY <1>1 DEF Current, vars, tables
<1>2. CASE Migrate
  <2>1. tx' = tx
    BY <1>2 DEF Migrate, StartUp, StartDown, Begin, MigrationFails, Up1, Up2, Up3,
                LockUsage, Guard3, Drop3, Guard2, Drop2, Drop1
  <2>2. \A s \in Sessions : tx[s].at = "claimed" => version' = 3
    <3> SUFFICES ASSUME NEW s \in Sessions, tx[s].at = "claimed" PROVE version' = 3
      OBVIOUS
    <3>1. version = 3 /\ "usage" \in tx[s].held
      BY <1>0 DEF Current, Known, Claimed
    <3>2. ~Drop3 /\ ~Drop2 /\ ~Drop1 /\ ~Up1 /\ ~Up2 /\ ~Up3
      <4>1. ~Drop3
        BY <3>1 DEF Drop3, Unused
      <4>2. mpc \notin {"drop2", "down1", "up1", "up2", "up3"}
        BY <1>0, <3>1 DEF Stage
      <4> QED
        BY <4>1, <4>2 DEF Drop2, Drop1, Up1, Up2, Up3
    <3> QED
      BY <1>2, <3>1, <3>2 DEF Migrate, StartUp, StartDown, Begin, MigrationFails,
                              LockUsage, Guard3, Guard2
  <2>3. mpc' = "drop2" => \A e \in Events : ~Active(pending'[e])
    BY <1>2 DEF Current, Migrate, StartUp, StartDown, Begin, MigrationFails, Up1, Up2, Up3,
                LockUsage, Guard3, Drop3, Guard2, Drop2, Drop1, Migrated, tables
  <2> QED
    BY <2>1, <2>2, <2>3 DEF Current
<1>3. ASSUME NEW s \in Sessions, Service(s) PROVE Current'
  <2>1. /\ version' = version /\ mpc' = mpc
        /\ \A t \in Sessions \ {s} : tx'[t] = tx[t]
    BY <1>0, <1>3 DEF Service, InsertUsage, Claim, LockRow, Open, Enqueue, ReadAccepted,
                      Process, ReadRetried, Rollback, Close, TypeOK
  <2>2. (tx'[s].at # "idle" => tx'[s].bin = 3) /\ (tx'[s].at = "claimed" => version = 3)
    <3>1. ASSUME NEW b \in Binaries, NEW e, NEW at, NEW d, NEW item, NEW held,
                 Open(s, at, b, e, d, item, held), at = "claimed" => version >= b
          PROVE  (tx'[s].at # "idle" => tx'[s].bin = 3) /\ (tx'[s].at = "claimed" => version = 3)
      <4>1. tx'[s] = [at |-> at, bin |-> b, e |-> e, id |-> d, item |-> item, held |-> held]
        BY <1>0, <3>1 DEF Open, TypeOK
      <4>2. b = 3 /\ version \in 0..3
        BY <1>0 DEF TypeOK
      <4> QED
        BY <3>1, <4>1, <4>2
    <3>2. CASE \E b \in Binaries, e \in Events, id \in Ids : InsertUsage(s, b, e, id)
      BY <3>1, <3>2 DEF InsertUsage
    <3>3. CASE \E b \in Binaries, e \in Events : Claim(s, b, e)
      BY <3>1, <3>3 DEF Claim
    <3>4. CASE \E b \in Binaries, e \in Events, g \in 0..MaxGen : LockRow(s, b, e, g)
      BY <3>1, <3>4 DEF LockRow
    <3>5. CASE Enqueue(s)
      <4>1. tx[s] \in Txs /\ tx[s].at # "idle"
            /\ tx'[s] = [tx[s] EXCEPT !.at = "readAccepted", !.held = {"usage", "pending"}]
        BY <1>0, <3>5 DEF Enqueue, TypeOK
      <4>2. tx'[s].at = "readAccepted" /\ tx'[s].bin = tx[s].bin
        BY <4>1 DEF Txs
      <4> QED
        BY <4>1, <4>2 DEF Current
    <3>6. CASE ReadAccepted(s) \/ Process(s) \/ ReadRetried(s) \/ Rollback(s)
      <4>1. Close(s)
        BY <3>6 DEF ReadAccepted, Process, ReadRetried, Rollback
      <4>2. tx'[s] = NoTx /\ NoTx.at = "idle"
        BY <1>0, <4>1 DEF Close, TypeOK, NoTx
      <4> QED
        BY <4>2
    <3> QED
      BY <1>3, <3>2, <3>3, <3>4, <3>5, <3>6 DEF Service
  <2>3. mpc = "drop2" => pending' = pending
    <3> SUFFICES ASSUME mpc = "drop2" PROVE pending' = pending
      OBVIOUS
    <3>1. version = 2
      BY <1>0 DEF Stage
    <3>2. ~ReadAccepted(s) /\ ~Process(s) /\ ~ReadRetried(s)
      <4>1. tx[s].at \in {"readAccepted", "readRetried"} => ~(version >= tx[s].bin)
        BY <3>1 DEF Current
      <4>2. tx[s].at # "claimed"
        BY <3>1 DEF Current
      <4> QED
        BY <4>1, <4>2 DEF ReadAccepted, Process, ReadRetried
    <3> QED
      BY <1>3, <3>2 DEF Service, InsertUsage, Claim, LockRow, Open, Enqueue, Rollback, tables
  <2> QED
    BY <2>1, <2>2, <2>3 DEF Current
<1> QED
  BY <1>1, <1>2, <1>3 DEF Next

\* While every running binary is the one of this repository, 000002 down erases
\* no failure count and no retry generation.
THEOREM RecoverySurvives ==
    ASSUME Binaries = {3}
    PROVE  Spec => []RecoveryNeverErased
<1>1. Init => Inv /\ Current
  <2> SUFFICES ASSUME Init PROVE Current
    BY InvInit
  <2>1. mpc = "idle" /\ \A s \in Sessions : tx[s] = NoTx
    BY DEF Init
  <2> QED
    BY <2>1 DEF Current, NoTx
<1>2. Inv /\ Current /\ [Next]_vars => (Inv /\ Current)'
  BY InvStep, CurrentStep
<1>3. Current => RecoveryNeverErased
  BY DEF Current, RecoveryNeverErased
<1> QED
  BY <1>1, <1>2, <1>3, PTL DEF Spec
-----------------------------------------------------------------------------
\* An open transaction belongs to a running binary, and the schema that a claim
\* was made under stays: its locks keep every rollback out.
Serves ==
    \A s \in Sessions :
        /\ tx[s].at # "idle" => tx[s].bin \in Binaries
        /\ tx[s].at = "claimed" => version >= tx[s].bin

LEMMA ServesStep ==
    ASSUME Inv, Serves, [Next]_vars
    PROVE  Serves'
<1>0. TypeOK /\ Known /\ tx \in [Sessions -> Txs] /\ version \in 0..3
  BY DEF Inv, TypeOK
<1>1. CASE UNCHANGED vars
  BY <1>1 DEF Serves, vars
<1>2. CASE Migrate
  <2>1. tx' = tx
    BY <1>2 DEF Migrate, StartUp, StartDown, Begin, MigrationFails, Up1, Up2, Up3, LockUsage,
                Guard3, Drop3, Guard2, Drop2, Drop1
  <2>2. version' >= version \/ \A s \in Sessions : tx[s].at # "claimed"
    <3>1. CASE Drop1 \/ Drop2 \/ Drop3
      BY <1>0, <3>1 DEF Drop1, Drop2, Drop3, Unused, Known, Claimed
    <3>2. CASE Up1 \/ Up2 \/ Up3
      BY <3>2 DEF Up1, Up2, Up3, Migrated, Inv, Stage
    <3>3. CASE ~(Drop1 \/ Drop2 \/ Drop3 \/ Up1 \/ Up2 \/ Up3)
      <4>1. version' = version
        BY <1>2, <3>3 DEF Migrate, StartUp, StartDown, Begin, MigrationFails, LockUsage, Guard3,
                          Guard2
      <4> QED
        BY <1>0, <4>1
    <3> QED
      BY <3>1, <3>2, <3>3
  <2>3. version' \in 0..3
    BY <1>2, InvStep DEF Inv, TypeOK, Next
  <2>4. \A s \in Sessions : tx[s].bin \in {2, 3}
    BY <1>0 DEF Txs
  <2> QED
    BY <1>0, <2>1, <2>2, <2>3, <2>4 DEF Serves
<1>3. ASSUME NEW s \in Sessions, Service(s) PROVE Serves'
  <2>1. version' = version /\ \A t \in Sessions \ {s} : tx'[t] = tx[t]
    BY <1>0, <1>3 DEF Service, InsertUsage, Claim, LockRow, Open, Enqueue, ReadAccepted, Process,
                      ReadRetried, Rollback, Close
  <2>2. /\ tx'[s].at # "idle" => tx'[s].bin \in Binaries
        /\ tx'[s].at = "claimed" => version >= tx'[s].bin
    <3>1. ASSUME NEW at, NEW b \in Binaries, NEW e, NEW id, NEW item, NEW held,
                 Open(s, at, b, e, id, item, held)
          PROVE  tx'[s].at = at /\ tx'[s].bin = b
      BY <1>0, <3>1 DEF Open
    <3>2. CASE \E b \in Binaries, e \in Events, id \in Ids : InsertUsage(s, b, e, id)
      BY <3>1, <3>2 DEF InsertUsage
    <3>3. CASE \E b \in Binaries, e \in Events : Claim(s, b, e)
      BY <3>1, <3>3 DEF Claim
    <3>4. CASE \E b \in Binaries, e \in Events, g \in 0..MaxGen : LockRow(s, b, e, g)
      BY <3>1, <3>4 DEF LockRow
    <3>5. CASE Enqueue(s)
      <4>1. tx[s] \in Txs /\ tx[s].at # "idle"
            /\ tx'[s] = [tx[s] EXCEPT !.at = "readAccepted", !.held = {"usage", "pending"}]
        BY <1>0, <3>5 DEF Enqueue
      <4>2. tx'[s].at = "readAccepted" /\ tx'[s].bin = tx[s].bin
        BY <4>1 DEF Txs
      <4> QED
        BY <4>1, <4>2 DEF Serves
    <3>6. CASE ReadAccepted(s) \/ Process(s) \/ ReadRetried(s) \/ Rollback(s)
      <4>1. Close(s)
        BY <3>6 DEF ReadAccepted, Process, ReadRetried, Rollback
      <4>2. tx'[s] = NoTx /\ NoTx.at = "idle"
        BY <1>0, <4>1 DEF Close, NoTx
      <4> QED
        BY <4>2
    <3> QED
      BY <1>3, <3>2, <3>3, <3>4, <3>5, <3>6 DEF Service
  <2> QED
    BY <2>1, <2>2 DEF Serves
<1> QED
  BY <1>1, <1>2, <1>3 DEF Next

\* A service whose binaries are all too new for the schema changes nothing, also
\* while migrations go down under its open transactions (Accept,
\* ProcessBatchWithResults and Retry name their newest columns).
THEOREM TooNewIsIdle == Spec => TooNewBinaryIdle
<1>1. Init => Inv /\ Serves
  <2> SUFFICES ASSUME Init PROVE Serves
    BY InvInit
  <2> QED
    BY DEF Init, Serves, NoTx
<1>2. Inv /\ Serves /\ [Next]_vars => (Inv /\ Serves)'
  BY InvStep, ServesStep
<1>3. Inv /\ Serves /\ [Next]_vars =>
        [(\A b \in Binaries : version < b) /\ version' = version
           => UNCHANGED <<usage, pending, ledger, acked>>]_vars
  <2> SUFFICES ASSUME Inv, Serves, Next, \A b \in Binaries : version < b, version' = version
               PROVE  UNCHANGED <<usage, pending, ledger, acked>>
    BY DEF vars
  <2>1. version \in 0..3 /\ \A b \in Binaries : ~(version >= b)
    BY BinariesAssumption DEF Inv, TypeOK
  <2>2. CASE Migrate
    <3>1. ~Drop1 /\ ~Drop2 /\ ~Drop3
      <4>1. Stage /\ version' = version
        BY DEF Inv
      <4>2. ~Drop1
        BY <4>1 DEF Drop1, Migrated, Stage
      <4>3. ~Drop2
        BY <4>1 DEF Drop2, Migrated, Stage
      <4>4. ~Drop3
        <5> SUFFICES ASSUME Drop3 PROVE FALSE
          OBVIOUS
        <5>1. mpc = "drop3" /\ version' = 2
          BY DEF Drop3, Migrated
        <5>2. version = 3
          BY <4>1, <5>1 DEF Stage
        <5>3. version' = 3
          BY <4>1, <5>2
        <5>4. 2 = 3
          BY <5>1, <5>3
        <5> QED
          BY <5>4
      <4> QED
        BY <4>2, <4>3, <4>4
    <3> QED
      BY <2>2, <3>1 DEF Migrate, StartUp, StartDown, Begin, MigrationFails, Up1, Up2, Up3,
                        LockUsage, Guard3, Guard2, tables
  <2>3. ASSUME NEW s \in Sessions, Service(s)
        PROVE  UNCHANGED <<usage, pending, ledger, acked>>
    <3>1. ~ReadAccepted(s) /\ ~Process(s) /\ ~ReadRetried(s)
      BY <2>1 DEF ReadAccepted, Process, ReadRetried, Serves
    <3> QED
      BY <2>3, <3>1 DEF Service, InsertUsage, Claim, LockRow, Open, Enqueue, Rollback, tables
  <2> QED
    BY <2>2, <2>3 DEF Next
<1> QED
  BY <1>1, <1>2, <1>3, PTL DEF Spec, TooNewBinaryIdle
=============================================================================

----------------------------- MODULE Migrations -----------------------------
(***************************************************************************)
(* The schema migrations (migrations/*.sql) run against a database that    *)
(* instances of the service may be using.  A migration is one transaction  *)
(* whose statements wait for table locks; a service transaction is cut     *)
(* where it asks for its next table lock, because that is where a          *)
(* migration can come in between.  A column that a schema version lacks is *)
(* represented by its default, so dropping it shows as a reset.            *)
(***************************************************************************)
EXTENDS Integers

CONSTANTS
    Events,     \* event identifiers
    Legacy,     \* events accepted under schema version 1, still queued
    Ids,        \* request identifiers of acceptances
    Sessions,   \* connections of the service's instances
    Binaries,   \* schema versions the running binaries were built for: 2, 3
    MaxGen,     \* bound: the largest generation a retry request carries
    NoRow       \* "no such row"

ASSUME LegacyAssumption == Legacy \subseteq Events
ASSUME EventsAssumption == NoRow \notin Events
ASSUME IdsAssumption == "" \notin Ids /\ NoRow \notin Ids \cup {""}
ASSUME BinariesAssumption == Binaries \subseteq {2, 3}
ASSUME MaxGenAssumption == MaxGen \in Nat

Quarantine == 3
Items == [failures : 0..Quarantine, gen : 0..MaxGen + 1]
ASSUME NoItemAssumption == NoRow \notin Items

VARIABLES
    version,  \* the committed schema version: 0 is the empty database
    usage,    \* usage_events: the request_id of e's row, or NoRow
    pending,  \* pending_events: the recovery columns of e's row, or NoRow
    ledger,   \* ledger_entries: the posted events
    mpc,      \* the migration's next statement
    tx,       \* tx[s]: the open transaction of s
    acked     \* acked[e]: request ids that acceptances of e were answered with

tables == <<usage, pending, ledger>>
vars == <<version, tables, mpc, tx, acked>>

NewItem == [failures |-> 0, gen |-> 0]

\* at: the statement s is about to execute; id: the request id it inserts, or
\* NoRow; item: the queue row it leaves; held: the tables it has locked.
NoTx == [at |-> "idle", bin |-> 2, e |-> NoRow, id |-> NoRow, item |-> NoRow,
         held |-> {}]

Init ==
    /\ version = 1
    /\ usage = [e \in Events |-> IF e \in Legacy THEN "" ELSE NoRow]
    /\ pending = [e \in Events |-> IF e \in Legacy THEN NewItem ELSE NoRow]
    /\ ledger = {}
    /\ mpc = "idle"
    /\ tx = [s \in Sessions |-> NoTx]
    /\ acked = [e \in Events |-> {}]
-----------------------------------------------------------------------------
(* Table locks, by PostgreSQL's rules: the locks of the service's statements
   conflict with ACCESS EXCLUSIVE only, and queue behind a request for it. *)

\* The tables the migration has locked ACCESS EXCLUSIVE or waits to lock so.
Wanted ==
    CASE mpc \in {"up3", "down3", "guard3", "drop3"} -> {"usage"}
      [] mpc \in {"up2", "drop2"} -> {"pending"}
      [] mpc = "down1" -> {"usage", "pending"}
      [] OTHER -> {}

\* s may lock the tables T: it has them already, or no migration wants them.
MayLock(s, T) == (T \ tx[s].held) \cap Wanted = {}

\* No service transaction holds a lock on table t.
Unused(t) == \A s \in Sessions : t \notin tx[s].held
-----------------------------------------------------------------------------
(* The migrations *)

Begin(v, first) ==
    /\ mpc = "idle"
    /\ version = v
    /\ mpc' = first
    /\ UNCHANGED <<version, tables, tx, acked>>

\* migrate up or migrate down starts the next file of its direction.
StartUp == Begin(0, "up1") \/ Begin(1, "up2") \/ Begin(2, "up3")
StartDown == Begin(1, "down1") \/ Begin(2, "guard2") \/ Begin(3, "down3")

\* The last statement and COMMIT; the new schema is visible at once.
Migrated(v) == mpc' = "idle" /\ version' = v

\* 000001 up: the tables come into being, empty.
Up1 ==
    /\ mpc = "up1"
    /\ Migrated(1)
    /\ UNCHANGED <<tables, tx, acked>>

\* 000002 up: the recovery columns appear with their defaults.
Up2 ==
    /\ mpc = "up2"
    /\ Unused("pending")
    /\ Migrated(2)
    /\ UNCHANGED <<tables, tx, acked>>

\* 000003 up: request_id appears, empty for every existing row.
Up3 ==
    /\ mpc = "up3"
    /\ Unused("usage")
    /\ Migrated(3)
    /\ UNCHANGED <<tables, tx, acked>>

\* 000003 down without its LOCK TABLE.
LockUsageNever ==
    /\ mpc = "down3"
    /\ mpc' = "guard3"
    /\ UNCHANGED <<version, tables, tx, acked>>

\* 000003 down: LOCK TABLE usage_events IN ACCESS EXCLUSIVE MODE.
LockUsage ==
    /\ mpc = "down3"
    /\ Unused("usage")
    /\ mpc' = "guard3"
    /\ UNCHANGED <<version, tables, tx, acked>>

\* RAISE EXCEPTION if request ids are stored.
Guard3 ==
    /\ mpc = "guard3"
    /\ mpc' = IF \E e \in Events : usage[e] \in Ids THEN "idle" ELSE "drop3"
    /\ UNCHANGED <<version, tables, tx, acked>>

\* ALTER TABLE usage_events DROP COLUMN request_id.
Drop3 ==
    /\ mpc = "drop3"
    /\ Unused("usage")
    /\ usage' = [e \in Events |-> IF usage[e] = NoRow THEN NoRow ELSE ""]
    /\ Migrated(2)
    /\ UNCHANGED <<pending, ledger, tx, acked>>

\* Recovery state that 000002 down must not erase.
Active(item) == item # NoRow /\ (item.failures > 0 \/ item.gen > 0)

\* 000002 down without its guard.
Guard2Never ==
    /\ mpc = "guard2"
    /\ mpc' = "drop2"
    /\ UNCHANGED <<version, tables, tx, acked>>

\* 000002 down: the guard reads committed rows and waits for nobody.
Guard2 ==
    /\ mpc = "guard2"
    /\ mpc' = IF \E e \in Events : Active(pending[e]) THEN "idle" ELSE "drop2"
    /\ UNCHANGED <<version, tables, tx, acked>>

\* DROP INDEX is the first statement that locks the table against writers; the
\* columns go in the same transaction.
Drop2 ==
    /\ mpc = "drop2"
    /\ Unused("pending")
    /\ pending' = [e \in Events |-> IF pending[e] = NoRow THEN NoRow ELSE NewItem]
    /\ Migrated(1)
    /\ UNCHANGED <<usage, ledger, tx, acked>>

\* 000001 down: the destructive rollback.
Drop1 ==
    /\ mpc = "down1"
    /\ Unused("usage") /\ Unused("pending")
    /\ usage' = [e \in Events |-> NoRow]
    /\ pending' = [e \in Events |-> NoRow]
    /\ ledger' = {}
    /\ Migrated(0)
    /\ UNCHANGED <<tx, acked>>

\* The migration's connection is lost, or PostgreSQL ends a deadlock with it.
MigrationFails ==
    /\ mpc # "idle"
    /\ mpc' = "idle"
    /\ UNCHANGED <<version, tables, tx, acked>>

Migrate ==
    \/ StartUp \/ StartDown \/ MigrationFails
    \/ Up1 \/ Up2 \/ Up3
    \/ LockUsage \/ Guard3 \/ Drop3 \/ Guard2 \/ Drop2 \/ Drop1
-----------------------------------------------------------------------------
(* The service's transactions.  A statement that names a column its schema
   lacks fails, and the transaction is rolled back. *)

\* No other open transaction works on e.
Alone(s, e) == \A t \in Sessions \ {s} : tx[t].e # e

Open(s, at, b, e, id, item, held) ==
    /\ tx[s].at = "idle"
    /\ Alone(s, e)
    /\ MayLock(s, held)
    /\ tx' = [tx EXCEPT ![s] = [at |-> at, bin |-> b, e |-> e, id |-> id,
                                item |-> item, held |-> held]]
    /\ UNCHANGED <<version, tables, mpc, acked>>

Close(s) == tx' = [tx EXCEPT ![s] = NoTx]

\* Store.Accept: INSERT INTO usage_events.  A binary of version 3 names the
\* column request_id, an older one leaves it to its default.
InsertUsage(s, b, e, id) ==
    /\ version >= 1
    /\ b = 3 => version = 3
    /\ IF usage[e] = NoRow
       THEN Open(s, "enqueue", b, e, IF b = 3 THEN id ELSE "", NewItem, {"usage"})
       ELSE Open(s, "readAccepted", b, e, NoRow, NoRow, {"usage"})

\* INSERT INTO pending_events.
Enqueue(s) ==
    /\ tx[s].at = "enqueue"
    /\ MayLock(s, {"pending"})
    /\ tx' = [tx EXCEPT ![s].at = "readAccepted", ![s].held = {"usage", "pending"}]
    /\ UNCHANGED <<version, tables, mpc, acked>>

\* readEvent at the end of Accept, then COMMIT, and the answer of the stored id.
ReadAccepted(s) ==
    LET e      == tx[s].e
        stored == IF tx[s].id = NoRow THEN usage[e] ELSE tx[s].id
    IN  /\ tx[s].at = "readAccepted"
        /\ MayLock(s, {"usage", "pending"})
        /\ version >= tx[s].bin
        /\ usage' = [usage EXCEPT ![e] = stored]
        /\ pending' = IF tx[s].item = NoRow THEN pending
                      ELSE [pending EXCEPT ![e] = tx[s].item]
        /\ acked' = [acked EXCEPT ![e] = @ \cup ({stored} \ {""})]
        /\ Close(s)
        /\ UNCHANGED <<version, ledger, mpc>>

Eligible(e) == pending[e] # NoRow /\ pending[e].failures < Quarantine

\* Store.ProcessBatchWithResults: the claim names the columns of its version.
Claim(s, b, e) ==
    /\ version >= b
    /\ Eligible(e)
    /\ Open(s, "claimed", b, e, NoRow, pending[e], {"usage", "pending"})

\* The claimed event is posted and leaves the queue, or its integrity failure
\* is counted; COMMIT.
Process(s) ==
    LET e == tx[s].e IN
    /\ tx[s].at = "claimed"
    /\ \/ /\ pending' = [pending EXCEPT ![e] = NoRow]
          /\ ledger' = ledger \cup {e}
       \/ /\ pending' = [pending EXCEPT ![e].failures = @ + 1]
          /\ UNCHANGED ledger
    /\ Close(s)
    /\ UNCHANGED <<version, usage, mpc, acked>>

\* Store.Retry: the row lock and the reactivation, or the no-op of a repeated
\* request, touch pending_events only.  A conflict changes nothing.
LockRow(s, b, e, g) ==
    /\ version >= 2
    /\ pending[e] # NoRow
    /\ \/ /\ pending[e] = [failures |-> Quarantine, gen |-> g]
          /\ Open(s, "readRetried", b, e, NoRow, [failures |-> 0, gen |-> g + 1],
                  {"pending"})
       \/ /\ pending[e].failures < Quarantine
          /\ pending[e].gen = g + 1
          /\ Open(s, "readRetried", b, e, NoRow, pending[e], {"pending"})

\* A retry that commits without reading the event back.
CommitUnread(s) ==
    /\ tx[s].at = "readRetried"
    /\ pending' = [pending EXCEPT ![tx[s].e] = tx[s].item]
    /\ Close(s)
    /\ UNCHANGED <<version, usage, ledger, mpc, acked>>

\* readEvent at the end of Retry, which names every column; COMMIT.
ReadRetried(s) ==
    /\ tx[s].at = "readRetried"
    /\ MayLock(s, {"usage"})
    /\ version >= tx[s].bin
    /\ pending' = [pending EXCEPT ![tx[s].e] = tx[s].item]
    /\ Close(s)
    /\ UNCHANGED <<version, usage, ledger, mpc, acked>>

\* A statement fails, the caller gives up or the connection is lost.
Rollback(s) ==
    /\ tx[s].at # "idle"
    /\ Close(s)
    /\ UNCHANGED <<version, tables, mpc, acked>>

Service(s) ==
    \/ \E b \in Binaries, e \in Events, id \in Ids : InsertUsage(s, b, e, id)
    \/ \E b \in Binaries, e \in Events : Claim(s, b, e)
    \/ \E b \in Binaries, e \in Events, g \in 0..MaxGen : LockRow(s, b, e, g)
    \/ Enqueue(s) \/ ReadAccepted(s) \/ Process(s) \/ ReadRetried(s)
    \/ Rollback(s)

Next == Migrate \/ \E s \in Sessions : Service(s)

Spec == Init /\ [][Next]_vars
-----------------------------------------------------------------------------
TablesOK ==
    /\ usage \in [Events -> Ids \cup {"", NoRow}]
    /\ pending \in [Events -> Items \cup {NoRow}]
    /\ ledger \subseteq Events
    /\ acked \in [Events -> SUBSET Ids]

Txs == [at : {"idle", "enqueue", "readAccepted", "claimed", "readRetried"},
        bin : {2, 3}, e : Events \cup {NoRow}, id : Ids \cup {"", NoRow},
        item : Items \cup {NoRow}, held : SUBSET {"usage", "pending"}]

TypeOK ==
    /\ version \in 0..3
    /\ mpc \in {"idle", "up1", "up2", "up3", "down1", "guard2", "drop2",
                "down3", "guard3", "drop3"}
    /\ TablesOK
    /\ tx \in [Sessions -> Txs]

\* "Refuse to silently erase correlation history": the request id that a caller
\* was given is the one stored for its event, whatever migrations run beside
\* the service, and an event never has two (000003 down, Store.Accept).
RequestIdsDurable == \A e \in Events : acked[e] \subseteq {usage[e]}

\* "Refuse to reactivate quarantined work or erase active retry preconditions":
\* whenever 000002 down is free to drop its columns, no queued event has a
\* failure or a generation (000002 down, its guard and its DROP INDEX).
RecoveryNeverErased ==
    mpc = "drop2" /\ Unused("pending") => \A e \in Events : ~Active(pending[e])

\* A binary changes nothing in a database whose schema it is too new for: only
\* migrations touch the tables below the version of every running binary
\* (Accept, ProcessBatchWithResults and Retry name their newest columns).
TooNewBinaryIdle ==
    [][(\A b \in Binaries : version < b) /\ version' = version
         => UNCHANGED <<usage, pending, ledger, acked>>]_vars
=============================================================================

------------------------------- MODULE Startup -------------------------------
(***************************************************************************)
(* Configuration: loadConfig of cmd/usage-billing/config.go as a function  *)
(* of the environment, and the checks that run reaches with the values it  *)
(* returns: the constructors of the components and the first test of       *)
(* Worker.Run.  Durations are in milliseconds.                             *)
(***************************************************************************)
EXTENDS Integers

CONSTANTS
    MaxInt64,   \* math.MaxInt64, a parameter so that TLC meets it
    Numbers,    \* Numbers[f]: numbers that the variable of field f may hold
    Lengths     \* lengths of tokens

Fields == {"rate", "interval", "batch", "pending"}

ASSUME MaxInt64Assumption == MaxInt64 \in Nat
ASSUME NumbersAssumption == Numbers \in [Fields -> SUBSET Int]
ASSUME LengthsAssumption == Lengths \subseteq Nat

\* What a variable holds: nothing, a number, or a text that is none.
Texts(f) == {[is |-> "empty"], [is |-> "garbage"]} \cup [is : {"number"}, n : Numbers[f]]

\* A token is described by its length and whether it is printable ASCII; of
\* DATABASE_URL and HTTP_ADDR only whether they pass their test is left.
Environments ==
    [database : BOOLEAN,
     address : BOOLEAN,
     token : [length : Lengths, printable : BOOLEAN],
     text : [rate : Texts("rate"), interval : Texts("interval"),
             batch : Texts("batch"), pending : Texts("pending")]]
-----------------------------------------------------------------------------
(* loadConfig *)

Defaults == [rate |-> 1000, interval |-> 100, batch |-> 100, pending |-> 10000]

TokenFits(t) == t.length >= 32 /\ t.length <= 4096 /\ t.printable

\* A rate must parse as an int64; the other limits are below that.
Fits(f, n) ==
    CASE f = "rate" -> n >= 1 /\ n <= MaxInt64
      [] f = "interval" -> n >= 10 /\ n <= 60000
      [] f = "batch" -> n >= 1 /\ n <= 1000
      [] f = "pending" -> n >= 1 /\ n <= 1000000

\* An empty variable leaves the default.
Loads(f, x) == x.is = "empty" \/ (x.is = "number" /\ Fits(f, x.n))

Value(f, x) == IF x.is = "empty" THEN Defaults[f] ELSE x.n

\* loadConfig returns no error,
Loadable(env) ==
    /\ env.database
    /\ TokenFits(env.token)
    /\ env.address
    /\ \A f \in Fields : Loads(f, env.text[f])

\* and returns these numbers beside the token.
Config(env) == [f \in Fields |-> Value(f, env.text[f])]
-----------------------------------------------------------------------------
(* run *)

StoreAccepts(cfg) == cfg["pending"] >= 1 /\ cfg["pending"] <= 1000000    \* NewWithQueueLimit
ServiceAccepts(cfg) == cfg["rate"] > 0                                  \* billing.New
HandlerAccepts(t) == t.length >= 32 /\ t.length <= 4096 /\ t.printable   \* httpapi.New

\* Run takes this test in its goroutine, when the server already listens.
WorkerAccepts(cfg) == cfg["interval"] > 0 /\ cfg["batch"] >= 1 /\ cfg["batch"] <= 1000
-----------------------------------------------------------------------------
\* A configuration that loadConfig accepts is refused by no component.  The
\* limits are written once in loadConfig and again in every component; where
\* they part, the service ends at its start or, for the worker, after it has
\* begun to answer requests.
NeverRefused ==
    \A env \in Environments :
        Loadable(env) =>
            /\ StoreAccepts(Config(env))
            /\ ServiceAccepts(Config(env))
            /\ HandlerAccepts(env.token)
            /\ WorkerAccepts(Config(env))
=============================================================================

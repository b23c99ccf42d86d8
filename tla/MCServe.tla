------------------------------- MODULE MCServe -------------------------------
(***************************************************************************)
(* A process with two clients, and the environments it may be started in:  *)
(* every limit of the configuration and its neighbour outside.             *)
(***************************************************************************)
EXTENDS Serve, Startup

Edges ==
    [f \in Fields |->
        CASE f = "rate" -> {0, 1, MaxInt64, MaxInt64 + 1}
          [] f = "interval" -> {0, 9, 10, 60000, 60001}
          [] f = "batch" -> {0, 1, 1000, 1001}
          [] f = "pending" -> {0, 1, 1000000, 1000001}]

TokenLengths == {0, 31, 32, 4096, 4097}

\* TLC evaluates this before it explores the process; ServeProofs proves it.
ASSUME StartsAreAccepted == NeverRefused
=============================================================================

---------------------------- MODULE MCMigrations ----------------------------
(* Migrations of a small database: symmetric sessions, ids and events. *)
EXTENDS Migrations, TLC

Symmetry == Permutations(Sessions) \cup Permutations(Ids)
=============================================================================

----------------------------- MODULE MCLoadTest -----------------------------
(* Three events over two clients: one client sends twice, one once. *)
EXTENDS LoadTest
=============================================================================

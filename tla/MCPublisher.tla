---------------------------- MODULE MCPublisher ----------------------------
(* The first commit of main merges the release, later ones do not. *)
EXTENDS Publisher

FirstCommit == {1}
=============================================================================

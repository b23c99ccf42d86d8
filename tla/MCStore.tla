------------------------------- MODULE MCStore -------------------------------
(***************************************************************************)
(* Small instances of the store.                                           *)
(***************************************************************************)
EXTENDS StoreProperties, Reports, TLC

CONSTANTS e1, e2, e3, c1, c2, c3

MCConns2 == {c1, c2}
MCConns3 == {c1, c2, c3}

\* With MaxInt64 = 3, Large is payable at rate 1 and overflows at rate 2.
Small == [customer |-> "acme", units |-> 1]
Large == [customer |-> "acme", units |-> 2]
MCInputs == {Small, Large}
MCOneInput == {Small}
\* With MaxInt64 = 2 and rate 1, the first is the largest payable request.
MCBoundaryInputs == {Large, [customer |-> "acme", units |-> 3]}
MCTwoCustomers == {Small, [customer |-> "bolt", units |-> 2]}

MCCodes == {"23514"}

\* Connections are interchangeable: sound for the safety runs.
SymmetryConns2 == Permutations(MCConns2)
SymmetryConns3 == Permutations(MCConns3)
=============================================================================

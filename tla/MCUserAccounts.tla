--------------------------- MODULE MCUserAccounts ---------------------------
(* Constants for model checking UserAccounts. *)
EXTENDS UserAccounts

OneEmail == {"e1"}
TwoRequests == {"p1", "p2"}
=============================================================================

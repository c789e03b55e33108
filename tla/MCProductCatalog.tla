-------------------------- MODULE MCProductCatalog --------------------------
(* Constants for model checking ProductCatalog. *)
EXTENDS ProductCatalog

TwoRequests == {"p1", "p2"}
=============================================================================

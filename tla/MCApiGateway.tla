---------------------------- MODULE MCApiGateway ----------------------------
(* Constants for model checking ApiGateway. *)
EXTENDS ApiGateway

OneBuyer == {"b1"}
BuyerAndReader == {"b1", "r1"}
=============================================================================

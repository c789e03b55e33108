------------------------ MODULE MCRateLimiterHistory ------------------------
(* Constants for model checking RateLimiterHistory. *)
EXTENDS RateLimiterHistory

TwoClients == {"c1", "c2"}
=============================================================================

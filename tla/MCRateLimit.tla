---------------------------- MODULE MCRateLimit ----------------------------
(* Instances of RateLimit for TLC, with a second of six ticks.             *)
EXTENDS RateLimit
=============================================================================

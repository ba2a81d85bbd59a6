------------------------------ MODULE MC_Front ------------------------------
(* One request among any number of others, a window of two ticks that takes *)
(* two requests, one retry of the provider, and one loss, of an expiry or of *)
(* all counters.                                                           *)
EXTENDS Front
=============================================================================

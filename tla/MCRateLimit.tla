---------------------------- MODULE MCRateLimit ----------------------------
(* Windows of three seconds and two requests; the clock runs long enough   *)
(* for three windows to follow each other.                                 *)
EXTENDS RateLimit
=============================================================================

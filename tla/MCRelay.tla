------------------------------- MODULE MCRelay -------------------------------
(* Two connections, two users, two messages.  A user may be logged in on *)
(* both connections, and both handlers may be relaying at once.            *)
EXTENDS Relay, TLC

CONSTANTS alice, bob, m1, m2

MCTo == (m1 :> bob) @@ (m2 :> bob)
=============================================================================

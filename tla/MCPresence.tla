----------------------------- MODULE MCPresence -----------------------------
(* Three connections, two users, so that a user can be logged in twice.    *)
EXTENDS Presence
CONSTANTS ann, bob
MCUsers == <<ann, bob>>
=============================================================================

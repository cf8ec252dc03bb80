--------------------------- MODULE MCMessageQueue ---------------------------
(* A ring of three entries, two sending handlers, six identifiers.         *)
EXTENDS MessageQueue
=============================================================================

------------------------- MODULE MCNodeExchange -------------------------
(* A client, a daemon and two tasks. *)
EXTENDS NodeExchange
=============================================================================

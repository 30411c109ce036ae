------------------------ MODULE MCMessageSendQueue ------------------------
(* Finite instances of MessageSendQueue for TLC.                           *)
EXTENDS MessageSendQueue, TLC

\* Messages and senders are interchangeable; so are the connections one side
\* initiated, but not those of different sides, which the arbitration tells
\* apart.
QueueSymmetry == UNION {Permutations(S) : S \in {Msg, Sender, Initiator, Conn \ Initiator}}

=============================================================================

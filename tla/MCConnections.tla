-------------------------- MODULE MCConnections --------------------------
(* Two nodes: 1 has the formula, 2 is a daemon that follows it into its end. *)
EXTENDS Connections

MCFirst == [n \in Node |-> IF n = 1 THEN <<"FILE">> ELSE <<"MESSAGE">>]

Setup(known1, known2, taken, announcing, exiting, mayFail) ==
    [known |-> [n \in Node |-> IF n = 1 THEN known1 ELSE known2], taken |-> taken,
     announcing |-> announcing, exiting |-> exiting, faults |-> mayFail]

MCSetups ==
    {\* Each node is configured with the other.
     Setup({<<2, 1>>}, {<<1, 1>>}, {}, {}, {}, 0),
     \* The daemon is configured with the client; something fails.
     Setup({}, {<<1, 1>>}, {}, {}, {}, 1),
     \* The client finishes; something fails.
     Setup({}, {<<1, 1>>}, {}, {}, {1}, 1),
     \* The daemon is announced, on its second port; something fails.
     Setup({}, {}, {<<2, 1>>}, {2}, {}, 1),
     \* The client finds no port, knows itself by an address and is announced.
     Setup({<<1, 1>>, <<2, 1>>}, {}, {<<1, 1>>, <<1, 2>>}, {1}, {}, 0),
     \* Nodes that are configured with themselves too.
     Setup({<<1, 1>>}, {<<2, 1>>, <<1, 1>>}, {}, {}, {}, 0)}
=============================================================================

--------------------------- MODULE MCConnections ---------------------------
(* Model values for Connections: two addresses and two names; slave n1 may *)
(* be renumbered to the other address, where n2 also lives.                *)
EXTENDS Connections, TLC

CONSTANTS a1, a2, n1, n2, h1, k1, loop

MCSlaves == {[addr |-> a1, name |-> n1], [addr |-> a2, name |-> n1],
             [addr |-> a2, name |-> n2]}
=============================================================================

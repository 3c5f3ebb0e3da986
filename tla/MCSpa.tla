------------------------------- MODULE MCSpa -------------------------------
(* Model values for Spa: two ports, one chain and one protocol.            *)
EXTENDS Spa

CONSTANTS p1, p2, tcp, ip1, r1, r2, maintain

MCFlows == <<[chain |-> "INPUT", proto |-> tcp]>>
=============================================================================

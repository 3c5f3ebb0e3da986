------------------------------ MODULE MCShares ------------------------------
(* One share, of the first slave.                                          *)
EXTENDS Shares

CONSTANTS m1, s1

MCSource == [s \in Shares |-> m1]

=============================================================================

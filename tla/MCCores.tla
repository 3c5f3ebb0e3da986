------------------------------ MODULE MCCores ------------------------------
(***************************************************************************)
(* The hosts: one socket of five cores with two threads each, numbered     *)
(* like most servers (core i is i and i + 5); two sockets of two cores     *)
(* with two threads, numbered across the sockets; one socket of two cores  *)
(* with two threads followed by three with one; one socket of two cores    *)
(* with four threads.  A client's <cpu> blocks have no topology, or one of *)
(* two sockets, each with one core of two threads.                         *)
(***************************************************************************)
EXTENDS Cores

HandlerSymmetry == Permutations(Handlers)

OneSocket ==
    [c \in 0..9 |-> [socket |-> 0, siblings |-> {c % 5, (c % 5) + 5}]]

TwoSockets ==
    [c \in 0..7 |-> [socket |-> c % 2, siblings |-> {c % 4, (c % 4) + 4}]]

Hybrid ==
    [c \in 0..6 |->
        [socket |-> 0,
         siblings |-> IF c < 4 THEN {2 * (c \div 2), 2 * (c \div 2) + 1} ELSE {c}]]

FourThreads ==
    [c \in 0..7 |->
        [socket |-> 0, siblings |-> 4 * (c \div 4) .. 4 * (c \div 4) + 3]]

MCTopologies == {OneSocket, TwoSockets, Hybrid, FourThreads}

MCBlocks ==
    {NoTopology, [sockets |-> 2, cores |-> 1, threads |-> 2]}

MCConfigs ==
    [start: {-1, 0, 1}, end: {0, 1, 3, 4, 5}, ht: BOOLEAN, socket: {0, 1}]

MCSelections ==
    UNION {[S -> SUBSET {0, 1, 4}] : S \in {{}, {0}, {1}, {0, 1}, {2}}}

=============================================================================

------------------------------ MODULE Registry ------------------------------
(***************************************************************************)
(* What master/protocol promises the services that look slaves up: the     *)
(* registry behaves as if a connection were dialled, registered, replaced  *)
(* or given up in one step.  A lookup by address or by name finds the      *)
(* newest registration there is, a connection that was given up never      *)
(* comes back, and every registration is numbered anew.                    *)
(*                                                                         *)
(* Connections implements this specification with a slice, a lock held for *)
(* one operation at a time and goroutines that dial, ping and close with   *)
(* no lock held.                                                           *)
(***************************************************************************)
EXTENDS Naturals

CONSTANTS
    Addr,      \* the addresses slaves can listen on
    Name,      \* the machine names
    Slaves,    \* the (addr, name) pairs slaves present
    Conn       \* the connections that can be dialled

VARIABLES
    entries,     \* the registrations in force
    byAddr,      \* what a lookup of each address finds: one entry, or none
    byName,      \* what a lookup of each name finds
    registered,  \* how many registrations there were
    retired      \* the connections given up, registered before or not

vars == <<entries, byAddr, byName, registered, retired>>

SameSlave(e, s) == e.addr = s.addr \/ e.name = s.name

Fresh == {c \in Conn : c \notin retired /\ \A e \in entries : e.conn # c}

Newest(es) ==
    IF es = {} THEN <<>>
    ELSE <<CHOOSE e \in es : \A f \in es : f.time <= e.time>>

LookupsFollow ==
    /\ byAddr' = [a \in Addr |-> Newest({e \in entries' : e.addr = a})]
    /\ byName' = [n \in Name |-> Newest({e \in entries' : e.name = n})]

Init ==
    /\ entries = {}
    /\ byAddr = [a \in Addr |-> <<>>]
    /\ byName = [n \in Name |-> <<>>]
    /\ registered = 0
    /\ retired = {}

(* A slave is registered over a fresh connection; one earlier entry with   *)
(* its address or its name, if there is any, makes room for it.            *)
Register(s) ==
    \E c \in Fresh :
        LET new == [addr |-> s.addr, name |-> s.name, conn |-> c,
                    time |-> registered]
            matches == {e \in entries : SameSlave(e, s)}
        IN  /\ \/ /\ matches = {}
                  /\ entries' = entries \cup {new}
                  /\ retired' = retired
               \/ \E e \in matches :
                    /\ entries' = (entries \ {e}) \cup {new}
                    /\ retired' = retired \cup {e.conn}
            /\ registered' = registered + 1
            /\ LookupsFollow

(* An entry whose slave does not answer is given up.                       *)
GiveUp(e) ==
    /\ entries' = entries \ {e}
    /\ retired' = retired \cup {e.conn}
    /\ registered' = registered
    /\ LookupsFollow

(* A connection whose first ping failed is never registered.               *)
Discard(c) ==
    /\ retired' = retired \cup {c}
    /\ UNCHANGED <<entries, byAddr, byName, registered>>

Next ==
    \/ \E s \in Slaves : Register(s)
    \/ \E e \in entries : GiveUp(e)
    \/ \E c \in Fresh : Discard(c)

Spec == Init /\ [][Next]_vars

=============================================================================

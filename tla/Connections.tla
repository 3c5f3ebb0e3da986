---------------------------- MODULE Connections ----------------------------
(***************************************************************************)
(* The master's registry of slave connections: master/protocol/protocol.go *)
(* and helpers.go.  The registry is one slice, guarded by connectionsMu;   *)
(* everything that happens to it happens in short critical sections, and   *)
(* between them the goroutines dial, ping and close gRPC connections with  *)
(* no lock held, working on copies of entries that may be out of date.     *)
(*                                                                         *)
(* The goroutines are                                                      *)
(*   - Handlers: one per SetConnection RPC in flight (a slave connecting); *)
(*   - Loop: PingAllSlavesLoop;                                            *)
(*   - Checkers: the CheckConnectionStateRemove that                       *)
(*     GetHealthyConnectionByMachineName spawns when a service finds an    *)
(*     unhealthy connection.                                               *)
(*                                                                         *)
(* A grpc.ClientConn is a number, in the order of the dials.  EntryTime is *)
(* only ever compared for equality, so it is the number of the             *)
(* registration.  LastSeen is display data and is left out, and with it    *)
(* markSlaveHealthy, which writes nothing else.                            *)
(***************************************************************************)
EXTENDS Naturals, Sequences

CONSTANTS
    Addr,       \* the addresses slaves can listen on
    Name,       \* the machine names
    Slaves,     \* the (addr, name) pairs slaves present in SetConnection
    Mortal,     \* the addresses that may stop answering for good
    Handlers, Loop, Checkers,   \* the goroutines
    Attempts,   \* pings before a removal, and dials to restore: 3 in the code
    MaxConns    \* bound on the connections dialled in a behaviour

Identity == [addr: Addr, name: Name]
Proc == Handlers \cup {Loop} \cup Checkers

ASSUME SlavesAssumption == Slaves \subseteq Identity /\ Mortal \subseteq Addr
ASSUME BoundsAssumption == Attempts \in Nat \ {0} /\ MaxConns \in Nat
ASSUME ProcAssumption ==
    /\ Loop \notin Handlers \cup Checkers
    /\ Handlers \cap Checkers = {}

VARIABLES
    connections,  \* the registry, in slice order
    registered,   \* how many entries were ever registered: the EntryTime clock
    dialled,      \* how many connections were ever dialled
    closed,       \* the connections on which Close was called
    dead,         \* the addresses that have stopped answering for good
    pc,           \* where each goroutine stands
    request,      \* the SetConnection arguments it is connecting to (0 or 1)
    held,         \* the connection only this goroutine refers to, 0 if none
    todo,         \* the rest of PingAllSlaves' snapshot
    suspect,      \* the copy CheckConnectionStateRemove works on (0 or 1 entry)
    tries         \* attempts made in the retry loop it is in

vars == <<connections, registered, dialled, closed, dead, pc, request,
          held, todo, suspect, tries>>

Entry == [addr: Addr, name: Name, conn: Nat \ {0}, time: Nat]

(* "next" is the head of PingAllSlaves' loop, "check" to "look" are        *)
(* CheckConnectionStateRemove and tryRestoreConnection, and "dial" to      *)
(* "added" are NewSlaveConnection, called by SetConnection (there is a     *)
(* request) or by tryRestoreConnection (there is a suspect, the entry it   *)
(* removed).                                                               *)
Label == {"idle", "dial", "ping", "register", "added", "snapshot", "next",
          "check", "remove", "removed", "look"}

-----------------------------------------------------------------------------
(* The registry's operations, each one critical section.                   *)

HasAddr(a) == \E i \in DOMAIN connections : connections[i].addr = a

SameSlave(e, s) == e.addr = s.addr \/ e.name = s.name

(* Bug: any match is overwritten, not the first.                           *)
AnyMatch(i, s) == i \in DOMAIN connections /\ SameSlave(connections[i], s)

(* The index addOrReplaceConnection overwrites.                            *)
IsFirstMatch(i, s) ==
    /\ i \in DOMAIN connections
    /\ SameSlave(connections[i], s)
    /\ \A j \in 1..(i - 1) : ~SameSlave(connections[j], s)

(* Bug: whatever entry the address has now is deleted.                     *)
SameAddr(i, e) == i \in DOMAIN connections /\ connections[i].addr = e.addr

(* The index removeConnection deletes: the entry must be the one that was  *)
(* checked, not a later one for the same address.                          *)
IsChecked(i, e) ==
    /\ i \in DOMAIN connections
    /\ connections[i].addr = e.addr
    /\ connections[i].time = e.time

Without(i) ==
    [j \in 1..(Len(connections) - 1) |->
        IF j < i THEN connections[j] ELSE connections[j + 1]]

-----------------------------------------------------------------------------
(* The arguments of the NewSlaveConnection that p is running.              *)
Target(p) == IF request[p] # <<>> THEN request[p][1] ELSE suspect[p][1]

(* A ping or a dial may succeed or time out at any moment, as the network  *)
(* and the slave please; it cannot succeed over a closed connection, nor   *)
(* to an address where no slave will answer again.                         *)
MayAnswer(a, c) == a \notin dead /\ c \notin closed

(* What a goroutine does once CheckConnectionStateRemove is over.          *)
CheckOver(p) ==
    /\ pc' = [pc EXCEPT ![p] = "next"]
    /\ suspect' = [suspect EXCEPT ![p] = <<>>]
    /\ tries' = [tries EXCEPT ![p] = 0]

(* NewSlaveConnection returned an error: SetConnection reports it, and     *)
(* tryRestoreConnection tries again until its attempts are spent.          *)
ConnectFailed(p) ==
    \/ /\ request[p] # <<>>
       /\ pc' = [pc EXCEPT ![p] = "idle"]
       /\ request' = [request EXCEPT ![p] = <<>>]
       /\ UNCHANGED <<suspect, tries>>
    \/ /\ request[p] = <<>> /\ tries[p] + 1 < Attempts
       /\ pc' = [pc EXCEPT ![p] = "look"]
       /\ tries' = [tries EXCEPT ![p] = @ + 1]
       /\ UNCHANGED <<request, suspect>>
    \/ /\ request[p] = <<>> /\ tries[p] + 1 >= Attempts
       /\ CheckOver(p)
       /\ UNCHANGED request

(* NewSlaveConnection succeeded: SetConnection goes on to PingAllSlaves.   *)
Connected(p) ==
    \/ /\ request[p] # <<>>
       /\ pc' = [pc EXCEPT ![p] = "snapshot"]
       /\ request' = [request EXCEPT ![p] = <<>>]
       /\ UNCHANGED <<suspect, tries>>
    \/ /\ request[p] = <<>>
       /\ CheckOver(p)
       /\ UNCHANGED request

-----------------------------------------------------------------------------
(* NewSlaveConnection, step by step.                                       *)

(* A slave calls SetConnection.                                            *)
SetConnection(p) ==
    /\ pc[p] = "idle"
    /\ \E s \in Slaves : request' = [request EXCEPT ![p] = <<s>>]
    /\ pc' = [pc EXCEPT ![p] = "dial"]
    /\ UNCHANGED <<connections, registered, dialled, closed, dead, held,
                   todo, suspect, tries>>

DialOk(p) ==
    /\ pc[p] = "dial"
    /\ Target(p).addr \notin dead
    /\ dialled < MaxConns
    /\ dialled' = dialled + 1
    /\ held' = [held EXCEPT ![p] = dialled + 1]
    /\ pc' = [pc EXCEPT ![p] = "ping"]
    /\ UNCHANGED <<connections, registered, closed, dead, request, todo,
                   suspect, tries>>

(* The blocking dial gives up after its ten seconds.                       *)
DialFails(p) ==
    /\ pc[p] = "dial"
    /\ ConnectFailed(p)
    /\ UNCHANGED <<connections, registered, dialled, closed, dead,
                   held, todo>>

FirstPingOk(p) ==
    /\ pc[p] = "ping"
    /\ MayAnswer(Target(p).addr, held[p])
    /\ pc' = [pc EXCEPT ![p] = "register"]
    /\ UNCHANGED <<connections, registered, dialled, closed, dead,
                   request, held, todo, suspect, tries>>

(* Bug: the error path forgets to close the connection.                    *)
FirstPingFailsNoClose(p) ==
    /\ pc[p] = "ping"
    /\ held' = [held EXCEPT ![p] = 0]
    /\ ConnectFailed(p)
    /\ UNCHANGED <<connections, registered, dialled, closed, dead, todo>>

FirstPingFails(p) ==
    /\ pc[p] = "ping"
    /\ closed' = closed \cup {held[p]}
    /\ held' = [held EXCEPT ![p] = 0]
    /\ ConnectFailed(p)
    /\ UNCHANGED <<connections, registered, dialled, dead, todo>>

(* addOrReplaceConnection: the new entry takes the place of the first one  *)
(* with its address or its name, whose connection is left to the caller to *)
(* close; with no such entry it is appended.                               *)
Register(p) ==
    LET new == [addr |-> Target(p).addr, name |-> Target(p).name,
                conn |-> held[p], time |-> registered]
    IN  /\ pc[p] = "register"
        /\ \/ \E i \in DOMAIN connections :
                /\ IsFirstMatch(i, Target(p))
                /\ connections' = [connections EXCEPT ![i] = new]
                /\ held' = [held EXCEPT ![p] = connections[i].conn]
           \/ /\ \A i \in DOMAIN connections :
                    ~SameSlave(connections[i], Target(p))
              /\ connections' = Append(connections, new)
              /\ held' = [held EXCEPT ![p] = 0]
        /\ registered' = registered + 1
        /\ pc' = [pc EXCEPT ![p] = "added"]
        /\ UNCHANGED <<dialled, closed, dead, request, todo, suspect,
                       tries>>

(* The replaced connection, if any, is closed; the newSlave callback is    *)
(* started and NewSlaveConnection returns.                                 *)
CloseReplaced(p) ==
    /\ pc[p] = "added"
    /\ closed' = closed \cup ({held[p]} \ {0})
    /\ held' = [held EXCEPT ![p] = 0]
    /\ Connected(p)
    /\ UNCHANGED <<connections, registered, dialled, dead, todo>>

-----------------------------------------------------------------------------
(* PingAllSlaves, by a SetConnection that succeeded or by the loop.        *)

Snapshot(p) ==
    /\ \/ p \in Handlers /\ pc[p] = "snapshot"
       \/ p = Loop /\ pc[p] = "idle"
    /\ todo' = [todo EXCEPT ![p] = connections]
    /\ pc' = [pc EXCEPT ![p] = "next"]
    /\ UNCHANGED <<connections, registered, dialled, closed, dead,
                   request, held, suspect, tries>>

PingOk(p) ==
    /\ pc[p] = "next" /\ todo[p] # <<>>
    /\ MayAnswer(Head(todo[p]).addr, Head(todo[p]).conn)
    /\ todo' = [todo EXCEPT ![p] = Tail(@)]
    /\ UNCHANGED <<connections, registered, dialled, closed, dead, pc,
                   request, held, suspect, tries>>

(* Bug: the failed ping is logged and the entry left as it is.             *)
PingFailsOnlyLogged(p) ==
    /\ pc[p] = "next" /\ todo[p] # <<>>
    /\ todo' = [todo EXCEPT ![p] = Tail(@)]
    /\ UNCHANGED <<connections, registered, dialled, closed, dead, pc,
                   request, held, suspect, tries>>

PingFails(p) ==
    /\ pc[p] = "next" /\ todo[p] # <<>>
    /\ todo' = [todo EXCEPT ![p] = Tail(@)]
    /\ suspect' = [suspect EXCEPT ![p] = <<Head(todo[p])>>]
    /\ pc' = [pc EXCEPT ![p] = "check"]
    /\ UNCHANGED <<connections, registered, dialled, closed, dead,
                   request, held, tries>>

PingsDone(p) ==
    /\ pc[p] = "next" /\ todo[p] = <<>>
    /\ pc' = [pc EXCEPT ![p] = "idle"]
    /\ UNCHANGED <<connections, registered, dialled, closed, dead,
                   request, held, todo, suspect, tries>>

-----------------------------------------------------------------------------
(* CheckConnectionStateRemove and tryRestoreConnection.                    *)

(* A service asks for a machine's connection and finds its state neither   *)
(* Ready nor Idle, which may happen at any time; it works on a copy of the *)
(* first entry of that name.                                               *)
FoundUnhealthy(p) ==
    /\ pc[p] = "idle"
    /\ \E i \in DOMAIN connections :
        /\ \A j \in 1..(i - 1) : connections[j].name # connections[i].name
        /\ suspect' = [suspect EXCEPT ![p] = <<connections[i]>>]
    /\ pc' = [pc EXCEPT ![p] = "check"]
    /\ UNCHANGED <<connections, registered, dialled, closed, dead,
                   request, held, todo, tries>>

RecheckOk(p) ==
    /\ pc[p] = "check"
    /\ MayAnswer(suspect[p][1].addr, suspect[p][1].conn)
    /\ CheckOver(p)
    /\ UNCHANGED <<connections, registered, dialled, closed, dead,
                   request, held, todo>>

(* Bug: one attempt too many.                                              *)
RecheckFailsOnceMore(p) ==
    /\ pc[p] = "check"
    /\ IF tries[p] < Attempts
       THEN tries' = [tries EXCEPT ![p] = @ + 1] /\ UNCHANGED pc
       ELSE /\ tries' = [tries EXCEPT ![p] = 0]
            /\ pc' = [pc EXCEPT ![p] = "remove"]
    /\ UNCHANGED <<connections, registered, dialled, closed, dead, request,
                   held, todo, suspect>>

RecheckFails(p) ==
    /\ pc[p] = "check"
    /\ \/ /\ tries[p] + 1 < Attempts
          /\ tries' = [tries EXCEPT ![p] = @ + 1]
          /\ UNCHANGED pc
       \/ /\ tries[p] + 1 >= Attempts
          /\ tries' = [tries EXCEPT ![p] = 0]
          /\ pc' = [pc EXCEPT ![p] = "remove"]
    /\ UNCHANGED <<connections, registered, dialled, closed, dead,
                   request, held, todo, suspect>>

(* Bug: the entry is returned to be closed but stays in the slice.         *)
RemoveKeepsEntry(p) ==
    /\ pc[p] = "remove"
    /\ \E i \in DOMAIN connections :
        /\ IsChecked(i, suspect[p][1])
        /\ held' = [held EXCEPT ![p] = connections[i].conn]
    /\ pc' = [pc EXCEPT ![p] = "removed"]
    /\ UNCHANGED <<connections, registered, dialled, closed, dead, request,
                   todo, suspect, tries>>

(* removeConnection found the entry that was checked.                      *)
Remove(p) ==
    /\ pc[p] = "remove"
    /\ \E i \in DOMAIN connections :
        /\ IsChecked(i, suspect[p][1])
        /\ \A j \in 1..(i - 1) : ~IsChecked(j, suspect[p][1])
        /\ connections' = Without(i)
        /\ held' = [held EXCEPT ![p] = connections[i].conn]
    /\ pc' = [pc EXCEPT ![p] = "removed"]
    /\ UNCHANGED <<registered, dialled, closed, dead, request, todo,
                   suspect, tries>>

(* Bug: the copy's connection is closed even if nothing was removed.       *)
NothingToRemoveCloses(p) ==
    /\ pc[p] = "remove"
    /\ \A i \in DOMAIN connections : ~IsChecked(i, suspect[p][1])
    /\ held' = [held EXCEPT ![p] = suspect[p][1].conn]
    /\ pc' = [pc EXCEPT ![p] = "removed"]
    /\ UNCHANGED <<connections, registered, dialled, closed, dead, request,
                   todo, suspect, tries>>

(* Another goroutine removed or replaced it in the meantime.               *)
NothingToRemove(p) ==
    /\ pc[p] = "remove"
    /\ \A i \in DOMAIN connections : ~IsChecked(i, suspect[p][1])
    /\ CheckOver(p)
    /\ UNCHANGED <<connections, registered, dialled, closed, dead,
                   request, held, todo>>

CloseRemoved(p) ==
    /\ pc[p] = "removed"
    /\ closed' = closed \cup {held[p]}
    /\ held' = [held EXCEPT ![p] = 0]
    /\ pc' = [pc EXCEPT ![p] = "look"]
    /\ UNCHANGED <<connections, registered, dialled, dead, request, todo,
                   suspect, tries>>

(* tryRestoreConnection's look before each attempt: a slave that has come  *)
(* back by itself needs no restoring.                                      *)
Restore(p) ==
    /\ pc[p] = "look"
    /\ \/ /\ HasAddr(suspect[p][1].addr)
          /\ CheckOver(p)
       \/ /\ ~HasAddr(suspect[p][1].addr)
          /\ pc' = [pc EXCEPT ![p] = "dial"]
          /\ UNCHANGED <<suspect, tries>>
    /\ UNCHANGED <<connections, registered, dialled, closed, dead, request,
                   held, todo>>

-----------------------------------------------------------------------------
(* A slave is switched off, or moves elsewhere, for good.                  *)
Die(a) ==
    /\ a \notin dead
    /\ dead' = dead \cup {a}
    /\ UNCHANGED <<connections, registered, dialled, closed, pc, request, held,
                   todo, suspect, tries>>

Init ==
    /\ connections = <<>>
    /\ registered = 0
    /\ dialled = 0
    /\ closed = {}
    /\ dead = {}
    /\ pc = [p \in Proc |-> "idle"]
    /\ request = [p \in Proc |-> <<>>]
    /\ held = [p \in Proc |-> 0]
    /\ todo = [p \in Proc |-> <<>>]
    /\ suspect = [p \in Proc |-> <<>>]
    /\ tries = [p \in Proc |-> 0]

(* What a goroutine does on its own once it runs.                          *)
Step(p) ==
    \/ DialOk(p) \/ DialFails(p) \/ FirstPingOk(p) \/ FirstPingFails(p)
    \/ Register(p) \/ CloseReplaced(p)
    \/ Snapshot(p) \/ PingOk(p) \/ PingFails(p) \/ PingsDone(p)
    \/ RecheckOk(p) \/ RecheckFails(p)
    \/ Remove(p) \/ NothingToRemove(p) \/ CloseRemoved(p) \/ Restore(p)

Next ==
    \/ \E p \in Proc : Step(p)
    \/ \E p \in Handlers : SetConnection(p)
    \/ \E p \in Checkers : FoundUnhealthy(p)
    \/ \E a \in Mortal : Die(a)

(* Goroutines are scheduled and every wait in them has a timeout, so each  *)
(* one that can move does.                                                 *)
Spec == Init /\ [][Next]_vars /\ \A p \in Proc : WF_vars(Step(p))

-----------------------------------------------------------------------------
(* Every variable has its type, and a goroutine refers to a suspect or to a *)
(* connection of its own only at the labels where the code does.           *)
TypeOK ==
    /\ connections \in Seq(Entry)
    /\ registered \in Nat
    /\ dialled \in 0..MaxConns
    /\ closed \subseteq Nat \ {0}
    /\ dead \subseteq Mortal
    /\ pc \in [Proc -> Label]
    /\ request \in [Proc -> Seq(Slaves)]
    /\ held \in [Proc -> Nat]
    /\ todo \in [Proc -> Seq(Entry)]
    /\ suspect \in [Proc -> Seq(Entry)]
    /\ tries \in [Proc -> 0..(Attempts - 1)]
    /\ \A p \in Proc : Len(request[p]) <= 1 /\ Len(suspect[p]) <= 1

InRegistry(c) == \E i \in DOMAIN connections : connections[i].conn = c

(* No connection is leaked: each one the master ever dialled is closed, or *)
(* in the registry, or a goroutine still has it to register or to close.   *)
(* NewSlaveConnection's error paths and the two removals each have their   *)
(* own Close, with the registry unlocked in between.                       *)
NoLeak ==
    \A c \in 1..dialled :
        \/ c \in closed
        \/ InRegistry(c)
        \/ \E p \in Proc : held[p] = c

(* A registered connection is open and nobody is about to close it: a      *)
(* service that looks a machine up never gets one that this package        *)
(* closed, however removals, replacements and restores interleave.         *)
RegisteredIsOpen ==
    \A i \in DOMAIN connections :
        /\ connections[i].conn \notin closed
        /\ \A p \in Proc : held[p] # connections[i].conn

(* No connection is closed twice, or by two goroutines: those that wait to *)
(* be closed (or registered) belong to one goroutine each.                 *)
OneOwner ==
    \A p \in Proc :
        held[p] # 0 =>
            /\ held[p] \notin closed
            /\ \A q \in Proc \ {p} : held[q] # held[p]

(* GetConnectionByAddr and GetConnectionByMachineName return the first     *)
(* match, and it is the newest registration of that address or name, even  *)
(* where a slave that changed address has left an old entry behind         *)
(* (addOrReplaceConnection replaces one entry, not every match).           *)
NewestFirst ==
    \A i, j \in DOMAIN connections :
        i < j /\ SameSlave(connections[i], connections[j]) =>
            connections[j].time < connections[i].time

(* An entry leaves the registry only when a later one for the same address *)
(* or name takes its place, or when a goroutine's pings to that very entry *)
(* failed (EntryTime tells entries apart); a check of an older entry,      *)
(* however late it ends, does not take down the slave's new connection.    *)
OnlyTheCheckedEntryLeaves ==
    [][\A i \in DOMAIN connections :
        \/ \E j \in DOMAIN connections' : connections'[j] = connections[i]
        \/ \E j \in DOMAIN connections' :
                /\ connections'[j].time = registered
                /\ SameSlave(connections'[j], connections[i])
        \/ \E p \in Proc :
                pc[p] = "remove" /\ suspect[p][1].time = connections[i].time
      ]_vars

(* A slave that has stopped answering for good is eventually gone from the *)
(* registry for good: no restore or late SetConnection brings it back.     *)
DeadSlaveForgotten ==
    \A a \in Mortal : a \in dead ~> [](~HasAddr(a))

-----------------------------------------------------------------------------
(* The refinement: Connections implements Registry.                        *)

(* Bug: the lookup runs through the whole slice.                           *)
LastOf(is) ==
    IF is = {} THEN <<>>
    ELSE <<connections[CHOOSE i \in is : \A j \in is : j <= i]>>

(* A lookup returns the first entry it meets in slice order, if any.       *)
FirstOf(is) ==
    IF is = {} THEN <<>>
    ELSE <<connections[CHOOSE i \in is : \A j \in is : i <= j]>>

GetConnectionByAddr(a) ==
    FirstOf({i \in DOMAIN connections : connections[i].addr = a})

GetConnectionByMachineName(n) ==
    FirstOf({i \in DOMAIN connections : connections[i].name = n})

(* A connection is given up when its entry leaves the registry, before the *)
(* goroutine that took it out comes to close it.                           *)
GivenUp ==
    closed \cup
    {held[p] : p \in {q \in Proc : /\ pc[q] \in {"added", "removed"}
                                  /\ held[q] # 0}}

Abstract == INSTANCE Registry WITH
    Conn <- 1..MaxConns,
    entries <- {connections[i] : i \in DOMAIN connections},
    byAddr <- [a \in Addr |-> GetConnectionByAddr(a)],
    byName <- [n \in Name |-> GetConnectionByMachineName(n)],
    retired <- GivenUp

(* What services see is the atomic registry: although dials, pings,        *)
(* replacements, removals and closings interleave, each lookup finds the   *)
(* newest registration and no connection that was given up is found again. *)
ImplementsRegistry == Abstract!Spec

=============================================================================

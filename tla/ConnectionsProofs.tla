------------------------- MODULE ConnectionsProofs -------------------------
(***************************************************************************)
(* Proofs about the registry, for every set of addresses, names and        *)
(* goroutines and every bound.                                             *)
(***************************************************************************)
EXTENDS Connections, TLAPS

(* What a goroutine refers to at each label: NewSlaveConnection works for  *)
(* a request or for a suspect, and a connection is held exactly between    *)
(* the step that takes it and the one that closes or registers it.         *)
ControlOf(p) ==
    /\ pc[p] \in {"idle", "snapshot", "next"} =>
            request[p] = <<>> /\ suspect[p] = <<>>
    /\ pc[p] \in {"check", "remove", "removed", "look"} =>
            request[p] = <<>> /\ suspect[p] # <<>>
    /\ pc[p] \in {"dial", "ping", "register", "added"} =>
            (request[p] = <<>>) <=> (suspect[p] # <<>>)
    /\ pc[p] \in {"ping", "register", "removed"} => held[p] # 0
    /\ pc[p] \notin {"ping", "register", "removed", "added"} => held[p] = 0

Control == \A p \in Proc : ControlOf(p)

(* The connections in use were dialled, and the registry's entries were    *)
(* registered, each one once.                                              *)
Numbering ==
    /\ \A i \in DOMAIN connections :
        connections[i].conn <= dialled /\ connections[i].time < registered
    /\ \A i, j \in DOMAIN connections :
        connections[i].conn = connections[j].conn => i = j
    /\ \A c \in closed : c <= dialled
    /\ \A p \in Proc : held[p] <= dialled

(* The registry's and the goroutines' connections are never shared.        *)
Ownership == Numbering /\ RegisteredIsOpen /\ OneOwner

-----------------------------------------------------------------------------
(* Facts about the slice.                                                  *)

(* Overwriting, appending and deleting an entry leave a slice of entries.  *)
LEMMA OverwriteType ==
    ASSUME connections \in Seq(Entry), NEW i \in DOMAIN connections,
           NEW e \in Entry
    PROVE  [connections EXCEPT ![i] = e] \in Seq(Entry)
  OBVIOUS

LEMMA EntryType ==
    ASSUME connections \in Seq(Entry), NEW i \in DOMAIN connections
    PROVE  /\ connections[i].addr \in Addr /\ connections[i].name \in Name
           /\ connections[i].conn \in Nat \ {0} /\ connections[i].time \in Nat
<1>1. connections[i] \in Entry
  OBVIOUS
<1>2. QED
  BY <1>1 DEF Entry

LEMMA WithoutType ==
    ASSUME connections \in Seq(Entry), NEW i \in DOMAIN connections
    PROVE  /\ Without(i) \in Seq(Entry)
           /\ Len(Without(i)) = Len(connections) - 1
           /\ \A j \in 1..(Len(connections) - 1) :
                Without(i)[j] = IF j < i THEN connections[j]
                                ELSE connections[j + 1]
<1>1. Len(connections) \in Nat /\ DOMAIN connections = 1..Len(connections)
  OBVIOUS
<1>2. Without(i) \in [1..(Len(connections) - 1) -> Entry]
  BY <1>1 DEF Without
<1>3. Len(connections) - 1 \in Nat
  BY <1>1
<1>4. QED
  BY <1>1, <1>2, <1>3 DEF Without

-----------------------------------------------------------------------------
(* Type correctness, with the control invariant it needs.                  *)

TypeControl == TypeOK /\ Control

LEMMA InitTypeControl == Init => TypeControl
  BY BoundsAssumption DEF Init, TypeControl, TypeOK, Control, ControlOf, Label, Proc

(* The typing of the local variables that the shared exits of the retry    *)
(* loops change.                                                           *)
LocalTypeOK ==
    /\ pc \in [Proc -> Label]
    /\ request \in [Proc -> Seq(Slaves)]
    /\ suspect \in [Proc -> Seq(Entry)]
    /\ tries \in [Proc -> 0..(Attempts - 1)]
    /\ \A p \in Proc : Len(request[p]) <= 1 /\ Len(suspect[p]) <= 1

LEMMA EmptySeq == \A S : <<>> \in Seq(S) /\ Len(<<>>) = 0
  OBVIOUS

LEMMA CheckOverType ==
    ASSUME LocalTypeOK, NEW p \in Proc, CheckOver(p), request' = request
    PROVE  LocalTypeOK'
<1>1. 0 \in 0..(Attempts - 1)
  BY BoundsAssumption
<1>2. pc' \in [Proc -> Label] /\ tries' \in [Proc -> 0..(Attempts - 1)]
  BY <1>1 DEF CheckOver, LocalTypeOK, Label
<1>3. suspect' \in [Proc -> Seq(Entry)]
  BY EmptySeq DEF CheckOver, LocalTypeOK
<1>4. \A q \in Proc : Len(suspect'[q]) <= 1
  BY EmptySeq DEF CheckOver, LocalTypeOK
<1>5. QED
  BY <1>2, <1>3, <1>4 DEF LocalTypeOK

LEMMA ConnectFailedType ==
    ASSUME LocalTypeOK, NEW p \in Proc, ConnectFailed(p)
    PROVE  LocalTypeOK'
<1>1. CASE /\ pc' = [pc EXCEPT ![p] = "idle"]
           /\ request' = [request EXCEPT ![p] = <<>>]
           /\ UNCHANGED <<suspect, tries>>
  <2>1. request' \in [Proc -> Seq(Slaves)]
    BY <1>1, EmptySeq DEF LocalTypeOK
  <2>2. \A q \in Proc : Len(request'[q]) <= 1
    BY <1>1, EmptySeq DEF LocalTypeOK
  <2>3. QED
    BY <1>1, <2>1, <2>2 DEF LocalTypeOK, Label
<1>2. CASE /\ tries[p] + 1 < Attempts
           /\ pc' = [pc EXCEPT ![p] = "look"]
           /\ tries' = [tries EXCEPT ![p] = @ + 1]
           /\ UNCHANGED <<request, suspect>>
  <2>1. tries[p] + 1 \in 0..(Attempts - 1)
    BY <1>2, BoundsAssumption DEF LocalTypeOK
  <2>2. QED
    BY <1>2, <2>1 DEF LocalTypeOK, Label
<1>3. CASE CheckOver(p) /\ UNCHANGED request
  BY <1>3, CheckOverType
<1>4. QED
  BY <1>1, <1>2, <1>3 DEF ConnectFailed

LEMMA ConnectedType ==
    ASSUME LocalTypeOK, NEW p \in Proc, Connected(p)
    PROVE  LocalTypeOK'
<1>1. CASE /\ pc' = [pc EXCEPT ![p] = "snapshot"]
           /\ request' = [request EXCEPT ![p] = <<>>]
           /\ UNCHANGED <<suspect, tries>>
  <2>1. request' \in [Proc -> Seq(Slaves)]
    BY <1>1, EmptySeq DEF LocalTypeOK
  <2>2. \A q \in Proc : Len(request'[q]) <= 1
    BY <1>1, EmptySeq DEF LocalTypeOK
  <2>3. QED
    BY <1>1, <2>1, <2>2 DEF LocalTypeOK, Label
<1>2. CASE CheckOver(p) /\ UNCHANGED request
  BY <1>2, CheckOverType
<1>3. QED
  BY <1>1, <1>2 DEF Connected

LEMMA NextTypeControl == TypeControl /\ [Next]_vars => TypeControl'
<1> SUFFICES ASSUME TypeControl, [Next]_vars PROVE TypeControl'
  OBVIOUS
<1>a. TypeOK /\ \A p \in Proc : ControlOf(p)
  BY DEF TypeControl, Control
<1>l. LocalTypeOK
  BY <1>a DEF TypeOK, LocalTypeOK
<1>b. \A p \in Proc : /\ request[p] # <<>> => request[p][1] \in Slaves
                      /\ suspect[p] # <<>> => suspect[p][1] \in Entry
  BY <1>a DEF TypeOK
<1>c. /\ Slaves \subseteq Identity /\ Attempts \in Nat \ {0} /\ MaxConns \in Nat
      /\ Handlers \subseteq Proc /\ Checkers \subseteq Proc
  BY SlavesAssumption, BoundsAssumption DEF Proc
<1>1. ASSUME NEW a \in Mortal, Die(a) PROVE TypeControl'
  BY <1>1, <1>a DEF Die, TypeControl, TypeOK, Control, ControlOf
<1>2. ASSUME NEW p \in Handlers, SetConnection(p) PROVE TypeControl'
  <2>1. TypeOK'
    BY <1>2, <1>a, <1>b, <1>c DEF SetConnection, TypeOK, Label, ControlOf
  <2>2. ASSUME NEW q \in Proc PROVE ControlOf(q)'
    <3>1. CASE q = p
      BY <1>2, <1>a, <1>c, <2>1, <3>1 DEF SetConnection, TypeOK, ControlOf
    <3>2. CASE q # p
      BY <1>2, <1>a, <1>c, <3>2 DEF SetConnection, TypeOK, ControlOf
    <3>3. QED
      BY <3>1, <3>2
  <2>3. QED
    BY <2>1, <2>2 DEF TypeControl, Control
<1>3. ASSUME NEW p \in Proc, DialOk(p) PROVE TypeControl'
  <2>1. TypeOK'
    BY <1>3, <1>a, <1>b, <1>c DEF DialOk, TypeOK, Label, ControlOf
  <2>2. ASSUME NEW q \in Proc PROVE ControlOf(q)'
    <3>1. CASE q = p
      BY <1>3, <1>a, <1>c, <2>1, <3>1 DEF DialOk, TypeOK, ControlOf
    <3>2. CASE q # p
      BY <1>3, <1>a, <1>c, <3>2 DEF DialOk, TypeOK, ControlOf
    <3>3. QED
      BY <3>1, <3>2
  <2>3. QED
    BY <2>1, <2>2 DEF TypeControl, Control
<1>4. ASSUME NEW p \in Proc, DialFails(p) PROVE TypeControl'
  <2>1. TypeOK'
    BY <1>4, <1>a, <1>l, ConnectFailedType DEF DialFails, TypeOK, LocalTypeOK
  <2>2. ASSUME NEW q \in Proc PROVE ControlOf(q)'
    <3>1. CASE q = p
      BY <1>4, <1>a, <1>c, <2>1, <3>1 DEF DialFails, ConnectFailed, CheckOver, TypeOK, ControlOf
    <3>2. CASE q # p
      BY <1>4, <1>a, <1>c, <3>2 DEF DialFails, ConnectFailed, CheckOver, TypeOK, ControlOf
    <3>3. QED
      BY <3>1, <3>2
  <2>3. QED
    BY <2>1, <2>2 DEF TypeControl, Control
<1>5. ASSUME NEW p \in Proc, FirstPingOk(p) PROVE TypeControl'
  <2>1. TypeOK'
    BY <1>5, <1>a, <1>b, <1>c DEF FirstPingOk, TypeOK, Label, ControlOf
  <2>2. ASSUME NEW q \in Proc PROVE ControlOf(q)'
    <3>1. CASE q = p
      BY <1>5, <1>a, <1>c, <2>1, <3>1 DEF FirstPingOk, TypeOK, ControlOf
    <3>2. CASE q # p
      BY <1>5, <1>a, <1>c, <3>2 DEF FirstPingOk, TypeOK, ControlOf
    <3>3. QED
      BY <3>1, <3>2
  <2>3. QED
    BY <2>1, <2>2 DEF TypeControl, Control
<1>6. ASSUME NEW p \in Proc, FirstPingFails(p) PROVE TypeControl'
  <2>1. TypeOK'
    <3>1. LocalTypeOK'
      BY <1>6, <1>l, ConnectFailedType DEF FirstPingFails
    <3>2. held[p] \in Nat \ {0}
      BY <1>6, <1>a DEF FirstPingFails, TypeOK, ControlOf
    <3>3. QED
      BY <1>6, <1>a, <3>1, <3>2 DEF FirstPingFails, TypeOK, LocalTypeOK
  <2>2. ASSUME NEW q \in Proc PROVE ControlOf(q)'
    <3>1. CASE q = p
      BY <1>6, <1>a, <1>c, <2>1, <3>1 DEF FirstPingFails, ConnectFailed, CheckOver, TypeOK, ControlOf
    <3>2. CASE q # p
      BY <1>6, <1>a, <1>c, <3>2 DEF FirstPingFails, ConnectFailed, CheckOver, TypeOK, ControlOf
    <3>3. QED
      BY <3>1, <3>2
  <2>3. QED
    BY <2>1, <2>2 DEF TypeControl, Control
<1>7. ASSUME NEW p \in Proc, Register(p) PROVE TypeControl'
  <2>1. TypeOK'
    <3>1. Target(p).addr \in Addr /\ Target(p).name \in Name
      BY <1>7, <1>a, <1>b, <1>c DEF Register, Target, ControlOf, Entry, Identity
    <3>2. /\ held[p] \in Nat \ {0}
          /\ registered \in Nat /\ registered + 1 \in Nat
      BY <1>7, <1>a DEF Register, TypeOK, ControlOf
    <3> DEFINE new == [addr |-> Target(p).addr, name |-> Target(p).name,
                       conn |-> held[p], time |-> registered]
    <3>3. new \in Entry
      BY <3>1, <3>2 DEF Entry
    <3>4. ASSUME NEW i \in DOMAIN connections, IsFirstMatch(i, Target(p)),
                 connections' = [connections EXCEPT ![i] = new],
                 held' = [held EXCEPT ![p] = connections[i].conn]
          PROVE  TypeOK'
      <4>1. connections' \in Seq(Entry)
        BY <1>a, <3>3, <3>4, OverwriteType DEF TypeOK
      <4>2. connections[i].conn \in Nat
        BY <1>a, <3>4, EntryType DEF TypeOK
      <4>3. QED
        BY <1>7, <1>a, <3>2, <3>4, <4>1, <4>2 DEF Register, TypeOK, Label
    <3>5. ASSUME connections' = Append(connections, new),
                 held' = [held EXCEPT ![p] = 0]
          PROVE  TypeOK'
      <4>1. connections' \in Seq(Entry) 
        BY <1>a, <3>3, <3>5 DEF TypeOK
      <4>2. QED
        BY <1>7, <1>a, <3>2, <3>5, <4>1 DEF Register, TypeOK, Label
    <3>6. QED
      BY <1>7, <3>4, <3>5 DEF Register
  <2>2. ASSUME NEW q \in Proc PROVE ControlOf(q)'
    <3>1. CASE q = p
      BY <1>7, <1>a, <1>c, <2>1, <3>1 DEF Register, Target, TypeOK, ControlOf
    <3>2. CASE q # p
      BY <1>7, <1>a, <1>c, <3>2 DEF Register, Target, TypeOK, ControlOf
    <3>3. QED
      BY <3>1, <3>2
  <2>3. QED
    BY <2>1, <2>2 DEF TypeControl, Control
<1>8. ASSUME NEW p \in Proc, CloseReplaced(p) PROVE TypeControl'
  <2>1. TypeOK'
    <3>1. LocalTypeOK'
      BY <1>8, <1>l, ConnectedType DEF CloseReplaced
    <3>2. {held[p]} \ {0} \subseteq Nat \ {0}
      BY <1>8, <1>a DEF CloseReplaced, TypeOK
    <3>3. QED
      BY <1>8, <1>a, <3>1, <3>2 DEF CloseReplaced, TypeOK, LocalTypeOK
  <2>2. ASSUME NEW q \in Proc PROVE ControlOf(q)'
    <3>1. CASE q = p
      BY <1>8, <1>a, <1>c, <2>1, <3>1 DEF CloseReplaced, Connected, CheckOver, TypeOK, ControlOf
    <3>2. CASE q # p
      BY <1>8, <1>a, <1>c, <3>2 DEF CloseReplaced, Connected, CheckOver, TypeOK, ControlOf
    <3>3. QED
      BY <3>1, <3>2
  <2>3. QED
    BY <2>1, <2>2 DEF TypeControl, Control
<1>9. ASSUME NEW p \in Proc, Snapshot(p) PROVE TypeControl'
  <2>1. TypeOK'
    BY <1>9, <1>a, <1>b, <1>c DEF Snapshot, TypeOK, Label, ControlOf
  <2>2. ASSUME NEW q \in Proc PROVE ControlOf(q)'
    <3>1. CASE q = p
      BY <1>9, <1>a, <1>c, <2>1, <3>1 DEF Snapshot, TypeOK, ControlOf
    <3>2. CASE q # p
      BY <1>9, <1>a, <1>c, <3>2 DEF Snapshot, TypeOK, ControlOf
    <3>3. QED
      BY <3>1, <3>2
  <2>3. QED
    BY <2>1, <2>2 DEF TypeControl, Control
<1>10. ASSUME NEW p \in Proc, PingOk(p) PROVE TypeControl'
  <2>1. TypeOK'
    BY <1>10, <1>a, <1>b, <1>c DEF PingOk, TypeOK, Label, ControlOf
  <2>2. ASSUME NEW q \in Proc PROVE ControlOf(q)'
    <3>1. CASE q = p
      BY <1>10, <1>a, <1>c, <2>1, <3>1 DEF PingOk, TypeOK, ControlOf
    <3>2. CASE q # p
      BY <1>10, <1>a, <1>c, <3>2 DEF PingOk, TypeOK, ControlOf
    <3>3. QED
      BY <3>1, <3>2
  <2>3. QED
    BY <2>1, <2>2 DEF TypeControl, Control
<1>11. ASSUME NEW p \in Proc, PingFails(p) PROVE TypeControl'
  <2>1. TypeOK'
    BY <1>11, <1>a, <1>b, <1>c DEF PingFails, TypeOK, Label, ControlOf
  <2>2. ASSUME NEW q \in Proc PROVE ControlOf(q)'
    <3>1. CASE q = p
      BY <1>11, <1>a, <1>c, <2>1, <3>1 DEF PingFails, TypeOK, ControlOf
    <3>2. CASE q # p
      BY <1>11, <1>a, <1>c, <3>2 DEF PingFails, TypeOK, ControlOf
    <3>3. QED
      BY <3>1, <3>2
  <2>3. QED
    BY <2>1, <2>2 DEF TypeControl, Control
<1>12. ASSUME NEW p \in Proc, PingsDone(p) PROVE TypeControl'
  <2>1. TypeOK'
    BY <1>12, <1>a, <1>b, <1>c DEF PingsDone, TypeOK, Label, ControlOf
  <2>2. ASSUME NEW q \in Proc PROVE ControlOf(q)'
    <3>1. CASE q = p
      BY <1>12, <1>a, <1>c, <2>1, <3>1 DEF PingsDone, TypeOK, ControlOf
    <3>2. CASE q # p
      BY <1>12, <1>a, <1>c, <3>2 DEF PingsDone, TypeOK, ControlOf
    <3>3. QED
      BY <3>1, <3>2
  <2>3. QED
    BY <2>1, <2>2 DEF TypeControl, Control
<1>13. ASSUME NEW p \in Checkers, FoundUnhealthy(p) PROVE TypeControl'
  <2>1. TypeOK'
    BY <1>13, <1>a, <1>b, <1>c DEF FoundUnhealthy, TypeOK, Label, ControlOf
  <2>2. ASSUME NEW q \in Proc PROVE ControlOf(q)'
    <3>1. CASE q = p
      BY <1>13, <1>a, <1>c, <2>1, <3>1 DEF FoundUnhealthy, TypeOK, ControlOf
    <3>2. CASE q # p
      BY <1>13, <1>a, <1>c, <3>2 DEF FoundUnhealthy, TypeOK, ControlOf
    <3>3. QED
      BY <3>1, <3>2
  <2>3. QED
    BY <2>1, <2>2 DEF TypeControl, Control
<1>14. ASSUME NEW p \in Proc, RecheckOk(p) PROVE TypeControl'
  <2>1. TypeOK'
    BY <1>14, <1>a, <1>b, <1>c DEF RecheckOk, CheckOver, TypeOK, Label, ControlOf
  <2>2. ASSUME NEW q \in Proc PROVE ControlOf(q)'
    <3>1. CASE q = p
      BY <1>14, <1>a, <1>c, <2>1, <3>1 DEF RecheckOk, CheckOver, TypeOK, ControlOf
    <3>2. CASE q # p
      BY <1>14, <1>a, <1>c, <3>2 DEF RecheckOk, CheckOver, TypeOK, ControlOf
    <3>3. QED
      BY <3>1, <3>2
  <2>3. QED
    BY <2>1, <2>2 DEF TypeControl, Control
<1>15. ASSUME NEW p \in Proc, RecheckFails(p) PROVE TypeControl'
  <2>1. TypeOK'
    <3>1. CASE tries[p] + 1 < Attempts
      <4>1. tries[p] + 1 \in 0..(Attempts - 1)
        BY <1>a, <1>c, <3>1 DEF TypeOK
      <4>2. /\ tries' = [tries EXCEPT ![p] = tries[p] + 1]
            /\ UNCHANGED <<connections, registered, dialled, closed, dead, pc,
                           request, held, todo, suspect>>
        BY <1>15, <1>a, <1>c, <3>1 DEF RecheckFails, TypeOK
      <4>3. QED
        BY <1>a, <4>1, <4>2 DEF TypeOK
    <3>2. CASE ~(tries[p] + 1 < Attempts)
      <4>1. 0 \in 0..(Attempts - 1)
        BY <1>c
      <4>2. QED
        BY <1>15, <1>a, <3>2, <4>1 DEF RecheckFails, TypeOK, Label
    <3>3. QED
      BY <3>1, <3>2
  <2>2. ASSUME NEW q \in Proc PROVE ControlOf(q)'
    <3>1. CASE q = p
      BY <1>15, <1>a, <1>c, <2>1, <3>1 DEF RecheckFails, TypeOK, ControlOf
    <3>2. CASE q # p
      BY <1>15, <1>a, <1>c, <3>2 DEF RecheckFails, TypeOK, ControlOf
    <3>3. QED
      BY <3>1, <3>2
  <2>3. QED
    BY <2>1, <2>2 DEF TypeControl, Control
<1>16. ASSUME NEW p \in Proc, Remove(p) PROVE TypeControl'
  <2>1. TypeOK'
    <3>1. PICK i \in DOMAIN connections :
            /\ connections' = Without(i)
            /\ held' = [held EXCEPT ![p] = connections[i].conn]
      BY <1>16 DEF Remove
    <3>2. connections' \in Seq(Entry)
      BY <1>a, <3>1, WithoutType DEF TypeOK
    <3>3. connections[i].conn \in Nat
      BY <1>a, <3>1, EntryType DEF TypeOK
    <3>4. QED
      BY <1>16, <1>a, <3>1, <3>2, <3>3 DEF Remove, TypeOK, Label
  <2>2. ASSUME NEW q \in Proc PROVE ControlOf(q)'
    <3>1. CASE q = p
      <4>1. PICK i \in DOMAIN connections :
                held' = [held EXCEPT ![p] = connections[i].conn]
        BY <1>16 DEF Remove
      <4>2. connections[i].conn # 0
        BY <1>a, EntryType DEF TypeOK
      <4>3. QED
        BY <1>16, <1>a, <3>1, <4>1, <4>2 DEF Remove, TypeOK, ControlOf
    <3>2. CASE q # p
      BY <1>16, <1>a, <1>c, <3>2 DEF Remove, TypeOK, ControlOf
    <3>3. QED
      BY <3>1, <3>2
  <2>3. QED
    BY <2>1, <2>2 DEF TypeControl, Control
<1>17. ASSUME NEW p \in Proc, NothingToRemove(p) PROVE TypeControl'
  <2>1. TypeOK'
    BY <1>17, <1>a, <1>b, <1>c DEF NothingToRemove, CheckOver, TypeOK, Label, ControlOf
  <2>2. ASSUME NEW q \in Proc PROVE ControlOf(q)'
    <3>1. CASE q = p
      BY <1>17, <1>a, <1>c, <2>1, <3>1 DEF NothingToRemove, CheckOver, TypeOK, ControlOf
    <3>2. CASE q # p
      BY <1>17, <1>a, <1>c, <3>2 DEF NothingToRemove, CheckOver, TypeOK, ControlOf
    <3>3. QED
      BY <3>1, <3>2
  <2>3. QED
    BY <2>1, <2>2 DEF TypeControl, Control
<1>18. ASSUME NEW p \in Proc, CloseRemoved(p) PROVE TypeControl'
  <2>1. TypeOK'
    <3>1. held[p] \in Nat \ {0}
      BY <1>18, <1>a DEF CloseRemoved, TypeOK, ControlOf
    <3>2. QED
      BY <1>18, <1>a, <3>1 DEF CloseRemoved, TypeOK, Label
  <2>2. ASSUME NEW q \in Proc PROVE ControlOf(q)'
    <3>1. CASE q = p
      BY <1>18, <1>a, <1>c, <2>1, <3>1 DEF CloseRemoved, TypeOK, ControlOf
    <3>2. CASE q # p
      BY <1>18, <1>a, <1>c, <3>2 DEF CloseRemoved, TypeOK, ControlOf
    <3>3. QED
      BY <3>1, <3>2
  <2>3. QED
    BY <2>1, <2>2 DEF TypeControl, Control
<1>19. ASSUME NEW p \in Proc, Restore(p) PROVE TypeControl'
  <2>1. TypeOK'
    <3>1. CASE CheckOver(p)
      BY <1>19, <1>a, <1>l, <3>1, CheckOverType DEF Restore, TypeOK, LocalTypeOK
    <3>2. CASE ~CheckOver(p)
      BY <1>19, <1>a, <3>2 DEF Restore, TypeOK, Label
    <3>3. QED
      BY <3>1, <3>2
  <2>2. ASSUME NEW q \in Proc PROVE ControlOf(q)'
    <3>1. CASE q = p
      BY <1>19, <1>a, <1>c, <2>1, <3>1 DEF Restore, CheckOver, TypeOK, ControlOf
    <3>2. CASE q # p
      BY <1>19, <1>a, <1>c, <3>2 DEF Restore, CheckOver, TypeOK, ControlOf
    <3>3. QED
      BY <3>1, <3>2
  <2>3. QED
    BY <2>1, <2>2 DEF TypeControl, Control
<1>20. CASE UNCHANGED vars
  BY <1>20, <1>a DEF vars, TypeControl, TypeOK, Control, ControlOf
<1>21. QED
  BY <1>1, <1>2, <1>3, <1>4, <1>5, <1>6, <1>7, <1>8, <1>9, <1>10, <1>11, <1>12, <1>13, <1>14, <1>15, <1>16, <1>17, <1>18, <1>19, <1>20 DEF Next, Step

(* Type correctness: at every moment of every behaviour each goroutine's   *)
(* local variables are what its place in the code says, and the registry   *)
(* is a slice of entries.                                                  *)
THEOREM TypeCorrect == Spec => []TypeOK
<1>1. Spec => []TypeControl
  BY InitTypeControl, NextTypeControl, PTL DEF Spec
<1>2. TypeControl => TypeOK
  BY DEF TypeControl
<1>3. QED
  BY <1>1, <1>2, PTL

-----------------------------------------------------------------------------
(* Ownership of connections.                                               *)

LEMMA InitOwnership == Init => Ownership
  BY DEF Init, Ownership, Numbering, RegisteredIsOpen, OneOwner

(* A goroutine closes the connection it holds.                             *)
LEMMA CloseOwnership ==
    ASSUME TypeOK, Ownership, NEW p \in Proc,
           closed' = closed \cup ({held[p]} \ {0}),
           held' = [held EXCEPT ![p] = 0],
           UNCHANGED <<connections, registered, dialled>>
    PROVE  Ownership'
<1>1. Numbering'
  BY DEF Ownership, Numbering, TypeOK
<1>2. RegisteredIsOpen'
  BY EntryType DEF Ownership, RegisteredIsOpen, TypeOK
<1>3. OneOwner'
  BY DEF Ownership, OneOwner, TypeOK
<1>4. QED
  BY <1>1, <1>2, <1>3 DEF Ownership

(* A dial yields a connection nobody else knows.                           *)
LEMMA DialOwnership ==
    ASSUME TypeOK, Ownership, NEW p \in Proc, DialOk(p)
    PROVE  Ownership'
<1>1. dialled \in Nat /\ dialled' = dialled + 1
      /\ held' = [held EXCEPT ![p] = dialled + 1]
      /\ UNCHANGED <<connections, registered, closed>>
  BY BoundsAssumption DEF DialOk, TypeOK
<1>2. Numbering'
  BY <1>1, EntryType DEF Ownership, Numbering, TypeOK
<1>3. RegisteredIsOpen'
  BY <1>1, EntryType DEF Ownership, Numbering, RegisteredIsOpen, TypeOK
<1>4. OneOwner'
  BY <1>1 DEF Ownership, Numbering, OneOwner, TypeOK
<1>5. QED
  BY <1>2, <1>3, <1>4 DEF Ownership

(* addOrReplaceConnection swaps the goroutine's connection for the one it  *)
(* replaces.                                                               *)
LEMMA RegisterOwnership ==
    ASSUME TypeOK, Control, Ownership, NEW p \in Proc, Register(p)
    PROVE  Ownership'
<1> DEFINE new == [addr |-> Target(p).addr, name |-> Target(p).name,
                   conn |-> held[p], time |-> registered]
<1>0. /\ held[p] \in Nat \ {0} /\ held[p] <= dialled
      /\ new.conn = held[p] /\ new.time = registered
      /\ registered \in Nat /\ registered' = registered + 1
      /\ dialled' = dialled /\ closed' = closed
  BY DEF Register, TypeOK, Control, ControlOf, Ownership, Numbering
<1>c. /\ Len(connections) \in Nat
      /\ DOMAIN connections = 1..Len(connections)
  BY DEF TypeOK
<1>1. ASSUME NEW i \in DOMAIN connections,
             connections' = [connections EXCEPT ![i] = new],
             held' = [held EXCEPT ![p] = connections[i].conn]
      PROVE  Ownership'
  <2>1. /\ DOMAIN connections' = DOMAIN connections
        /\ connections'[i] = new
        /\ \A j \in DOMAIN connections \ {i} : connections'[j] = connections[j]
    BY <1>1 DEF TypeOK
  <2> HIDE DEF new
  <2>2. connections[i].conn \in Nat \ {0} /\ connections[i].conn <= dialled
    BY EntryType DEF TypeOK, Ownership, Numbering
  <2>3. Numbering'
    BY <1>0, <1>1, <2>1, <2>2, EntryType
    DEF Ownership, Numbering, RegisteredIsOpen, TypeOK
  <2>4. RegisteredIsOpen'
    BY <1>0, <1>1, <2>1, <2>2, EntryType
    DEF Ownership, Numbering, RegisteredIsOpen, OneOwner, TypeOK
  <2>5. OneOwner'
    BY <1>0, <1>1, <2>2 DEF Ownership, RegisteredIsOpen, OneOwner, TypeOK
  <2>6. QED
    BY <2>3, <2>4, <2>5 DEF Ownership
<1>2. ASSUME connections' = Append(connections, new),
             held' = [held EXCEPT ![p] = 0]
      PROVE  Ownership'
  <2>1. /\ DOMAIN connections' = DOMAIN connections \cup {Len(connections) + 1}
        /\ Len(connections) + 1 \notin DOMAIN connections
        /\ connections'[Len(connections) + 1] = new
        /\ \A j \in DOMAIN connections : connections'[j] = connections[j]
    BY <1>2, <1>c DEF TypeOK
  <2> HIDE DEF new
  <2>2. Numbering'
    BY <1>0, <1>2, <2>1, EntryType
    DEF Ownership, Numbering, RegisteredIsOpen, TypeOK
  <2>3. RegisteredIsOpen'
    BY <1>0, <1>2, <2>1, EntryType
    DEF Ownership, RegisteredIsOpen, OneOwner, TypeOK
  <2>4. OneOwner'
    BY <1>0, <1>2 DEF Ownership, OneOwner, TypeOK
  <2>5. QED
    BY <2>2, <2>3, <2>4 DEF Ownership
<1>3. QED
  BY <1>1, <1>2 DEF Register

(* removeConnection hands the entry's connection to the goroutine.         *)
LEMMA RemoveOwnership ==
    ASSUME TypeOK, Control, Ownership, NEW p \in Proc, Remove(p)
    PROVE  Ownership'
<1>1. PICK i \in DOMAIN connections :
        /\ connections' = Without(i)
        /\ held' = [held EXCEPT ![p] = connections[i].conn]
  BY DEF Remove
<1>2. /\ UNCHANGED <<registered, dialled, closed>>
      /\ held[p] = 0
  BY DEF Remove, Control, ControlOf
<1> DEFINE at(j) == IF j < i THEN j ELSE j + 1
<1>3. /\ Len(connections) \in Nat
      /\ DOMAIN connections = 1..Len(connections)
      /\ DOMAIN connections' = 1..(Len(connections) - 1)
  BY <1>1, WithoutType DEF TypeOK, Without
<1>4. \A j \in DOMAIN connections' :
        /\ at(j) \in DOMAIN connections /\ at(j) # i
        /\ connections'[j] = connections[at(j)]
  <2> SUFFICES ASSUME NEW j \in DOMAIN connections'
               PROVE  /\ at(j) \in DOMAIN connections /\ at(j) # i
                      /\ connections'[j] = connections[at(j)]
    OBVIOUS
  <2>1. j \in 1..(Len(connections) - 1) /\ i \in 1..Len(connections)
    BY <1>3
  <2>2. connections'[j] = IF j < i THEN connections[j] ELSE connections[j + 1]
    BY <1>1, <2>1 DEF Without
  <2>3. QED
    BY <1>3, <2>1, <2>2
<1>5. \A j, k \in DOMAIN connections' : at(j) = at(k) => j = k
  BY <1>3
<1> HIDE DEF at
<1>6. connections[i].conn \in Nat \ {0} /\ connections[i].conn <= dialled
  BY EntryType DEF TypeOK, Ownership, Numbering
<1>7. Numbering'
  BY <1>1, <1>2, <1>4, <1>5, <1>6 DEF Ownership, Numbering, TypeOK
<1>8. RegisteredIsOpen'
  BY <1>1, <1>2, <1>4, <1>6
  DEF Ownership, Numbering, RegisteredIsOpen, TypeOK
<1>9. OneOwner'
  BY <1>1, <1>2, <1>6 DEF Ownership, RegisteredIsOpen, OneOwner, TypeOK
<1>10. QED
  BY <1>7, <1>8, <1>9 DEF Ownership

(* What the steps do to the connections: nothing, or one of five things.   *)
LEMMA StepKinds ==
    ASSUME TypeControl, [Next]_vars
    PROVE  \/ UNCHANGED <<connections, registered, dialled, closed, held>>
           \/ \E p \in Proc :
                /\ closed' = closed \cup ({held[p]} \ {0})
                /\ held' = [held EXCEPT ![p] = 0]
                /\ UNCHANGED <<connections, registered, dialled>>
           \/ \E p \in Proc : DialOk(p) \/ Register(p) \/ Remove(p)
<1>1. ASSUME NEW p \in Proc, FirstPingFails(p) \/ CloseRemoved(p)
                                \/ CloseReplaced(p)
      PROVE  /\ closed' = closed \cup ({held[p]} \ {0})
             /\ held' = [held EXCEPT ![p] = 0]
             /\ UNCHANGED <<connections, registered, dialled>>
  BY <1>1 DEF FirstPingFails, CloseRemoved, CloseReplaced, TypeControl, Control,
              ControlOf
<1>2. ASSUME NEW p \in Proc, Step(p),
             ~(DialOk(p) \/ Register(p) \/ Remove(p)),
             ~(FirstPingFails(p) \/ CloseRemoved(p) \/ CloseReplaced(p))
      PROVE  UNCHANGED <<connections, registered, dialled, closed, held>>
  BY <1>2
  DEF Step, DialFails, FirstPingOk, Snapshot, PingOk, PingFails, PingsDone,
      RecheckOk, RecheckFails, NothingToRemove, Restore
<1>3. QED
  BY <1>1, <1>2 DEF Next, vars, SetConnection, FoundUnhealthy, Die

LEMMA NextOwnership == TypeControl /\ Ownership /\ [Next]_vars => Ownership'
<1> SUFFICES ASSUME TypeControl, Ownership, [Next]_vars PROVE Ownership'
  OBVIOUS
<1>0. TypeOK /\ Control
  BY DEF TypeControl
<1>1. CASE UNCHANGED <<connections, registered, dialled, closed, held>>
  BY <1>1 DEF Ownership, Numbering, RegisteredIsOpen, OneOwner
<1>2. QED
  BY <1>0, <1>1, StepKinds, CloseOwnership, DialOwnership, RegisterOwnership,
     RemoveOwnership

(* A service never gets a connection that this package closed: the entries *)
(* of the registry are open, whatever dials, checks, replacements and      *)
(* restores are in progress.                                               *)
THEOREM RegisteredStaysOpen == Spec => []RegisteredIsOpen
<1>1. Spec => [](TypeControl /\ Ownership)
  BY InitTypeControl, NextTypeControl, InitOwnership, NextOwnership, PTL
  DEF Spec
<1>2. TypeControl /\ Ownership => RegisteredIsOpen
  BY DEF Ownership
<1>3. QED
  BY <1>1, <1>2, PTL

(* No connection is closed twice: each one that is still to be closed or   *)
(* registered belongs to one goroutine.                                    *)
THEOREM ClosedOnce == Spec => []OneOwner
<1>1. Spec => [](TypeControl /\ Ownership)
  BY InitTypeControl, NextTypeControl, InitOwnership, NextOwnership, PTL
  DEF Spec
<1>2. TypeControl /\ Ownership => OneOwner
  BY DEF Ownership
<1>3. QED
  BY <1>1, <1>2, PTL

-----------------------------------------------------------------------------
(* The order of the slice.                                                 *)

LEMMA RegisterNewestFirst ==
    ASSUME TypeOK, Ownership, NewestFirst, NEW p \in Proc, Register(p)
    PROVE  NewestFirst'
<1> DEFINE new == [addr |-> Target(p).addr, name |-> Target(p).name,
                   conn |-> held[p], time |-> registered]
<1>0. /\ Len(connections) \in Nat
      /\ DOMAIN connections = 1..Len(connections)
      /\ registered \in Nat /\ new.time = registered
      /\ new.addr = Target(p).addr /\ new.name = Target(p).name
  BY DEF TypeOK
<1>1. \A j \in DOMAIN connections :
        connections[j].time \in Nat /\ connections[j].time < registered
  BY EntryType DEF TypeOK, Ownership, Numbering
<1>2. ASSUME NEW i \in DOMAIN connections, IsFirstMatch(i, Target(p)),
             connections' = [connections EXCEPT ![i] = new]
      PROVE  NewestFirst'
  <2>1. /\ DOMAIN connections' = DOMAIN connections
        /\ connections'[i] = new
        /\ \A j \in DOMAIN connections \ {i} : connections'[j] = connections[j]
    BY <1>2 DEF TypeOK
  <2> HIDE DEF new
  <2> SUFFICES ASSUME NEW j \in DOMAIN connections, NEW k \in DOMAIN connections,
                      j < k, SameSlave(connections'[j], connections'[k])
               PROVE  connections'[k].time < connections'[j].time
    BY <1>2, <2>1 DEF NewestFirst, SameSlave
  <2>2. CASE j = i
    BY <1>0, <1>1, <2>1, <2>2
  <2>3. CASE k = i
    <3>1. j \in 1..(i - 1)
      BY <1>0, <2>3
    <3>2. ~SameSlave(connections[j], Target(p))
      BY <1>2, <3>1 DEF IsFirstMatch
    <3>3. connections'[j] = connections[j] /\ connections'[k] = new
      BY <2>1, <2>3, <3>1, <1>0
    <3>4. QED
      BY <1>0, <3>2, <3>3 DEF SameSlave
  <2>4. CASE j # i /\ k # i
    BY <2>1, <2>4 DEF NewestFirst
  <2>5. QED
    BY <2>2, <2>3, <2>4
<1>3. ASSUME \A i \in DOMAIN connections : ~SameSlave(connections[i], Target(p)),
             connections' = Append(connections, new)
      PROVE  NewestFirst'
  <2>1. /\ DOMAIN connections' = 1..(Len(connections) + 1)
        /\ connections'[Len(connections) + 1] = new
        /\ \A j \in DOMAIN connections : connections'[j] = connections[j]
    BY <1>0, <1>3 DEF TypeOK
  <2> HIDE DEF new
  <2> SUFFICES ASSUME NEW j \in DOMAIN connections', NEW k \in DOMAIN connections',
                      j < k, SameSlave(connections'[j], connections'[k])
               PROVE  connections'[k].time < connections'[j].time
    BY DEF NewestFirst, SameSlave
  <2>2. j \in DOMAIN connections
    BY <1>0, <2>1
  <2>3. k \in DOMAIN connections
    BY <1>0, <1>3, <2>1, <2>2 DEF SameSlave
  <2>4. QED
    BY <2>1, <2>2, <2>3 DEF NewestFirst
<1>4. QED
  BY <1>2, <1>3 DEF Register

LEMMA RemoveNewestFirst ==
    ASSUME TypeOK, NewestFirst, NEW p \in Proc, Remove(p)
    PROVE  NewestFirst'
<1>1. PICK i \in DOMAIN connections : connections' = Without(i)
  BY DEF Remove
<1>2. /\ Len(connections) \in Nat
      /\ DOMAIN connections = 1..Len(connections)
      /\ DOMAIN connections' = 1..(Len(connections) - 1)
  BY <1>1, WithoutType DEF TypeOK, Without
<1> SUFFICES ASSUME NEW j \in DOMAIN connections', NEW k \in DOMAIN connections',
                    j < k, SameSlave(connections'[j], connections'[k])
             PROVE  connections'[k].time < connections'[j].time
  BY DEF NewestFirst, SameSlave
<1>3. /\ connections'[j] = IF j < i THEN connections[j] ELSE connections[j + 1]
      /\ connections'[k] = IF k < i THEN connections[k] ELSE connections[k + 1]
  BY <1>1, <1>2 DEF Without
<1>4. \A m, n \in DOMAIN connections :
        m < n /\ SameSlave(connections[m], connections[n]) =>
            connections[n].time < connections[m].time
  BY DEF NewestFirst
<1>5. j \in DOMAIN connections /\ j + 1 \in DOMAIN connections
      /\ k \in DOMAIN connections /\ k + 1 \in DOMAIN connections
  BY <1>2
<1>6. QED
  BY <1>2, <1>3, <1>4, <1>5

(* A look-up by address or by name returns the newest registration, even   *)
(* when a slave that changed address has left an old entry behind.         *)
THEOREM LookupsReturnTheNewest == Spec => []NewestFirst
<1>1. Init => NewestFirst
  BY DEF Init, NewestFirst
<1>2. ASSUME TypeControl, Ownership, NewestFirst, [Next]_vars
      PROVE  NewestFirst'
  <2>1. CASE UNCHANGED connections
    BY <1>2, <2>1 DEF NewestFirst, SameSlave
  <2>2. QED
    BY <1>2, <2>1, StepKinds, RegisterNewestFirst, RemoveNewestFirst
    DEF DialOk, TypeControl
<1>3. QED
  BY <1>1, <1>2, InitTypeControl, NextTypeControl, InitOwnership,
     NextOwnership, PTL DEF Spec

-----------------------------------------------------------------------------
(* Nothing is lost.                                                        *)

LEMMA RegisterNoLeak ==
    ASSUME TypeOK, NoLeak, NEW p \in Proc, Register(p)
    PROVE  NoLeak'
<1> DEFINE new == [addr |-> Target(p).addr, name |-> Target(p).name,
                   conn |-> held[p], time |-> registered]
<1>0. new.conn = held[p] /\ UNCHANGED <<dialled, closed>>
  BY DEF Register
<1>1. ASSUME NEW i \in DOMAIN connections,
             connections' = [connections EXCEPT ![i] = new],
             held' = [held EXCEPT ![p] = connections[i].conn]
      PROVE  NoLeak'
  <2>1. /\ DOMAIN connections' = DOMAIN connections
        /\ connections'[i] = new
        /\ \A j \in DOMAIN connections \ {i} : connections'[j] = connections[j]
    BY <1>1 DEF TypeOK
  <2>2. /\ held'[p] = connections[i].conn
        /\ \A q \in Proc \ {p} : held'[q] = held[q]
    BY <1>1 DEF TypeOK
  <2> HIDE DEF new
  <2>3. QED
    BY <1>0, <2>1, <2>2 DEF NoLeak, InRegistry
<1>2. ASSUME connections' = Append(connections, new),
             held' = [held EXCEPT ![p] = 0]
      PROVE  NoLeak'
  <2>1. /\ DOMAIN connections' = DOMAIN connections \cup {Len(connections) + 1}
        /\ connections'[Len(connections) + 1] = new
        /\ \A j \in DOMAIN connections : connections'[j] = connections[j]
    BY <1>2 DEF TypeOK
  <2>2. \A q \in Proc \ {p} : held'[q] = held[q]
    BY <1>2 DEF TypeOK
  <2> HIDE DEF new
  <2>3. QED
    BY <1>0, <2>1, <2>2 DEF NoLeak, InRegistry
<1>3. QED
  BY <1>1, <1>2 DEF Register

LEMMA RemoveNoLeak ==
    ASSUME TypeOK, NoLeak, NEW p \in Proc, Remove(p), held[p] = 0
    PROVE  NoLeak'
<1>1. PICK i \in DOMAIN connections :
        /\ connections' = Without(i)
        /\ held' = [held EXCEPT ![p] = connections[i].conn]
  BY DEF Remove
<1>2. /\ Len(connections) \in Nat
      /\ DOMAIN connections = 1..Len(connections)
      /\ DOMAIN connections' = 1..(Len(connections) - 1)
  BY <1>1, WithoutType DEF TypeOK, Without
<1> SUFFICES ASSUME NEW c \in 1..dialled, c \notin closed
             PROVE  InRegistry(c)' \/ \E q \in Proc : held'[q] = c
  BY DEF NoLeak, Remove
<1>3. CASE \E q \in Proc : held[q] = c
  <2>1. PICK q \in Proc : held[q] = c
    BY <1>3
  <2>2. q # p
    BY <2>1 DEF TypeOK
  <2>3. held'[q] = c
    BY <1>1, <2>1, <2>2 DEF TypeOK
  <2>4. QED
    BY <2>3
<1>4. CASE InRegistry(c)
  <2>1. PICK k \in DOMAIN connections : connections[k].conn = c
    BY <1>4 DEF InRegistry
  <2>2. CASE k = i
    BY <1>1, <2>1, <2>2 DEF TypeOK
  <2>3. CASE k < i
    <3>1. k \in DOMAIN connections' /\ connections'[k] = connections[k]
      BY <1>1, <1>2, <2>3 DEF Without
    <3>2. QED
      BY <2>1, <3>1 DEF InRegistry
  <2>4. CASE k > i
    <3>1. /\ k - 1 \in DOMAIN connections'
          /\ connections'[k - 1] = connections[(k - 1) + 1]
      BY <1>1, <1>2, <2>4 DEF Without
    <3>2. (k - 1) + 1 = k
      BY <1>2
    <3>3. QED
      BY <2>1, <3>1, <3>2 DEF InRegistry
  <2>5. QED
    BY <1>2, <2>2, <2>3, <2>4
<1>5. QED
  BY <1>3, <1>4 DEF NoLeak

(* The master never loses track of a connection it dialled: it is closed,  *)
(* registered, or on its way to one or the other.                          *)
THEOREM NothingLeaks == Spec => []NoLeak
<1>1. Init => NoLeak
  BY DEF Init, NoLeak
<1>2. ASSUME TypeControl, NoLeak, [Next]_vars
      PROVE  NoLeak'
  <2>0. TypeOK /\ Control
    BY <1>2 DEF TypeControl
  <2>1. CASE UNCHANGED <<connections, registered, dialled, closed, held>>
    BY <1>2, <2>1 DEF NoLeak, InRegistry
  <2>2. ASSUME NEW p \in Proc,
               closed' = closed \cup ({held[p]} \ {0}),
               held' = [held EXCEPT ![p] = 0],
               UNCHANGED <<connections, registered, dialled>>
        PROVE  NoLeak'
    BY <1>2, <2>0, <2>2 DEF NoLeak, InRegistry, TypeOK
  <2>3. ASSUME NEW p \in Proc, DialOk(p)
        PROVE  NoLeak'
    <3>0. pc[p] = "dial" /\ dialled \in Nat
      BY <2>0, <2>3, BoundsAssumption DEF DialOk, TypeOK
    <3>1. /\ dialled \in Nat /\ dialled' = dialled + 1 /\ held[p] = 0
          /\ held' = [held EXCEPT ![p] = dialled + 1]
          /\ UNCHANGED <<connections, closed>>
      BY <2>0, <2>3, <3>0 DEF DialOk, Control, ControlOf
    <3>2. held'[p] = dialled + 1 /\ \A q \in Proc \ {p} : held'[q] = held[q]
      BY <2>0, <3>1 DEF TypeOK
    <3>3. \A c \in 1..dialled' : c \in 1..dialled \/ c = dialled + 1
      BY <3>1
    <3>4. QED
      BY <1>2, <3>1, <3>2, <3>3 DEF NoLeak, InRegistry
  <2>4. ASSUME NEW p \in Proc, Remove(p)
        PROVE  NoLeak'
    <3>1. held[p] = 0
      BY <2>0, <2>4 DEF Remove, Control, ControlOf
    <3>2. QED
      BY <1>2, <2>0, <2>4, <3>1, RemoveNoLeak
  <2>5. QED
    BY <1>2, <2>0, <2>1, <2>2, <2>3, <2>4, StepKinds, RegisterNoLeak
<1>3. QED
  BY <1>1, <1>2, InitTypeControl, NextTypeControl, PTL DEF Spec

-----------------------------------------------------------------------------
(* What may take an entry away.                                            *)

(* A check that fails removes the entry it checked and no other, however   *)
(* late it ends; otherwise an entry only gives way to a newer one for the  *)
(* same address or name.                                                   *)
THEOREM StaleChecksAreHarmless == Spec => OnlyTheCheckedEntryLeaves
<1> DEFINE Leaves == \A i \in DOMAIN connections :
        \/ \E j \in DOMAIN connections' : connections'[j] = connections[i]
        \/ \E j \in DOMAIN connections' :
                /\ connections'[j].time = registered
                /\ SameSlave(connections'[j], connections[i])
        \/ \E p \in Proc :
                pc[p] = "remove" /\ suspect[p][1].time = connections[i].time
<1>1. ASSUME TypeControl, [Next]_vars PROVE Leaves
  <2>0. TypeOK /\ Control
    BY <1>1 DEF TypeControl
  <2>1. CASE UNCHANGED connections
    BY <2>1
  <2>2. ASSUME NEW p \in Proc, Register(p) PROVE Leaves
    <3> DEFINE new == [addr |-> Target(p).addr, name |-> Target(p).name,
                       conn |-> held[p], time |-> registered]
    <3>1. ASSUME NEW i \in DOMAIN connections, IsFirstMatch(i, Target(p)),
                 connections' = [connections EXCEPT ![i] = new]
          PROVE  Leaves
      <4>1. /\ DOMAIN connections' = DOMAIN connections
            /\ connections'[i] = new
            /\ \A j \in DOMAIN connections \ {i} :
                    connections'[j] = connections[j]
        BY <2>0, <3>1 DEF TypeOK
      <4>2. connections'[i].time = registered
            /\ SameSlave(connections'[i], connections[i])
        BY <3>1, <4>1 DEF IsFirstMatch, SameSlave
      <4> HIDE DEF new
      <4>3. QED
        BY <4>1, <4>2
    <3>2. ASSUME connections' = Append(connections, new)
          PROVE  Leaves
      <4>1. \A j \in DOMAIN connections :
                j \in DOMAIN connections' /\ connections'[j] = connections[j]
        BY <2>0, <3>2 DEF TypeOK
      <4>2. QED
        BY <4>1
    <3>3. QED
      BY <2>2, <3>1, <3>2 DEF Register
  <2>3. ASSUME NEW p \in Proc, Remove(p) PROVE Leaves
    <3>1. PICK i \in DOMAIN connections :
            connections' = Without(i) /\ IsChecked(i, suspect[p][1])
      BY <2>3 DEF Remove
    <3>2. /\ Len(connections) \in Nat
          /\ DOMAIN connections = 1..Len(connections)
          /\ DOMAIN connections' = 1..(Len(connections) - 1)
      BY <2>0, <3>1, WithoutType DEF TypeOK, Without
    <3> SUFFICES ASSUME NEW k \in DOMAIN connections
                 PROVE
          \/ \E j \in DOMAIN connections' : connections'[j] = connections[k]
          \/ \E q \in Proc :
                pc[q] = "remove" /\ suspect[q][1].time = connections[k].time
      OBVIOUS
    <3>3. CASE k = i
      BY <2>3, <3>1, <3>3 DEF Remove, IsChecked
    <3>4. CASE k < i
      <4>1. k \in DOMAIN connections' /\ connections'[k] = connections[k]
        BY <3>1, <3>2, <3>4 DEF Without
      <4>2. QED
        BY <4>1
    <3>5. CASE k > i
      <4>1. /\ k - 1 \in DOMAIN connections'
            /\ connections'[k - 1] = connections[(k - 1) + 1]
        BY <3>1, <3>2, <3>5 DEF Without
      <4>2. (k - 1) + 1 = k
        BY <3>2
      <4>3. QED
        BY <4>1, <4>2
    <3>6. QED
      BY <3>2, <3>3, <3>4, <3>5
  <2>4. QED
    BY <1>1, <2>1, <2>2, <2>3, StepKinds DEF DialOk
<1>2. QED
  BY <1>1, InitTypeControl, NextTypeControl, PTL
  DEF Spec, OnlyTheCheckedEntryLeaves

=============================================================================

----------------------- MODULE ConnectionsRefinement -----------------------
(***************************************************************************)
(* Connections implements Registry, for every set of addresses, names and  *)
(* goroutines and every bound.  A registration is the step Register, a     *)
(* slave is given up by Remove, and a connection whose first ping failed   *)
(* is discarded; every other step is invisible to the services.            *)
(***************************************************************************)
EXTENDS ConnectionsProofs, WellFoundedInduction

(* What the lookups see.                                                   *)
Entries == {connections[i] : i \in DOMAIN connections}
ByAddr == [a \in Addr |-> GetConnectionByAddr(a)]
ByName == [n \in Name |-> GetConnectionByMachineName(n)]

(* Only slaves that called SetConnection are registered, copied and        *)
(* restored.                                                               *)
Known(e) == [addr |-> e.addr, name |-> e.name] \in Slaves

Presented ==
    /\ \A i \in DOMAIN connections : Known(connections[i])
    /\ \A p \in Proc : \A i \in DOMAIN todo[p] : Known(todo[p][i])
    /\ \A p \in Proc : suspect[p] # <<>> => Known(suspect[p][1])

-----------------------------------------------------------------------------
(* The first match is the newest registration.                             *)

LEMMA Least ==
    ASSUME NEW T, T \subseteq Nat, T # {}
    PROVE  \E x \in T : \A y \in T : x <= y
<1> DEFINE R == {ss \in Nat \X Nat : ss[1] < ss[2]}
<1>1. IsWellFoundedOn(R, Nat)
  BY NatLessThanWellFounded DEF OpToRel
<1> HIDE DEF R
<1>2. PICK x \in T : \A y \in T : ~(<<y, x>> \in R)
  BY <1>1, WFMin
<1>3. ASSUME NEW y \in T PROVE x <= y
  <2>1. x \in Nat /\ y \in Nat
    OBVIOUS
  <2>2. <<y, x>> \in R <=> y < x
    BY <2>1 DEF R
  <2>3. QED
    BY <1>2, <2>1, <2>2
<1>4. QED
  BY <1>3

LEMMA FirstIsNewest ==
    ASSUME NEW cs \in Seq(Entry), NEW is, is \subseteq DOMAIN cs, is # {},
           \A i, j \in is : i < j => cs[j].time < cs[i].time
    PROVE  cs[CHOOSE i \in is : \A j \in is : i <= j] =
           CHOOSE e \in {cs[i] : i \in is} :
                \A f \in {cs[i] : i \in is} : f.time <= e.time
<1>0. DOMAIN cs \subseteq Nat /\ \A i \in DOMAIN cs : cs[i] \in Entry
  OBVIOUS
<1>1. is \subseteq Nat /\ \A i \in is : cs[i].time \in Nat
  BY <1>0 DEF Entry
<1>2. PICK m \in is : \A j \in is : m <= j
  BY <1>1, Least
<1>3. (CHOOSE i \in is : \A j \in is : i <= j) = m
  BY <1>1, <1>2
<1>4. \A f \in {cs[i] : i \in is} : f.time <= cs[m].time
  <2> SUFFICES ASSUME NEW i \in is PROVE cs[i].time <= cs[m].time
    OBVIOUS
  <2>1. i = m \/ m < i
    BY <1>1, <1>2
  <2>2. QED
    BY <1>1, <2>1
<1>5. ASSUME NEW e \in {cs[i] : i \in is},
             \A f \in {cs[i] : i \in is} : f.time <= e.time
      PROVE  e = cs[m]
  <2>1. PICK k \in is : e = cs[k]
    OBVIOUS
  <2>2. cs[m].time <= cs[k].time
    BY <1>5, <2>1
  <2>3. k = m \/ m < k
    BY <1>1, <1>2
  <2>4. QED
    BY <1>1, <2>1, <2>2, <2>3
<1>6. cs[m] \in {cs[i] : i \in is}
  OBVIOUS
<1>7. (CHOOSE e \in {cs[i] : i \in is} :
                \A f \in {cs[i] : i \in is} : f.time <= e.time) = cs[m]
  BY <1>4, <1>5, <1>6
<1>8. QED
  BY <1>3, <1>7

(* Both lookups follow the registry, in the state a step ends in.          *)
LEMMA LookupsFollow ==
    ASSUME TypeOK', NewestFirst'
    PROVE  /\ ByAddr' = [a \in Addr |->
                Abstract!Newest({e \in Entries' : e.addr = a})]
           /\ ByName' = [n \in Name |->
                Abstract!Newest({e \in Entries' : e.name = n})]
<1>0. connections' \in Seq(Entry)
  BY DEF TypeOK
<1>1. ASSUME NEW is, is \subseteq DOMAIN connections',
             \A i, j \in is : SameSlave(connections'[i], connections'[j])
      PROVE  (IF is = {} THEN <<>>
              ELSE <<connections'[CHOOSE i \in is : \A j \in is : i <= j]>>)
                = Abstract!Newest({connections'[i] : i \in is})
  <2>1. CASE is = {}
    <3>1. {connections'[i] : i \in is} = {}
      BY <2>1
    <3>2. QED
      BY <2>1, <3>1 DEF Abstract!Newest
  <2>2. CASE is # {}
    <3>1. {connections'[i] : i \in is} # {}
      BY <2>2
    <3>2. \A i, j \in is : i < j => connections'[j].time < connections'[i].time
      BY <1>1 DEF NewestFirst, SameSlave
    <3>3. connections'[CHOOSE i \in is : \A j \in is : i <= j] =
           CHOOSE e \in {connections'[i] : i \in is} :
                \A f \in {connections'[i] : i \in is} : f.time <= e.time
      BY <1>0, <1>1, <2>2, <3>2, FirstIsNewest
    <3>4. QED
      BY <2>2, <3>1, <3>3 DEF Abstract!Newest
  <2>3. QED
    BY <2>1, <2>2
<1>2. ASSUME NEW a \in Addr
      PROVE  GetConnectionByAddr(a)' =
                Abstract!Newest({e \in Entries' : e.addr = a})
  <2> DEFINE is == {i \in DOMAIN connections' : connections'[i].addr = a}
  <2>1. {e \in Entries' : e.addr = a} = {connections'[i] : i \in is}
    BY DEF Entries
  <2>2. is \subseteq DOMAIN connections'
        /\ \A i, j \in is : SameSlave(connections'[i], connections'[j])
    BY DEF SameSlave
  <2>3. GetConnectionByAddr(a)' =
            IF is = {} THEN <<>>
            ELSE <<connections'[CHOOSE i \in is : \A j \in is : i <= j]>>
    BY DEF GetConnectionByAddr, FirstOf
  <2> HIDE DEF is
  <2>4. QED
    BY <1>1, <2>1, <2>2, <2>3
<1>3. ASSUME NEW n \in Name
      PROVE  GetConnectionByMachineName(n)' =
                Abstract!Newest({e \in Entries' : e.name = n})
  <2> DEFINE is == {i \in DOMAIN connections' : connections'[i].name = n}
  <2>1. {e \in Entries' : e.name = n} = {connections'[i] : i \in is}
    BY DEF Entries
  <2>2. is \subseteq DOMAIN connections'
        /\ \A i, j \in is : SameSlave(connections'[i], connections'[j])
    BY DEF SameSlave
  <2>3. GetConnectionByMachineName(n)' =
            IF is = {} THEN <<>>
            ELSE <<connections'[CHOOSE i \in is : \A j \in is : i <= j]>>
    BY DEF GetConnectionByMachineName, FirstOf
  <2> HIDE DEF is
  <2>4. QED
    BY <1>1, <2>1, <2>2, <2>3
<1>4. QED
  BY <1>2, <1>3 DEF ByAddr, ByName

-----------------------------------------------------------------------------
(* Presented is an invariant.                                              *)

LEMMA TargetKnown ==
    ASSUME TypeControl, Presented, NEW p \in Proc,
           pc[p] \in {"dial", "ping", "register"}
    PROVE  [addr |-> Target(p).addr, name |-> Target(p).name] \in Slaves
<1>0. TypeOK /\ ControlOf(p)
  BY DEF TypeControl, Control
<1>1. CASE request[p] # <<>>
  <2>1. request[p][1] \in Slaves
    BY <1>0, <1>1 DEF TypeOK
  <2>2. request[p][1] \in Identity
    BY <2>1, SlavesAssumption
  <2>3. request[p][1] = [addr |-> request[p][1].addr,
                         name |-> request[p][1].name]
    BY <2>2 DEF Identity
  <2>4. Target(p) = request[p][1]
    BY <1>1 DEF Target
  <2>5. QED
    BY <2>1, <2>3, <2>4
<1>2. CASE request[p] = <<>>
  <2>1. suspect[p] # <<>> /\ Target(p) = suspect[p][1]
    BY <1>0, <1>2 DEF ControlOf, Target
  <2>2. QED
    BY <2>1 DEF Presented, Known
<1>3. QED
  BY <1>1, <1>2

LEMMA RegisterPresented ==
    ASSUME TypeControl, Presented, NEW p \in Proc, Register(p)
    PROVE  Presented'
<1> DEFINE new == [addr |-> Target(p).addr, name |-> Target(p).name,
                   conn |-> held[p], time |-> registered]
<1>0. TypeOK
  BY DEF TypeControl
<1>1. Known(new)
  BY TargetKnown DEF Register, Known
<1> DEFINE Kept == \A i \in DOMAIN connections' :
        \/ connections'[i] = new
        \/ \E j \in DOMAIN connections : connections'[i] = connections[j]
<1>2. Kept
  <2>1. ASSUME NEW i \in DOMAIN connections,
               connections' = [connections EXCEPT ![i] = new]
        PROVE  Kept
    BY <1>0, <2>1 DEF TypeOK
  <2>2. ASSUME connections' = Append(connections, new)
        PROVE  Kept
    BY <1>0, <2>2 DEF TypeOK
  <2>3. QED
    BY <2>1, <2>2 DEF Register
<1>3. UNCHANGED <<todo, suspect>>
  BY DEF Register
<1> HIDE DEF new
<1>4. QED
  BY <1>1, <1>2, <1>3 DEF Presented, Known

LEMMA RemovePresented ==
    ASSUME TypeOK, Presented, NEW p \in Proc, Remove(p)
    PROVE  Presented'
<1>1. PICK i \in DOMAIN connections : connections' = Without(i)
  BY DEF Remove
<1>2. \A k \in DOMAIN connections' :
        \E j \in DOMAIN connections : connections'[k] = connections[j]
  <2>1. /\ Len(connections) \in Nat
        /\ DOMAIN connections = 1..Len(connections)
        /\ DOMAIN connections' = 1..(Len(connections) - 1)
    BY <1>1, WithoutType DEF TypeOK, Without
  <2> SUFFICES ASSUME NEW k \in DOMAIN connections'
               PROVE  \E j \in DOMAIN connections :
                            connections'[k] = connections[j]
    OBVIOUS
  <2>2. connections'[k] = IF k < i THEN connections[k] ELSE connections[k + 1]
    BY <1>1, <2>1 DEF Without
  <2>3. k \in DOMAIN connections /\ k + 1 \in DOMAIN connections
    BY <2>1
  <2>4. QED
    BY <2>2, <2>3
<1>3. UNCHANGED <<todo, suspect>>
  BY DEF Remove
<1>4. QED
  BY <1>2, <1>3 DEF Presented, Known

LEMMA NextPresented == TypeControl /\ Presented /\ [Next]_vars => Presented'
<1> SUFFICES ASSUME TypeControl, Presented, [Next]_vars PROVE Presented'
  OBVIOUS
<1>0. TypeOK
  BY DEF TypeControl
<1>1. ASSUME NEW p \in Proc, Snapshot(p) PROVE Presented'
  <2>1. /\ UNCHANGED <<connections, suspect>>
        /\ \A q \in Proc : todo'[q] = todo[q] \/ todo'[q] = connections
    BY <1>0, <1>1 DEF Snapshot, TypeOK
  <2>2. QED
    BY <2>1 DEF Presented, Known
<1>2. ASSUME NEW p \in Proc, PingOk(p) \/ PingFails(p) PROVE Presented'
  <2>1. /\ todo[p] \in Seq(Entry) /\ todo[p] # <<>>
        /\ todo' = [todo EXCEPT ![p] = Tail(todo[p])]
        /\ UNCHANGED connections
    BY <1>0, <1>2 DEF PingOk, PingFails, TypeOK
  <2>2. /\ 1 \in DOMAIN todo[p] /\ Head(todo[p]) = todo[p][1]
        /\ \A i \in DOMAIN Tail(todo[p]) :
                i + 1 \in DOMAIN todo[p] /\ Tail(todo[p])[i] = todo[p][i + 1]
    BY <2>1
  <2>3. \A q \in Proc : todo'[q] = IF q = p THEN Tail(todo[p]) ELSE todo[q]
    BY <1>0, <2>1 DEF TypeOK
  <2>4. \A q \in Proc : suspect'[q] = suspect[q]
                         \/ suspect'[q] = <<todo[p][1]>>
    BY <1>0, <1>2, <2>2 DEF PingOk, PingFails, TypeOK
  <2>5. Known(todo[p][1])
    BY <2>2 DEF Presented
  <2>6. \A q \in Proc : suspect'[q] # <<>> => Known(suspect'[q][1])
    BY <2>4, <2>5 DEF Presented
  <2>7. \A q \in Proc : \A i \in DOMAIN todo'[q] : Known(todo'[q][i])
    BY <2>2, <2>3 DEF Presented
  <2>8. QED
    BY <2>1, <2>6, <2>7 DEF Presented, Known
<1>3. ASSUME NEW p \in Checkers, FoundUnhealthy(p) PROVE Presented'
  <2>1. PICK i \in DOMAIN connections :
            suspect' = [suspect EXCEPT ![p] = <<connections[i]>>]
    BY <1>3 DEF FoundUnhealthy
  <2>2. \A q \in Proc : suspect'[q] = suspect[q]
                         \/ suspect'[q] = <<connections[i]>>
    BY <1>0, <2>1 DEF TypeOK
  <2>3. UNCHANGED <<connections, todo>>
    BY <1>3 DEF FoundUnhealthy
  <2>4. QED
    BY <2>2, <2>3 DEF Presented, Known
<1>4. ASSUME UNCHANGED <<connections, todo>>,
             \A q \in Proc : suspect'[q] = suspect[q] \/ suspect'[q] = <<>>
      PROVE  Presented'
  BY <1>4 DEF Presented, Known
<1>5. ASSUME NEW p \in Proc, Step(p),
             ~(Register(p) \/ Remove(p) \/ Snapshot(p)),
             ~(PingOk(p) \/ PingFails(p))
      PROVE  /\ UNCHANGED <<connections, todo>>
             /\ \A q \in Proc :
                    suspect'[q] = suspect[q] \/ suspect'[q] = <<>>
  BY <1>0, <1>5
  DEF Step, DialOk, DialFails, FirstPingOk, FirstPingFails, CloseReplaced,
      CloseRemoved, PingsDone, RecheckOk, RecheckFails, NothingToRemove,
      Restore, ConnectFailed, Connected, CheckOver, TypeOK
<1>6. CASE UNCHANGED vars
  BY <1>4, <1>6 DEF vars
<1>7. ASSUME NEW p \in Handlers, SetConnection(p) PROVE Presented'
  BY <1>4, <1>7 DEF SetConnection
<1>8. ASSUME NEW a \in Mortal, Die(a) PROVE Presented'
  BY <1>4, <1>8 DEF Die
<1>9. ASSUME NEW p \in Proc, Step(p) PROVE Presented'
  BY <1>0, <1>1, <1>2, <1>4, <1>5, <1>9, RegisterPresented, RemovePresented
<1>10. QED
  BY <1>3, <1>6, <1>7, <1>8, <1>9 DEF Next

-----------------------------------------------------------------------------
(* Every step is a step of the registry, or leaves it alone.               *)

(* The part of the invariant the step mapping rests on.                    *)
RegistryInv == TypeControl /\ Ownership /\ NewestFirst /\ Presented

Waiting(q) == pc[q] \in {"added", "removed"} /\ held[q] # 0

LEMMA GivenUpMembers ==
    /\ \A c : c \in GivenUp <=>
            c \in closed \/ \E q \in Proc : Waiting(q) /\ held[q] = c
    /\ \A c : c \in GivenUp' <=>
            c \in closed' \/ \E q \in Proc : Waiting(q)' /\ held'[q] = c
  BY DEF GivenUp, Waiting

LEMMA EntriesDistinct ==
    ASSUME Ownership, NEW i \in DOMAIN connections, NEW j \in DOMAIN connections,
           connections[i] = connections[j]
    PROVE  i = j
  BY DEF Ownership, Numbering

(* A connection that is dialled and not yet registered or given up.        *)
LEMMA HeldIsFresh ==
    ASSUME RegistryInv, NEW p \in Proc, pc[p] \in {"ping", "register"}
    PROVE  held[p] \in Abstract!Fresh
<1>1. TypeOK /\ held[p] # 0
  BY DEF RegistryInv, TypeControl, Control, ControlOf
<1>2. held[p] \in Nat /\ dialled \in 0..MaxConns /\ held[p] <= dialled
  BY <1>1 DEF TypeOK, RegistryInv, Ownership, Numbering
<1>3. held[p] \in 1..MaxConns
  BY <1>1, <1>2, BoundsAssumption
<1>4. held[p] \notin GivenUp
  <2>1. held[p] \notin closed
    BY <1>1 DEF RegistryInv, Ownership, OneOwner
  <2>2. ~Waiting(p)
    BY DEF Waiting
  <2>3. \A q \in Proc \ {p} : held[q] # held[p]
    BY <1>1 DEF RegistryInv, Ownership, OneOwner
  <2>4. QED
    BY <2>1, <2>2, <2>3, GivenUpMembers
<1>5. \A i \in DOMAIN connections : connections[i].conn # held[p]
  BY DEF RegistryInv, Ownership, RegisteredIsOpen
<1>6. QED
  BY <1>3, <1>4, <1>5 DEF Abstract!Fresh

LEMMA LookupsAbstract ==
    ASSUME TypeOK', NewestFirst'
    PROVE  Abstract!LookupsFollow
  BY LookupsFollow DEF Abstract!LookupsFollow, ByAddr, ByName, Entries

LEMMA RegisterIsRegister ==
    ASSUME RegistryInv, RegistryInv', NEW p \in Proc, Register(p)
    PROVE  \E s \in Slaves : Abstract!Register(s)
<1> DEFINE s == [addr |-> Target(p).addr, name |-> Target(p).name]
           new == [addr |-> s.addr, name |-> s.name, conn |-> held[p],
                   time |-> registered]
           matches == {e \in Entries : Abstract!SameSlave(e, s)}
<1>0. /\ TypeOK /\ Ownership /\ TypeOK' /\ NewestFirst'
      /\ pc[p] = "register" /\ held[p] # 0 /\ UNCHANGED closed
      /\ pc' = [pc EXCEPT ![p] = "added"]
      /\ registered' = registered + 1
  BY DEF RegistryInv, TypeControl, Control, ControlOf, Register
<1>1. s \in Slaves
  BY <1>0, TargetKnown DEF RegistryInv
<1>2. held[p] \in Abstract!Fresh
  BY <1>0, HeldIsFresh
<1>3. Abstract!LookupsFollow
  BY <1>0, LookupsAbstract
<1>4. new = [addr |-> Target(p).addr, name |-> Target(p).name,
             conn |-> held[p], time |-> registered]
  OBVIOUS
<1>5. /\ pc'[p] = "added" /\ ~Waiting(p)
      /\ \A q \in Proc \ {p} : pc'[q] = pc[q]
  BY <1>0 DEF TypeOK, Waiting
<1>6. \A e : SameSlave(e, Target(p)) <=> Abstract!SameSlave(e, s)
  BY DEF SameSlave, Abstract!SameSlave
<1>7. \/ /\ matches = {}
         /\ Entries' = Entries \cup {new}
         /\ GivenUp' = GivenUp
      \/ \E e \in matches :
            /\ Entries' = (Entries \ {e}) \cup {new}
            /\ GivenUp' = GivenUp \cup {e.conn}
  <2>1. ASSUME NEW i \in DOMAIN connections, IsFirstMatch(i, Target(p)),
               connections' = [connections EXCEPT ![i] = new],
               held' = [held EXCEPT ![p] = connections[i].conn]
        PROVE  /\ connections[i] \in matches
               /\ Entries' = (Entries \ {connections[i]}) \cup {new}
               /\ GivenUp' = GivenUp \cup {connections[i].conn}
    <3>1. /\ DOMAIN connections' = DOMAIN connections
          /\ connections'[i] = new
          /\ \A j \in DOMAIN connections \ {i} :
                    connections'[j] = connections[j]
      BY <1>0, <2>1 DEF TypeOK
    <3>2. \A j \in DOMAIN connections \ {i} : connections[j] # connections[i]
      BY <1>0, EntriesDistinct
    <3>3. connections[i] \in matches
      BY <1>6, <2>1 DEF IsFirstMatch, Entries
    <3>4. connections[i].conn # 0
      BY <1>0, EntryType DEF TypeOK
    <3>5. /\ held'[p] = connections[i].conn
          /\ \A q \in Proc \ {p} : held'[q] = held[q]
      BY <1>0, <2>1 DEF TypeOK
    <3>6. Waiting(p)' /\ \A q \in Proc \ {p} : Waiting(q)' = Waiting(q)
      BY <1>5, <3>4, <3>5 DEF Waiting
    <3> HIDE DEF new, matches
    <3>7. Entries' = (Entries \ {connections[i]}) \cup {new}
      BY <3>1, <3>2 DEF Entries
    <3>8. GivenUp' = GivenUp \cup {connections[i].conn}
      BY <1>0, <1>5, <3>5, <3>6, GivenUpMembers
    <3>9. QED
      BY <3>3, <3>7, <3>8
  <2>2. ASSUME \A i \in DOMAIN connections :
                    ~SameSlave(connections[i], Target(p)),
               connections' = Append(connections, new),
               held' = [held EXCEPT ![p] = 0]
        PROVE  /\ matches = {}
               /\ Entries' = Entries \cup {new}
               /\ GivenUp' = GivenUp
    <3>1. /\ DOMAIN connections' = DOMAIN connections \cup {Len(connections) + 1}
          /\ connections'[Len(connections) + 1] = new
          /\ \A j \in DOMAIN connections : connections'[j] = connections[j]
      BY <1>0, <2>2 DEF TypeOK
    <3>2. matches = {}
      BY <1>6, <2>2 DEF Entries
    <3>3. held'[p] = 0 /\ \A q \in Proc \ {p} : held'[q] = held[q]
      BY <1>0, <2>2 DEF TypeOK
    <3>4. \A q \in Proc : Waiting(q)' = Waiting(q)
      BY <1>5, <3>3 DEF Waiting
    <3> HIDE DEF new, matches
    <3>5. Entries' = Entries \cup {new}
      BY <3>1 DEF Entries
    <3>6. GivenUp' = GivenUp
      BY <1>0, <1>5, <3>3, <3>4, GivenUpMembers
    <3>7. QED
      BY <3>2, <3>5, <3>6
  <2>3. QED
    BY <1>4, <2>1, <2>2 DEF Register
<1>8. Abstract!Register(s)
  BY <1>0, <1>2, <1>3, <1>7 DEF Abstract!Register, Entries
<1> HIDE DEF s
<1>9. QED
  BY <1>1, <1>8 DEF Abstract!Register

LEMMA RemoveIsGiveUp ==
    ASSUME RegistryInv, RegistryInv', NEW p \in Proc, Remove(p)
    PROVE  \E e \in Entries : Abstract!GiveUp(e)
<1>0. /\ TypeOK /\ Ownership /\ TypeOK' /\ NewestFirst'
      /\ pc[p] = "remove" /\ UNCHANGED <<closed, registered>>
      /\ pc' = [pc EXCEPT ![p] = "removed"]
  BY DEF RegistryInv, TypeControl, Remove
<1>1. PICK i \in DOMAIN connections :
        /\ connections' = Without(i)
        /\ held' = [held EXCEPT ![p] = connections[i].conn]
  BY DEF Remove
<1>2. Abstract!LookupsFollow
  BY <1>0, LookupsAbstract
<1>3. Entries' = Entries \ {connections[i]}
  <2>1. /\ Len(connections) \in Nat
        /\ DOMAIN connections = 1..Len(connections)
        /\ DOMAIN connections' = 1..(Len(connections) - 1)
    BY <1>0, <1>1, WithoutType DEF TypeOK, Without
  <2>2. ASSUME NEW k \in DOMAIN connections'
        PROVE  \E j \in DOMAIN connections \ {i} :
                    connections'[k] = connections[j]
    <3>1. connections'[k] = IF k < i THEN connections[k]
                            ELSE connections[k + 1]
      BY <1>1, <2>1 DEF Without
    <3>2. k \in DOMAIN connections /\ k + 1 \in DOMAIN connections
          /\ (k < i \/ k + 1 # i)
      BY <2>1
    <3>3. QED
      BY <2>1, <3>1, <3>2
  <2>3. ASSUME NEW j \in DOMAIN connections \ {i}
        PROVE  \E k \in DOMAIN connections' : connections'[k] = connections[j]
    <3>1. CASE j < i
      <4>1. j \in DOMAIN connections' /\ connections'[j] = connections[j]
        BY <1>1, <2>1, <3>1 DEF Without
      <4>2. QED
        BY <4>1
    <3>2. CASE j > i
      <4>1. /\ j - 1 \in DOMAIN connections'
            /\ connections'[j - 1] = connections[(j - 1) + 1]
        BY <1>1, <2>1, <3>2 DEF Without
      <4>2. (j - 1) + 1 = j
        BY <2>1
      <4>3. QED
        BY <4>1, <4>2
    <3>3. QED
      BY <2>1, <3>1, <3>2
  <2>4. \A j \in DOMAIN connections \ {i} : connections[j] # connections[i]
    BY <1>0, EntriesDistinct
  <2>5. QED
    BY <2>2, <2>3, <2>4 DEF Entries
<1>4. GivenUp' = GivenUp \cup {connections[i].conn}
  <2>1. /\ pc'[p] = "removed" /\ ~Waiting(p)
        /\ \A q \in Proc \ {p} : pc'[q] = pc[q]
    BY <1>0 DEF TypeOK, Waiting
  <2>2. /\ held'[p] = connections[i].conn
        /\ \A q \in Proc \ {p} : held'[q] = held[q]
    BY <1>0, <1>1 DEF TypeOK
  <2>3. connections[i].conn # 0
    BY <1>0, EntryType DEF TypeOK
  <2>4. Waiting(p)' /\ \A q \in Proc \ {p} : Waiting(q)' = Waiting(q)
    BY <2>1, <2>2, <2>3 DEF Waiting
  <2>5. QED
    BY <1>0, <2>1, <2>2, <2>4, GivenUpMembers
<1>5. Abstract!GiveUp(connections[i])
  BY <1>0, <1>2, <1>3, <1>4 DEF Abstract!GiveUp, Entries
<1>6. QED
  BY <1>5 DEF Entries, Abstract!GiveUp

LEMMA FirstPingFailsIsDiscard ==
    ASSUME RegistryInv, NEW p \in Proc, FirstPingFails(p)
    PROVE  \E c \in Abstract!Fresh : Abstract!Discard(c)
<1>0. /\ TypeOK /\ pc[p] = "ping" /\ held[p] # 0
      /\ closed' = closed \cup {held[p]}
      /\ held' = [held EXCEPT ![p] = 0]
      /\ UNCHANGED <<connections, registered>>
  BY DEF RegistryInv, TypeControl, Control, ControlOf, FirstPingFails
<1>1. held[p] \in Abstract!Fresh
  BY <1>0, HeldIsFresh
<1>2. GivenUp' = GivenUp \cup {held[p]}
  <2>1. held'[p] = 0 /\ \A q \in Proc \ {p} : held'[q] = held[q]
    BY <1>0 DEF TypeOK
  <2>2. \A q \in Proc \ {p} : pc'[q] = pc[q]
    BY <1>0 DEF FirstPingFails, ConnectFailed, CheckOver, TypeOK
  <2>3. \A q \in Proc : Waiting(q)' = Waiting(q)
    BY <1>0, <2>1, <2>2 DEF Waiting
  <2>4. ~Waiting(p)
    BY <1>0 DEF Waiting
  <2>5. QED
    BY <1>0, <2>1, <2>3, <2>4, GivenUpMembers
<1>3. Abstract!Discard(held[p])
  BY <1>0, <1>2
  DEF Abstract!Discard, GetConnectionByAddr, GetConnectionByMachineName, FirstOf
<1>4. QED
  BY <1>1, <1>3

(* What the services see of the registry does not change.                  *)
Unseen == UNCHANGED <<Entries, ByAddr, ByName, registered, GivenUp>>

LEMMA UnseenMeans ==
    ASSUME UNCHANGED <<connections, registered>>, GivenUp' = GivenUp
    PROVE  Unseen
  BY DEF Unseen, Entries, ByAddr, ByName, GetConnectionByAddr,
         GetConnectionByMachineName, FirstOf

LEMMA OthersUnseen ==
    ASSUME TypeControl, [Next]_vars,
           \A p \in Proc : ~(Register(p) \/ Remove(p) \/ FirstPingFails(p))
    PROVE  Unseen
<1>0. TypeOK /\ Control
  BY DEF TypeControl
<1>1. ASSUME UNCHANGED <<connections, registered, closed>>,
             \A q \in Proc : /\ Waiting(q)' = Waiting(q)
                             /\ Waiting(q) => held'[q] = held[q]
      PROVE  Unseen
  BY <1>1, GivenUpMembers, UnseenMeans
<1>2. CASE UNCHANGED vars
  BY <1>1, <1>2 DEF vars, Waiting
<1>3. ASSUME NEW a \in Mortal, Die(a) PROVE Unseen
  BY <1>1, <1>3 DEF Die, Waiting
<1>4. ASSUME NEW p \in Proc,
             UNCHANGED <<connections, registered, closed>>,
             pc[p] \notin {"added", "removed"},
             pc'[p] \notin {"added", "removed"},
             \A q \in Proc \ {p} : pc'[q] = pc[q] /\ held'[q] = held[q]
      PROVE  Unseen
  BY <1>1, <1>4 DEF Waiting
<1>5. ASSUME NEW p \in Proc, CloseReplaced(p) \/ CloseRemoved(p) PROVE Unseen
  <2>1. /\ pc[p] \in {"added", "removed"}
        /\ closed' = closed \cup ({held[p]} \ {0})
        /\ held' = [held EXCEPT ![p] = 0]
        /\ UNCHANGED <<connections, registered>>
    BY <1>0, <1>5 DEF CloseReplaced, CloseRemoved, Control, ControlOf
  <2>2. held'[p] = 0 /\ \A q \in Proc \ {p} : held'[q] = held[q]
    BY <1>0, <2>1 DEF TypeOK
  <2>3. \A q \in Proc \ {p} : pc'[q] = pc[q]
    BY <1>0, <1>5 DEF CloseReplaced, CloseRemoved, Connected, CheckOver, TypeOK
  <2>4. Waiting(p) <=> held[p] # 0
    BY <2>1 DEF Waiting
  <2>5. ~Waiting(p)' /\ \A q \in Proc \ {p} : Waiting(q)' = Waiting(q)
    BY <2>2, <2>3 DEF Waiting
  <2>6. GivenUp' = GivenUp
    BY <2>1, <2>2, <2>4, <2>5, GivenUpMembers
  <2>7. QED
    BY <2>1, <2>6, UnseenMeans
<1>6. ASSUME NEW p \in Handlers, SetConnection(p) PROVE Unseen
  <2>1. p \in Proc
    BY DEF Proc
  <2>2. QED
    BY <1>0, <1>4, <1>6, <2>1 DEF SetConnection, TypeOK
<1>7. ASSUME NEW p \in Checkers, FoundUnhealthy(p) PROVE Unseen
  <2>1. p \in Proc
    BY DEF Proc
  <2>2. QED
    BY <1>0, <1>4, <1>7, <2>1 DEF FoundUnhealthy, TypeOK
<1>8. ASSUME NEW p \in Proc,
             DialOk(p) \/ DialFails(p) \/ FirstPingOk(p) \/ Snapshot(p)
             \/ PingOk(p) \/ PingFails(p) \/ PingsDone(p)
      PROVE  Unseen
  BY <1>0, <1>4, <1>8
  DEF DialOk, DialFails, FirstPingOk, Snapshot, PingOk, PingFails, PingsDone,
      ConnectFailed, CheckOver, TypeOK
<1>9. ASSUME NEW p \in Proc,
             RecheckOk(p) \/ RecheckFails(p) \/ NothingToRemove(p) \/ Restore(p)
      PROVE  Unseen
  BY <1>0, <1>4, <1>9
  DEF RecheckOk, RecheckFails, NothingToRemove, Restore, CheckOver, TypeOK
<1>10. QED
  BY <1>2, <1>3, <1>5, <1>6, <1>7, <1>8, <1>9 DEF Next, Step

LEMMA StepMapping ==
    RegistryInv /\ RegistryInv' /\ [Next]_vars => [Abstract!Next]_(Abstract!vars)
<1> SUFFICES ASSUME RegistryInv, RegistryInv', [Next]_vars
             PROVE  [Abstract!Next]_(Abstract!vars)
  OBVIOUS
<1>1. Unseen <=> UNCHANGED Abstract!vars
  BY DEF Unseen, Abstract!vars, Entries, ByAddr, ByName
<1>2. ASSUME NEW p \in Proc, Register(p) PROVE Abstract!Next
  BY <1>2, RegisterIsRegister DEF Abstract!Next
<1>3. ASSUME NEW p \in Proc, Remove(p) PROVE Abstract!Next
  BY <1>3, RemoveIsGiveUp DEF Abstract!Next, Entries
<1>4. ASSUME NEW p \in Proc, FirstPingFails(p) PROVE Abstract!Next
  BY <1>4, FirstPingFailsIsDiscard DEF Abstract!Next
<1>5. QED
  BY <1>1, <1>2, <1>3, <1>4, OthersUnseen DEF RegistryInv

LEMMA InitMapping == Init => Abstract!Init
<1> SUFFICES ASSUME Init PROVE Abstract!Init
  OBVIOUS
<1>1. connections = <<>> /\ DOMAIN connections = {}
  BY DEF Init
<1>2. /\ \A a \in Addr : GetConnectionByAddr(a) = <<>>
      /\ \A n \in Name : GetConnectionByMachineName(n) = <<>>
  BY <1>1 DEF GetConnectionByAddr, GetConnectionByMachineName, FirstOf
<1>3. GivenUp = {}
  BY DEF Init, GivenUp
<1>4. QED
  BY <1>1, <1>2, <1>3 DEF Init, Abstract!Init

(* What the services see is the atomic registry of module Registry: every  *)
(* lookup by address or by name finds the newest registration in force,    *)
(* and a connection that a ping, a replacement or a removal gave up is     *)
(* never found again, however the goroutines interleave.                   *)
THEOREM ConnectionsImplementsRegistry == Spec => ImplementsRegistry
<1>1. Init => Presented
  BY DEF Init, Presented
<1>2. Spec => []RegistryInv
  BY <1>1, InitTypeControl, NextTypeControl, InitOwnership, NextOwnership,
     LookupsReturnTheNewest, NextPresented, PTL DEF Spec, RegistryInv
<1>3. Spec => Init /\ [][Next]_vars
  BY PTL DEF Spec
<1>4. QED
  BY <1>2, <1>3, InitMapping, StepMapping, PTL
  DEF ImplementsRegistry, Abstract!Spec

=============================================================================

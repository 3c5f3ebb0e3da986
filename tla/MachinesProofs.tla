--------------------------- MODULE MachinesProofs ---------------------------
(***************************************************************************)
(* Proofs about the life of virtual machines, for any number of hosts,     *)
(* machines, shares and tasks, and any bounds.                             *)
(***************************************************************************)
EXTENDS Machines, TLAPS, FiniteSetTheorems

(* The definitions of a machine, and the migrations that are about to take *)
(* one away.                                                               *)
Homes(n) == {h \in Hosts : DefinedOn(h, n)}
Pending(n) == {i \in Slots : At(i, "undefine") /\ task[i].vm = n}

(* A migration is of a machine that was defined, under its own name.       *)
ColdTasks ==
    \A i \in Slots : ~Idle(i) /\ task[i].kind = "cold" =>
        task[i].new = task[i].vm /\ fate[task[i].vm] # "unborn"

Unborn ==
    \A n \in Names : fate[n] = "unborn" => Homes(n) = {} /\ Pending(n) = {}

DisksKept ==
    \A n \in Names : fate[n] = "kept" =>
        \A h \in Homes(n) : disk[domain[h][n]][n] \in Image

(* More hosts define a machine than migrations are about to undefine it:   *)
(* each of them has added the definition it will take away.                *)
Counted ==
    \A n \in Names : fate[n] = "kept" =>
        Cardinality(Pending(n)) < Cardinality(Homes(n))

MigrationInv == ColdTasks /\ Unborn /\ DisksKept /\ Counted

-----------------------------------------------------------------------------
(* Type correctness.                                                       *)

LEMMA TaskFields ==
    ASSUME TypeOK, NEW i \in Slots, ~Idle(i)
    PROVE  task[i] \in Tasks
  BY DEF TypeOK, Idle

LEMMA GotoType ==
    ASSUME TypeOK, NEW i \in Slots, ~Idle(i),
           NEW st \in {"mkdir", "open", "copy", "define", "undefine", "delete",
                       "migrate"},
           Goto(i, st)
    PROVE  task' \in [Slots -> Tasks \cup {None}]
<1>1. task[i] \in Tasks
  BY TaskFields
<1>2. [task[i] EXCEPT !.step = st] \in Tasks
  BY <1>1 DEF Tasks
<1>3. task' = [task EXCEPT ![i] = [task[i] EXCEPT !.step = st]]
  BY DEF Goto
<1>4. QED
  BY <1>2, <1>3 DEF TypeOK

LEMMA EndType ==
    ASSUME TypeOK, NEW i \in Slots, End(i)
    PROVE  task' \in [Slots -> Tasks \cup {None}]
  BY DEF End, TypeOK

LEMMA BeginType ==
    ASSUME TypeOK, NEW i \in Slots,
           NEW kind \in {"create", "cold", "live", "move", "clone"},
           NEW vm \in Names, NEW new \in Names, NEW from \in Hosts,
           NEW to \in Hosts, NEW src \in Shares, NEW dst \in Shares,
           NEW st \in {"mkdir", "define", "migrate"},
           Begin(i, kind, vm, new, from, to, src, dst, st)
    PROVE  TypeOK'
<1> DEFINE k == [kind |-> kind, vm |-> vm, new |-> new, from |-> from,
                  to |-> to, src |-> src, dst |-> dst, image |-> "whole",
                  sole |-> TRUE, step |-> st]
<1>1. k \in Tasks
  BY DEF Tasks, Image
<1>2. task' = [task EXCEPT ![i] = k]
  BY DEF Begin, FreeSlots
<1> HIDE DEF k
<1>3. task' \in [Slots -> Tasks \cup {None}]
  BY <1>1, <1>2 DEF TypeOK
<1>4. started' \in 0..MaxTasks
  BY BoundsAssumption DEF Begin, FreeSlots, TypeOK
<1>5. QED
  BY <1>3, <1>4 DEF Begin, FreeSlots, TypeOK, DefinedOn

LEMMA RequestType ==
    ASSUME TypeOK, NEW i \in Slots, NEW n \in Names, Request(i, n)
    PROVE  TypeOK'
<1>0. \A h \in Hosts, m \in Names : DefinedOn(h, m) => domain[h][m] \in Shares
  BY DEF TypeOK, DefinedOn
<1>1. ASSUME NEW h \in Hosts, NEW s \in Shares, CreateVM(i, n, h, s)
      PROVE  TypeOK'
  BY <1>1, BeginType DEF CreateVM
<1>2. ASSUME NEW d \in Hosts, ColdMigrate(i, n, d) PROVE TypeOK'
  <2>1. PICK h \in Hosts : /\ DefinedOn(h, n)
                           /\ Begin(i, "cold", n, n, h, d, domain[h][n],
                                    domain[h][n], "define")
    BY <1>2 DEF ColdMigrate, GetVmByName
  <2>2. QED
    BY <1>0, <2>1, BeginType
<1>3. ASSUME NEW d \in Hosts, MigrateVm(i, n, d) PROVE TypeOK'
  BY <1>0, <1>3, BeginType DEF MigrateVm
<1>4. ASSUME NEW new \in Names, NEW d \in Hosts, NEW s \in Shares,
             CloneVM(i, n, new, d, s)
      PROVE  TypeOK'
  <2>1. PICK h \in Hosts : /\ DefinedOn(h, n)
                           /\ Begin(i, "clone", n, new, h, d, domain[h][n], s,
                                    "mkdir")
    BY <1>4 DEF CloneVM, GetVmByName
  <2>2. QED
    BY <1>0, <2>1, BeginType
<1>5. ASSUME NEW new \in Names, NEW s \in Shares, MoveDisk(i, n, new, s)
      PROVE  TypeOK'
  <2>1. PICK h \in Hosts : /\ DefinedOn(h, n)
                           /\ Begin(i, "move", n, new, h, h, domain[h][n], s,
                                    "mkdir")
    BY <1>5 DEF MoveDisk, GetVmByName
  <2>2. QED
    BY <1>0, <2>1, BeginType
<1>6. QED
  BY <1>1, <1>2, <1>3, <1>4, <1>5 DEF Request

LEMMA FaultType ==
    ASSUME TypeOK, Fault \/ UNCHANGED faults
    PROVE  faults' \in 0..MaxFaults
  BY BoundsAssumption DEF TypeOK, Fault

(* Undefining a machine that is switched off first.                        *)
LEMMA UndefinedType ==
    ASSUME TypeOK, NEW h \in Hosts, NEW n \in Names,
           running' = running \ {<<h, n>>},
           UNCHANGED domain \/ domain' = [domain EXCEPT ![h][n] = None]
    PROVE  /\ domain' \in [Hosts -> [Names -> Shares \cup {None}]]
           /\ running' \subseteq {p \in Hosts \X Names : DefinedOn(p[1], p[2])'}
<1>1. domain' \in [Hosts -> [Names -> Shares \cup {None}]]
  BY DEF TypeOK
<1>2. ASSUME NEW p \in running' PROVE p \in Hosts \X Names /\ DefinedOn(p[1], p[2])'
  <2>1. p \in Hosts \X Names /\ DefinedOn(p[1], p[2]) /\ p # <<h, n>>
    BY <1>2 DEF TypeOK
  <2>2. p[1] # h \/ p[2] # n
    BY <2>1
  <2>3. domain'[p[1]][p[2]] = domain[p[1]][p[2]]
    BY <2>1, <2>2 DEF TypeOK
  <2>4. QED
    BY <2>1, <2>3 DEF DefinedOn
<1>3. QED
  BY <1>1, <1>2

LEMMA DiskType ==
    ASSUME TypeOK, NEW s \in Shares, NEW n \in Names, NEW f \in Folder,
           disk' = [disk EXCEPT ![s][n] = f]
    PROVE  /\ disk' \in [Shares -> [Names -> Folder]]
           /\ \A t \in Shares, m \in Names :
                disk'[t][m] = IF t = s /\ m = n THEN f ELSE disk[t][m]
  BY DEF TypeOK

LEMMA RemoveType ==
    ASSUME TypeOK, NEW h \in Hosts, NEW n \in Names, RemoveVM(h, n),
           task' \in [Slots -> Tasks \cup {None}]
    PROVE  TypeOK'
<1>1. /\ running' = running \ {<<h, n>>}
      /\ UNCHANGED domain \/ domain' = [domain EXCEPT ![h][n] = None]
      /\ started' = started
      /\ Fault \/ UNCHANGED faults
  BY DEF RemoveVM, NoFault
<1>2. disk' \in [Shares -> [Names -> Folder]] /\ fate' \in [Names -> Fates]
  <2>1. domain[h][n] \in Shares /\ "absent" \in Folder
    BY DEF RemoveVM, DefinedOn, TypeOK, Folder
  <2>2. disk' = disk \/ disk' = [disk EXCEPT ![domain[h][n]][n] = "absent"]
    BY DEF RemoveVM
  <2>3. disk' \in [Shares -> [Names -> Folder]]
    BY <2>1, <2>2, DiskType DEF TypeOK
  <2>4. fate' = fate \/ fate' = [fate EXCEPT ![n] = "deleted"]
    BY DEF RemoveVM
  <2>5. fate' \in [Names -> Fates]
    BY <2>4 DEF TypeOK, Fates
  <2>6. QED
    BY <2>3, <2>5
<1>3. QED
  BY <1>1, <1>2, UndefinedType, FaultType DEF TypeOK

(* Opening a copy moves its task on, and no other but that it is told.     *)
LEMMA OpenedTasks ==
    ASSUME TypeOK, NEW i \in Slots, OpenCopy(i)
    PROVE  /\ task' \in [Slots -> Tasks \cup {None}]
           /\ /\ ~Idle(i)' /\ task'[i].step = "copy" /\ task'[i].kind = task[i].kind
              /\ task'[i].vm = task[i].vm /\ task'[i].new = task[i].new
              /\ task'[i].dst = task[i].dst
           /\ \A j \in Slots \ {i} :
                /\ Idle(j)' <=> Idle(j)
                /\ ~Idle(j) =>
                    /\ task'[j].kind = task[j].kind /\ task'[j].vm = task[j].vm
                    /\ task'[j].new = task[j].new /\ task'[j].dst = task[j].dst
                    /\ task'[j].image = task[j].image
                    /\ task'[j].step = task[j].step
                    /\ task'[j].sole =>
                        /\ task[j].sole
                        /\ task[j].dst # task[i].dst \/ task[j].new # task[i].new
<1>1. /\ task[i] \in Tasks /\ ~Idle(i) /\ disk[task[i].src][task[i].vm] \in Image
      /\ task' = [j \in Slots |-> Opened(j, i, task[i])]
      /\ None \notin Tasks
  BY TaskFields, TaskAssumption DEF OpenCopy, At
<1>2. ASSUME NEW k \in Tasks, NEW image \in Image
      PROVE  /\ [k EXCEPT !.sole = FALSE] \in Tasks
             /\ [k EXCEPT !.image = image, !.sole = TRUE, !.step = "copy"] \in Tasks
  BY DEF Tasks
<1>3. /\ task'[i] = [task[i] EXCEPT !.image = disk[task[i].src][task[i].vm],
                                    !.sole = TRUE, !.step = "copy"]
      /\ task'[i] \in Tasks
  BY <1>1, <1>2 DEF Opened
<1>4. ASSUME NEW j \in Slots \ {i}
      PROVE  \/ task'[j] = task[j] /\ Idle(j)
             \/ /\ ~Idle(j) /\ task[j] \in Tasks /\ task'[j] \in Tasks
                /\ \/ task'[j] = [task[j] EXCEPT !.sole = FALSE]
                   \/ /\ task'[j] = task[j]
                      /\ task[j].dst # task[i].dst \/ task[j].new # task[i].new
  BY <1>1, <1>2, TaskFields DEF Opened
<1>5. task' \in [Slots -> Tasks \cup {None}]
  BY <1>1, <1>3, <1>4 DEF Idle
<1>6. /\ ~Idle(i)' /\ task'[i].step = "copy" /\ task'[i].kind = task[i].kind
      /\ task'[i].vm = task[i].vm /\ task'[i].new = task[i].new
      /\ task'[i].dst = task[i].dst
  BY <1>1, <1>3 DEF Idle, Tasks
<1>7. ASSUME NEW j \in Slots \ {i}
      PROVE  /\ Idle(j)' <=> Idle(j)
             /\ ~Idle(j) =>
                /\ task'[j].kind = task[j].kind /\ task'[j].vm = task[j].vm
                /\ task'[j].new = task[j].new /\ task'[j].dst = task[j].dst
                /\ task'[j].image = task[j].image
                /\ task'[j].step = task[j].step
                /\ task'[j].sole =>
                    /\ task[j].sole
                    /\ task[j].dst # task[i].dst \/ task[j].new # task[i].new
  <2>1. CASE task'[j] = task[j] /\ Idle(j)
    BY <2>1 DEF Idle
  <2>2. CASE task'[j] = [task[j] EXCEPT !.sole = FALSE] /\ ~Idle(j) /\ task[j] \in Tasks
    <3>1. task'[j] \in Tasks
      BY <2>2 DEF Tasks
    <3>2. ~task'[j].sole
      BY <2>2 DEF Tasks
    <3>3. QED
      BY <1>1, <2>2, <3>1, <3>2 DEF Idle, Tasks
  <2>3. CASE /\ task'[j] = task[j] /\ ~Idle(j)
             /\ task[j].dst # task[i].dst \/ task[j].new # task[i].new
    BY <2>3 DEF Idle
  <2>4. QED
    BY <1>4, <2>1, <2>2, <2>3
<1>8. QED
  BY <1>5, <1>6, <1>7

LEMMA CopyType ==
    ASSUME TypeOK, NEW i \in Slots,
           MakeFolder(i) \/ OpenCopy(i) \/ FinishCopy(i)
    PROVE  TypeOK'
<1>0. /\ ~Idle(i) /\ task[i] \in Tasks
      /\ task[i].dst \in Shares /\ task[i].new \in Names /\ task[i].image \in Image
      /\ task[i].src \in Shares /\ task[i].vm \in Names
      /\ Image \subseteq Folder /\ "empty" \in Folder /\ "partial" \in Folder
  BY TaskFields DEF MakeFolder, OpenCopy, FinishCopy, At, Tasks, Folder, Image
<1>1. disk' \in [Shares -> [Names -> Folder]]
  <2>1. \/ disk' = disk
        \/ \E f \in Folder : disk' = [disk EXCEPT ![task[i].dst][task[i].new] = f]
    BY <1>0 DEF MakeFolder, OpenCopy, FinishCopy
  <2>2. QED
    BY <1>0, <2>1, DiskType DEF TypeOK
<1>2. task' \in [Slots -> Tasks \cup {None}]
  <2>1. CASE MakeFolder(i) \/ FinishCopy(i)
    BY <1>0, <2>1, GotoType DEF MakeFolder, FinishCopy
  <2>2. CASE OpenCopy(i)
    BY <2>2, OpenedTasks
  <2>3. QED
    BY <2>1, <2>2
<1>3. UNCHANGED <<domain, running, fate, started, faults>>
  BY DEF MakeFolder, OpenCopy, FinishCopy, bounds
<1>4. QED
  BY <1>1, <1>2, <1>3 DEF TypeOK, DefinedOn

LEMMA DefineType ==
    ASSUME TypeOK, NEW i \in Slots, DefineMachine(i)
    PROVE  TypeOK'
<1> DEFINE k == task[i]
<1>0. /\ ~Idle(i) /\ k \in Tasks /\ k.to \in Hosts /\ k.new \in Names
      /\ k.dst \in Shares /\ "whole" \in Folder /\ k.dst # None
  BY TaskFields, NoneAssumption DEF DefineMachine, At, Tasks, Folder, Image
<1>1. /\ disk' = disk \/ disk' = [disk EXCEPT ![k.dst][k.new] = "whole"]
      /\ domain' = [domain EXCEPT ![k.to][k.new] = k.dst]
      /\ fate' = [fate EXCEPT ![k.new] = IF @ = "unborn" THEN "kept" ELSE @]
      /\ running' = running \/ running' = running \cup {<<k.to, k.new>>}
      /\ \/ End(i)
         \/ k.kind \in DOMAIN NextStep /\ Goto(i, NextStep[k.kind])
      /\ Fault \/ UNCHANGED faults
      /\ UNCHANGED started
  BY DEF DefineMachine, NoFault
<1>2. disk' \in [Shares -> [Names -> Folder]] /\ fate' \in [Names -> Fates]
  <2>1. disk' \in [Shares -> [Names -> Folder]]
    BY <1>0, <1>1, DiskType DEF TypeOK
  <2>2. fate' \in [Names -> Fates]
    BY <1>1 DEF TypeOK, Fates
  <2>3. QED
    BY <2>1, <2>2
<1>3. task' \in [Slots -> Tasks \cup {None}]
  <2>1. k.kind \in DOMAIN NextStep => NextStep[k.kind] \in {"undefine", "delete"}
    BY DEF NextStep
  <2>2. QED
    BY <1>0, <1>1, <2>1, GotoType, EndType
<1>4. domain' \in [Hosts -> [Names -> Shares \cup {None}]]
      /\ \A h \in Hosts, m \in Names : domain'[h][m] =
            IF h = k.to /\ m = k.new THEN k.dst ELSE domain[h][m]
  BY <1>0, <1>1 DEF TypeOK
<1>5. running' \subseteq {p \in Hosts \X Names : DefinedOn(p[1], p[2])'}
  <2>1. ASSUME NEW p \in running'
        PROVE  p \in Hosts \X Names /\ DefinedOn(p[1], p[2])'
    <3>1. CASE p \in running
      BY <1>0, <1>4, <3>1 DEF TypeOK, DefinedOn
    <3>2. CASE p = <<k.to, k.new>>
      BY <1>0, <1>4, <3>2 DEF DefinedOn
    <3>3. QED
      BY <1>1, <2>1, <3>1, <3>2
  <2>2. QED
    BY <2>1
<1>6. QED
  BY <1>1, <1>2, <1>3, <1>4, <1>5, FaultType DEF TypeOK

LEMMA LeaveType ==
    ASSUME TypeOK, NEW i \in Slots,
           UndefineOrigin(i) \/ DeleteMoved(i) \/ LiveMigrate(i) \/ TaskFails(i)
    PROVE  TypeOK'
<1>1. End(i) /\ ~Idle(i)
  BY DEF UndefineOrigin, DeleteMoved, LiveMigrate, TaskFails, At
<1>2. /\ task' \in [Slots -> Tasks \cup {None}]
      /\ task[i] \in Tasks /\ task[i].from \in Hosts /\ task[i].to \in Hosts
      /\ task[i].vm \in Names
  BY <1>1, EndType, TaskFields DEF Tasks
<1>3. CASE TaskFails(i)
  BY <1>2, <1>3 DEF TaskFails, TypeOK, DefinedOn, bounds
<1>4. CASE DeleteMoved(i)
  BY <1>2, <1>4, RemoveType DEF DeleteMoved
<1>5. CASE UndefineOrigin(i)
  <2>1. /\ running' = running \ {<<task[i].from, task[i].vm>>}
        /\ \/ UNCHANGED domain
           \/ domain' = [domain EXCEPT ![task[i].from][task[i].vm] = None]
        /\ Fault \/ UNCHANGED faults
        /\ UNCHANGED <<disk, fate, started>>
    BY <1>5 DEF UndefineOrigin, NoFault
  <2>2. QED
    BY <1>2, <2>1, UndefinedType, FaultType DEF TypeOK
<1>6. CASE LiveMigrate(i)
  <2> DEFINE a == task[i].from
             b == task[i].to
             n == task[i].vm
  <2>1. /\ <<a, n>> \in running /\ domain[b][n] = None
        /\ domain' = [domain EXCEPT ![a][n] = None, ![b][n] = domain[a][n]]
        /\ running' = (running \ {<<a, n>>}) \cup {<<b, n>>}
        /\ UNCHANGED <<disk, fate, started, faults>>
    BY <1>6 DEF LiveMigrate, Runs, DefinedOn, bounds
  <2>2. domain[a][n] \in Shares /\ a # b /\ domain[a][n] # None
    BY <1>2, <2>1 DEF TypeOK, DefinedOn
  <2> HIDE DEF a, b, n
  <2>3. /\ domain' \in [Hosts -> [Names -> Shares \cup {None}]]
        /\ \A h \in Hosts, m \in Names : domain'[h][m] =
                IF m = n /\ h = a THEN None
                ELSE IF m = n /\ h = b THEN domain[a][n] ELSE domain[h][m]
    BY <1>2, <2>1, <2>2 DEF TypeOK, a, b, n
  <2>4. ASSUME NEW p \in running'
        PROVE  p \in Hosts \X Names /\ DefinedOn(p[1], p[2])'
    <3>1. CASE p = <<b, n>>
      <4>1. b \in Hosts /\ n \in Names
        BY <1>2 DEF b, n
      <4>2. QED
        BY <2>2, <2>3, <3>1, <4>1 DEF DefinedOn
    <3>2. CASE p \in running /\ p # <<a, n>> /\ p # <<b, n>>
      <4>1. p \in Hosts \X Names /\ DefinedOn(p[1], p[2])
        BY <3>2 DEF TypeOK
      <4>2. ~(p[1] = a /\ p[2] = n) /\ ~(p[1] = b /\ p[2] = n)
        BY <3>2, <4>1
      <4>3. QED
        BY <2>3, <4>1, <4>2 DEF DefinedOn
    <3>3. QED
      BY <2>1, <2>4, <3>1, <3>2
  <2>5. QED
    BY <1>2, <2>1, <2>3, <2>4 DEF TypeOK
<1>7. QED
  BY <1>3, <1>4, <1>5, <1>6

LEMMA InitType == Init => TypeOK
  BY BoundsAssumption DEF Init, TypeOK, Folder, Fates, DefinedOn

LEMMA NextType == TypeOK /\ [Next]_vars => TypeOK'
<1> SUFFICES ASSUME TypeOK, [Next]_vars PROVE TypeOK'
  OBVIOUS
<1>1. CASE UNCHANGED vars
  BY <1>1 DEF vars, bounds, TypeOK, DefinedOn
<1>2. ASSUME NEW n \in Names, StartVM(n) PROVE TypeOK'
  BY <1>2 DEF StartVM, TypeOK, DefinedOn, bounds
<1>3. ASSUME NEW n \in Names, PowerOff(n) PROVE TypeOK'
  BY <1>3 DEF PowerOff, TypeOK, DefinedOn, bounds
<1>4. ASSUME NEW n \in Names, DeleteVM(n) PROVE TypeOK'
  BY <1>4, RemoveType DEF DeleteVM, TypeOK
<1>5. QED
  BY <1>1, <1>2, <1>3, <1>4, RequestType, CopyType, DefineType, LeaveType
  DEF Next, Step, FreeSlots

(* Every variable has its type and only machines that are defined run.     *)
THEOREM MachinesTypeOK == Spec => []TypeOK
  BY InitType, NextType, PTL DEF Spec

-----------------------------------------------------------------------------
(* Counting definitions against migrations.                                *)

LEMMA CountsAreNumbers ==
    ASSUME NEW n \in Names
    PROVE  /\ IsFiniteSet(Homes(n)) /\ IsFiniteSet(Pending(n))
           /\ Cardinality(Homes(n)) \in Nat /\ Cardinality(Pending(n)) \in Nat
<1>1. Homes(n) \subseteq Hosts /\ Pending(n) \subseteq Slots
  BY DEF Homes, Pending
<1>2. QED
  BY <1>1, FiniteAssumption, FS_Subset, FS_CardinalityType

LEMMA OneMore ==
    ASSUME NEW S, IsFiniteSet(S), NEW x
    PROVE  /\ IsFiniteSet(S \cup {x}) /\ Cardinality(S \cup {x}) \in Nat
           /\ Cardinality(S \cup {x}) <= Cardinality(S) + 1
           /\ x \notin S => Cardinality(S \cup {x}) = Cardinality(S) + 1
<1>1. /\ IsFiniteSet(S \cup {x})
      /\ Cardinality(S \cup {x}) = Cardinality(S)
            \/ Cardinality(S \cup {x}) = Cardinality(S) + 1
      /\ x \notin S => Cardinality(S \cup {x}) = Cardinality(S) + 1
  BY FS_AddElement
<1>2. Cardinality(S) \in Nat
  BY FS_CardinalityType
<1>3. QED
  BY <1>1, <1>2

(* A machine is still counted right when it has the definitions it had and *)
(* no migration of it is added.                                            *)
LEMMA FewerPending ==
    ASSUME Counted, NEW n \in Names, fate[n] = "kept",
           Homes(n)' = Homes(n), Pending(n)' \subseteq Pending(n)
    PROVE  Cardinality(Pending(n)') < Cardinality(Homes(n)')
<1>1. Cardinality(Pending(n)') <= Cardinality(Pending(n))
      /\ Cardinality(Pending(n)') \in Nat
  BY CountsAreNumbers, FS_Subset, FS_CardinalityType
<1>2. Cardinality(Pending(n)) < Cardinality(Homes(n))
  BY DEF Counted
<1>3. QED
  BY <1>1, <1>2, CountsAreNumbers

DisksStay ==
    \A s \in Shares, m \in Names : disk[s][m] \in Image => disk'[s][m] \in Image

(* A step that defines and undefines nothing.                              *)
LEMMA AsideInv ==
    ASSUME TypeOK, MigrationInv, UNCHANGED <<domain, fate>>, DisksStay,
           \A n \in Names : Pending(n)' \subseteq Pending(n), ColdTasks'
    PROVE  MigrationInv'
<1>1. \A n \in Names : Homes(n)' = Homes(n)
  BY DEF Homes, DefinedOn
<1>2. Unborn'
  BY <1>1 DEF MigrationInv, Unborn
<1>3. DisksKept'
  <2> SUFFICES ASSUME NEW n \in Names, fate[n] = "kept", NEW h \in Homes(n)
               PROVE  disk'[domain[h][n]][n] \in Image
    BY <1>1 DEF DisksKept
  <2>1. disk[domain[h][n]][n] \in Image
    BY DEF MigrationInv, DisksKept
  <2>2. domain[h][n] \in Shares
    BY DEF Homes, DefinedOn, TypeOK
  <2>3. QED
    BY <2>1, <2>2 DEF DisksStay
<1>4. Counted'
  BY <1>1, FewerPending DEF MigrationInv, Counted
<1>5. QED
  BY <1>2, <1>3, <1>4 DEF MigrationInv

(* A slot is given a record that is not about to undefine, or none.        *)
LEMMA SlotChanged ==
    ASSUME TypeOK, ColdTasks, UNCHANGED fate, NEW i \in Slots, NEW k,
           task' = [task EXCEPT ![i] = k],
           k # None => /\ k.step # "undefine"
                       /\ k.kind = "cold" => k.new = k.vm /\ fate[k.vm] # "unborn"
    PROVE  /\ ColdTasks'
           /\ \A n \in Names : Pending(n)' \subseteq Pending(n)
<1>1. task'[i] = k /\ \A j \in Slots \ {i} : task'[j] = task[j]
  BY DEF TypeOK
<1>2. QED
  BY <1>1 DEF ColdTasks, Pending, At, Idle

LEMMA BeginInv ==
    ASSUME TypeOK, MigrationInv, NEW i \in Slots, NEW kind, NEW vm, NEW new,
           NEW from, NEW to, NEW src, NEW dst, NEW st,
           st # "undefine",
           kind = "cold" => new = vm /\ fate[vm] # "unborn",
           Begin(i, kind, vm, new, from, to, src, dst, st)
    PROVE  MigrationInv'
<1> DEFINE k == [kind |-> kind, vm |-> vm, new |-> new, from |-> from,
                  to |-> to, src |-> src, dst |-> dst, image |-> "whole",
                  sole |-> TRUE, step |-> st]
<1>1. /\ k.step # "undefine"
      /\ k.kind = "cold" => k.new = k.vm /\ fate[k.vm] # "unborn"
  OBVIOUS
<1>2. task' = [task EXCEPT ![i] = k] /\ UNCHANGED <<domain, fate, disk>>
  BY DEF Begin, FreeSlots
<1> HIDE DEF k
<1>3. ColdTasks' /\ \A n \in Names : Pending(n)' \subseteq Pending(n)
  BY <1>1, <1>2, SlotChanged DEF MigrationInv
<1>4. DisksStay
  BY <1>2 DEF DisksStay
<1>5. QED
  BY <1>2, <1>3, <1>4, AsideInv

LEMMA RequestInv ==
    ASSUME TypeOK, MigrationInv, NEW i \in Slots, NEW n \in Names, Request(i, n)
    PROVE  MigrationInv'
<1>1. ASSUME NEW d \in Hosts, ColdMigrate(i, n, d) PROVE MigrationInv'
  <2>1. PICK h \in Hosts : /\ DefinedOn(h, n)
                           /\ Begin(i, "cold", n, n, h, d, domain[h][n],
                                    domain[h][n], "define")
    BY <1>1 DEF ColdMigrate, GetVmByName
  <2>2. fate[n] # "unborn"
    BY <2>1 DEF MigrationInv, Unborn, Homes
  <2>3. QED
    BY <2>1, <2>2, BeginInv
<1>2. ASSUME NEW h \in Hosts, NEW s \in Shares, CreateVM(i, n, h, s)
      PROVE  MigrationInv'
  <2>1. Begin(i, "create", n, n, h, h, s, s, "define")
    BY <1>2 DEF CreateVM
  <2>2. QED
    BY <2>1, BeginInv
<1>3. ASSUME NEW d \in Hosts, MigrateVm(i, n, d) PROVE MigrationInv'
  <2>1. PICK h \in Hosts : Begin(i, "live", n, n, h, d, domain[h][n],
                                 domain[h][n], "migrate")
    BY <1>3 DEF MigrateVm
  <2>2. QED
    BY <2>1, BeginInv
<1>4. ASSUME NEW new \in Names, NEW d \in Hosts, NEW s \in Shares,
             CloneVM(i, n, new, d, s)
      PROVE  MigrationInv'
  <2>1. PICK h \in Hosts : Begin(i, "clone", n, new, h, d, domain[h][n], s,
                                 "mkdir")
    BY <1>4 DEF CloneVM, GetVmByName
  <2>2. QED
    BY <2>1, BeginInv
<1>5. ASSUME NEW new \in Names, NEW s \in Shares, MoveDisk(i, n, new, s)
      PROVE  MigrationInv'
  <2>1. PICK h \in Hosts : Begin(i, "move", n, new, h, h, domain[h][n], s,
                                 "mkdir")
    BY <1>5 DEF MoveDisk, GetVmByName
  <2>2. QED
    BY <2>1, BeginInv
<1>6. QED
  BY <1>1, <1>2, <1>3, <1>4, <1>5 DEF Request

LEMMA CopyInv ==
    ASSUME TypeOK, MigrationInv, NEW i \in Slots,
           MakeFolder(i) \/ OpenCopy(i) \/ FinishCopy(i)
    PROVE  MigrationInv'
<1>0. /\ ~Idle(i) /\ task[i] \in Tasks
      /\ task[i].dst \in Shares /\ task[i].new \in Names /\ task[i].image \in Image
      /\ UNCHANGED <<domain, fate>>
      /\ Image \subseteq Folder /\ "empty" \in Folder /\ "partial" \in Image
      /\ "absent" \notin Image
  BY TaskFields DEF MakeFolder, OpenCopy, FinishCopy, At, Tasks, Folder, Image
<1>1. DisksStay
  <2>1. \/ disk' = disk
        \/ \E f \in Folder :
            /\ disk' = [disk EXCEPT ![task[i].dst][task[i].new] = f]
            /\ f \in Image \/ disk[task[i].dst][task[i].new] = "absent"
    BY <1>0 DEF MakeFolder, OpenCopy, FinishCopy, FolderIsFree
  <2>2. CASE disk' = disk
    BY <2>2 DEF DisksStay
  <2>3. ASSUME NEW f \in Folder,
               disk' = [disk EXCEPT ![task[i].dst][task[i].new] = f],
               f \in Image \/ disk[task[i].dst][task[i].new] = "absent"
        PROVE  DisksStay
    <3>1. \A t \in Shares, m \in Names : disk'[t][m] =
            IF t = task[i].dst /\ m = task[i].new THEN f ELSE disk[t][m]
      BY <1>0, <2>3, DiskType
    <3>2. QED
      BY <1>0, <2>3, <3>1 DEF DisksStay
  <2>4. QED
    BY <2>1, <2>2, <2>3
<1>2. ColdTasks' /\ \A n \in Names : Pending(n)' \subseteq Pending(n)
  <2>1. CASE MakeFolder(i) \/ FinishCopy(i)
    <3>1. PICK st \in {"open", "define"} : Goto(i, st)
      BY <2>1 DEF MakeFolder, FinishCopy
    <3> DEFINE k == [task[i] EXCEPT !.step = st]
    <3>2. /\ k.step = st /\ k.kind = task[i].kind
          /\ k.new = task[i].new /\ k.vm = task[i].vm
      BY <1>0 DEF Tasks
    <3>3. task' = [task EXCEPT ![i] = k]
      BY <3>1 DEF Goto
    <3> HIDE DEF k
    <3>4. QED
      BY <1>0, <3>2, <3>3, SlotChanged DEF MigrationInv, ColdTasks
  <2>2. CASE OpenCopy(i)
    BY <1>0, <2>2, OpenedTasks DEF MigrationInv, ColdTasks, Pending, At
  <2>3. QED
    BY <2>1, <2>2
<1>3. QED
  BY <1>0, <1>1, <1>2, AsideInv

LEMMA EndInv ==
    ASSUME TypeOK, MigrationInv, NEW i \in Slots, End(i), UNCHANGED fate
    PROVE  ColdTasks' /\ \A n \in Names : Pending(n)' \subseteq Pending(n)
  BY SlotChanged DEF End, MigrationInv

(* A machine that is deleted is out of the account; the others are as they *)
(* were.                                                                   *)
LEMMA RemoveInv ==
    ASSUME TypeOK, MigrationInv, NEW h \in Hosts, NEW n \in Names,
           RemoveVM(h, n), task' = task \/ \E i \in Slots : End(i)
    PROVE  MigrationInv'
<1>1. \A m \in Names : Pending(m)' \subseteq Pending(m)
  <2>1. CASE task' = task
    BY <2>1 DEF Pending, At, Idle
  <2>2. ASSUME NEW i \in Slots, End(i) PROVE \A m \in Names : Pending(m)' \subseteq Pending(m)
    BY <2>2 DEF Pending, At, Idle, End, TypeOK
  <2>3. QED
    BY <2>1, <2>2
<1>2. /\ \A m \in Names : fate[m] # "unborn" => fate'[m] # "unborn"
      /\ \A m \in Names \ {n} : fate'[m] = fate[m]
  BY DEF RemoveVM, TypeOK
<1>3. ColdTasks'
  <2>1. \A j \in Slots : task'[j] = task[j] \/ task'[j] = None
    BY DEF End, TypeOK
  <2>2. \A j \in Slots : ~Idle(j) => task[j].vm \in Names
    BY TaskFields DEF Tasks
  <2>3. QED
    BY <1>2, <2>1, <2>2 DEF ColdTasks, Idle, MigrationInv
<1>4. CASE UNCHANGED <<domain, disk, fate>>
  BY <1>1, <1>3, <1>4, AsideInv DEF DisksStay
<1>5. CASE /\ domain' = [domain EXCEPT ![h][n] = None]
           /\ fate' = [fate EXCEPT ![n] = "deleted"]
           /\ disk' = disk \/ disk' = [disk EXCEPT ![domain[h][n]][n] = "absent"]
  <2>1. fate'[n] = "deleted"
    BY <1>5 DEF TypeOK
  <2>2. \A g \in Hosts, m \in Names \ {n} : domain'[g][m] = domain[g][m]
    BY <1>5 DEF TypeOK
  <2>3. \A m \in Names \ {n} : Homes(m)' = Homes(m)
    BY <2>2 DEF Homes, DefinedOn
  <2>4. \A s \in Shares, m \in Names \ {n} : disk'[s][m] = disk[s][m]
    BY <1>5 DEF TypeOK
  <2>5. Unborn'
    BY <1>1, <1>2, <2>1, <2>3 DEF MigrationInv, Unborn
  <2>6. DisksKept'
    <3> SUFFICES ASSUME NEW m \in Names \ {n}, fate[m] = "kept",
                        NEW g \in Homes(m)
                 PROVE  disk'[domain'[g][m]][m] \in Image
      BY <1>2, <2>1, <2>3 DEF DisksKept
    <3>1. disk[domain[g][m]][m] \in Image
      BY DEF MigrationInv, DisksKept
    <3>2. domain[g][m] \in Shares /\ domain'[g][m] = domain[g][m]
      BY <2>2 DEF Homes, DefinedOn, TypeOK
    <3>3. QED
      BY <2>4, <3>1, <3>2
  <2>7. Counted'
    <3> SUFFICES ASSUME NEW m \in Names \ {n}, fate[m] = "kept"
                 PROVE  Cardinality(Pending(m)') < Cardinality(Homes(m)')
      BY <1>2, <2>1 DEF Counted
    <3>1. QED
      BY <1>1, <2>3, FewerPending DEF MigrationInv
  <2>8. QED
    BY <1>3, <2>5, <2>6, <2>7 DEF MigrationInv
<1>6. QED
  BY <1>4, <1>5 DEF RemoveVM

(* The only step that adds a migration about to undefine a machine adds a  *)
(* definition of it.                                                       *)
LEMMA DefineInv ==
    ASSUME TypeOK, MigrationInv, NEW i \in Slots, DefineMachine(i)
    PROVE  MigrationInv'
<1>a. ~Idle(i) /\ task[i] \in Tasks
  BY TaskFields DEF DefineMachine, At
<1>b. PICK k \in Tasks : k = task[i]
  BY <1>a
<1>c. PICK n \in Names : n = k.new
  BY DEF Tasks
<1>0. /\ ~Idle(i) /\ k = task[i] /\ k \in Tasks /\ n = k.new
      /\ k.to \in Hosts /\ k.dst \in Shares /\ k.vm \in Names
      /\ k.dst # None /\ "whole" \in Folder /\ "whole" \in Image
  BY <1>a, <1>b, <1>c, NoneAssumption DEF Tasks, Folder, Image
<1>1. /\ ~DefinedOn(k.to, n)
      /\ \/ disk[k.dst][n] \in Image /\ disk' = disk
         \/ disk' = [disk EXCEPT ![k.dst][n] = "whole"]
      /\ domain' = [domain EXCEPT ![k.to][n] = k.dst]
      /\ fate' = [fate EXCEPT ![n] = IF @ = "unborn" THEN "kept" ELSE @]
      /\ \/ End(i)
         \/ k.kind = "cold" /\ Goto(i, "undefine")
         \/ k.kind # "cold" /\ Goto(i, "delete")
  BY <1>0 DEF DefineMachine, HasDisk, NextStep
<1>2. /\ \A m \in Names \ {n} : fate'[m] = fate[m]
      /\ fate'[n] # "unborn"
      /\ fate'[n] = "kept" => fate[n] \in {"unborn", "kept"}
  BY <1>0, <1>1 DEF TypeOK, Fates
<1>3. /\ \A j \in Slots \ {i} : task'[j] = task[j]
      /\ ~Idle(i)' => /\ task'[i].kind = k.kind /\ task'[i].new = n
                      /\ task'[i].vm = k.vm
                      /\ task'[i].step = "undefine" => k.kind = "cold"
  <2>1. CASE End(i)
    BY <2>1 DEF End, Idle, TypeOK
  <2>2. ASSUME NEW st \in {"undefine", "delete"}, Goto(i, st)
        PROVE  /\ \A j \in Slots \ {i} : task'[j] = task[j]
               /\ task'[i].kind = k.kind /\ task'[i].new = n
               /\ task'[i].vm = k.vm /\ task'[i].step = st
    BY <1>0, <2>2 DEF Goto, TypeOK, Tasks
  <2>3. QED
    BY <1>1, <2>1, <2>2
<1>4. k.kind = "cold" => k.vm = n /\ fate[n] # "unborn"
  BY <1>0 DEF MigrationInv, ColdTasks
<1>5. ColdTasks'
  <2>1. \A j \in Slots : ~Idle(j) => task[j].vm \in Names
    BY TaskFields DEF Tasks
  <2>2. \A m \in Names : fate[m] # "unborn" => fate'[m] # "unborn"
    BY <1>2
  <2>3. ASSUME NEW j \in Slots, ~Idle(j)', task'[j].kind = "cold"
        PROVE  task'[j].new = task'[j].vm /\ fate'[task'[j].vm] # "unborn"
    <3>1. CASE j = i
      BY <1>0, <1>2, <1>3, <1>4, <2>3, <3>1
    <3>2. CASE j # i
      <4>1. task'[j] = task[j] /\ ~Idle(j)
        BY <1>3, <2>3, <3>2 DEF Idle
      <4>2. QED
        BY <2>1, <2>2, <2>3, <4>1 DEF MigrationInv, ColdTasks
    <3>3. QED
      BY <3>1, <3>2
  <2>4. QED
    BY <2>3 DEF ColdTasks
<1>6. /\ \A m \in Names \ {n} : Pending(m)' \subseteq Pending(m)
      /\ Pending(n)' \subseteq Pending(n) \cup {i}
      /\ k.kind # "cold" => Pending(n)' \subseteq Pending(n)
  <2>1. ASSUME NEW m \in Names, NEW j \in Pending(m)'
        PROVE  j \in Pending(m) \/ (j = i /\ k.kind = "cold" /\ m = n)
    <3>1. j \in Slots /\ ~Idle(j)' /\ task'[j].step = "undefine" /\ task'[j].vm = m
      BY DEF Pending, At
    <3>2. CASE j = i
      BY <1>0, <1>3, <1>4, <3>1, <3>2
    <3>3. CASE j # i
      BY <1>3, <3>1, <3>3 DEF Pending, At, Idle
    <3>4. QED
      BY <3>2, <3>3
  <2>2. QED
    BY <1>0, <2>1
<1>7. \A h \in Hosts, m \in Names :
        domain'[h][m] = IF h = k.to /\ m = n THEN k.dst ELSE domain[h][m]
  BY <1>0, <1>1 DEF TypeOK
<1>8. /\ \A m \in Names \ {n} : Homes(m)' = Homes(m)
      /\ Homes(n)' = Homes(n) \cup {k.to} /\ k.to \notin Homes(n)
  <2>1. QED
    BY <1>0, <1>1, <1>7 DEF Homes, DefinedOn
<1>9. /\ DisksStay
      /\ disk'[k.dst][n] \in Image
  <2>1. CASE disk[k.dst][n] \in Image /\ disk' = disk
    BY <2>1 DEF DisksStay
  <2>2. CASE disk' = [disk EXCEPT ![k.dst][n] = "whole"]
    <3>1. \A t \in Shares, m \in Names : disk'[t][m] =
            IF t = k.dst /\ m = n THEN "whole" ELSE disk[t][m]
      BY <1>0, <2>2, DiskType
    <3>2. QED
      BY <1>0, <3>1 DEF DisksStay
  <2>3. QED
    BY <1>1, <2>1, <2>2
<1>10. Unborn'
  BY <1>2, <1>6, <1>8 DEF MigrationInv, Unborn
<1>11. DisksKept'
  <2> SUFFICES ASSUME NEW m \in Names, fate'[m] = "kept", NEW h \in Homes(m)'
               PROVE  disk'[domain'[h][m]][m] \in Image
    BY DEF DisksKept
  <2>1. CASE h = k.to /\ m = n
    BY <1>0, <1>7, <1>9, <2>1
  <2>2. CASE ~(h = k.to /\ m = n)
    <3>1. h \in Homes(m) /\ domain'[h][m] = domain[h][m] /\ domain[h][m] \in Shares
      BY <1>7, <1>8, <2>2 DEF Homes, DefinedOn, TypeOK
    <3>2. fate[m] = "kept"
      BY <1>2, <3>1 DEF MigrationInv, Unborn
    <3>3. disk[domain[h][m]][m] \in Image
      BY <3>1, <3>2 DEF MigrationInv, DisksKept
    <3>4. QED
      BY <1>9, <3>1, <3>3 DEF DisksStay
  <2>3. QED
    BY <2>1, <2>2
<1>12. Counted'
  <2> SUFFICES ASSUME NEW m \in Names, fate'[m] = "kept"
               PROVE  Cardinality(Pending(m)') < Cardinality(Homes(m)')
    BY DEF Counted
  <2>1. CASE m # n
    BY <1>2, <1>6, <1>8, <2>1, FewerPending DEF MigrationInv
  <2>2. CASE m = n
    <3>1. Cardinality(Homes(n)') = Cardinality(Homes(n)) + 1
      BY <1>8, CountsAreNumbers, OneMore
    <3>2. CASE fate[n] = "unborn"
      <4>1. Pending(n)' = {} /\ Homes(n) = {}
        BY <1>0, <1>4, <1>6, <3>2 DEF MigrationInv, Unborn
      <4>2. Cardinality(Pending(n)') = 0 /\ Cardinality(Homes(n)) = 0
        BY <4>1, FS_EmptySet
      <4>3. QED
        BY <2>2, <3>1, <4>2
    <3>3. CASE fate[n] = "kept"
      <4>1. Cardinality(Pending(n)) < Cardinality(Homes(n))
        BY <1>0, <3>3 DEF MigrationInv, Counted
      <4>2. /\ IsFiniteSet(Pending(n) \cup {i})
            /\ Cardinality(Pending(n) \cup {i}) <= Cardinality(Pending(n)) + 1
            /\ Cardinality(Pending(n) \cup {i}) \in Nat
        BY CountsAreNumbers, OneMore
      <4>3. /\ Cardinality(Pending(n)') <= Cardinality(Pending(n) \cup {i})
            /\ Cardinality(Pending(n)') \in Nat
        BY <1>6, <4>2, FS_Subset, FS_CardinalityType
      <4>4. QED
        BY <1>0, <2>2, <3>1, <4>1, <4>2, <4>3, CountsAreNumbers
    <3>4. QED
      BY <1>2, <2>2, <3>2, <3>3
  <2>3. QED
    BY <2>1, <2>2
<1>13. QED
  BY <1>5, <1>10, <1>11, <1>12 DEF MigrationInv

(* A migration takes away one definition and itself.                       *)
LEMMA UndefineInv ==
    ASSUME TypeOK, MigrationInv, NEW i \in Slots, UndefineOrigin(i)
    PROVE  MigrationInv'
<1>a. ~Idle(i) /\ task[i].vm \in Names /\ task[i].from \in Hosts
  BY TaskFields DEF UndefineOrigin, At, Tasks
<1>b. PICK n \in Names, a \in Hosts : n = task[i].vm /\ a = task[i].from
  BY <1>a
<1>0. /\ ~Idle(i) /\ n = task[i].vm /\ task[i].step = "undefine"
      /\ End(i) /\ UNCHANGED <<disk, fate>> /\ DefinedOn(a, n)
      /\ domain' = domain \/ domain' = [domain EXCEPT ![a][n] = None]
  BY <1>b DEF UndefineOrigin, At
<1>1. ColdTasks' /\ \A m \in Names : Pending(m)' \subseteq Pending(m)
  BY <1>0, EndInv
<1>2. i \in Pending(n) /\ Pending(n)' \subseteq Pending(n) \ {i}
  <2>1. i \in Pending(n)
    BY <1>0 DEF Pending, At
  <2>2. Idle(i)'
    BY <1>0 DEF End, Idle, TypeOK
  <2>3. QED
    BY <1>0, <1>1, <2>1, <2>2 DEF Pending, At
<1>3. CASE domain' = domain
  BY <1>0, <1>1, <1>3, AsideInv DEF DisksStay
<1>4. CASE domain' = [domain EXCEPT ![a][n] = None]
  <2>1. \A h \in Hosts, m \in Names :
          domain'[h][m] = IF h = a /\ m = n THEN None ELSE domain[h][m]
    BY <1>0, <1>4 DEF TypeOK
  <2>2. /\ \A m \in Names \ {n} : Homes(m)' = Homes(m)
        /\ Homes(n)' = Homes(n) \ {a} /\ a \in Homes(n)
    BY <1>0, <2>1 DEF Homes, DefinedOn
  <2>3. Unborn'
    BY <1>0, <1>1, <2>2 DEF MigrationInv, Unborn
  <2>4. DisksKept'
    <3> SUFFICES ASSUME NEW m \in Names, fate[m] = "kept", NEW h \in Homes(m)'
                 PROVE  disk[domain'[h][m]][m] \in Image
      BY <1>0 DEF DisksKept
    <3>1. h \in Homes(m) /\ domain'[h][m] = domain[h][m]
      BY <2>1, <2>2 DEF Homes, DefinedOn
    <3>2. QED
      BY <3>1 DEF MigrationInv, DisksKept
  <2>5. Counted'
    <3> SUFFICES ASSUME NEW m \in Names, fate[m] = "kept"
                 PROVE  Cardinality(Pending(m)') < Cardinality(Homes(m)')
      BY <1>0 DEF Counted
    <3>1. CASE m # n
      BY <1>1, <2>2, <3>1, FewerPending DEF MigrationInv
    <3>2. CASE m = n
      <4>1. Cardinality(Pending(n)) < Cardinality(Homes(n))
        BY <1>0, <3>2 DEF MigrationInv, Counted
      <4>2. Cardinality(Homes(n)') = Cardinality(Homes(n)) - 1
        <5>1. IsFiniteSet(Homes(n)) /\ a \in Homes(n)
          BY <2>2, CountsAreNumbers
        <5>2. Cardinality(Homes(n) \ {a}) = Cardinality(Homes(n)) - 1
          BY <5>1, FS_RemoveElement
        <5>3. QED
          BY <2>2, <5>2
      <4>3. /\ IsFiniteSet(Pending(n) \ {i})
            /\ Cardinality(Pending(n) \ {i}) = Cardinality(Pending(n)) - 1
        BY <1>0, <1>2, CountsAreNumbers, FS_RemoveElement
      <4>4. /\ Cardinality(Pending(n)') <= Cardinality(Pending(n) \ {i})
            /\ Cardinality(Pending(n)') \in Nat
        BY <1>2, <4>3, FS_Subset, FS_CardinalityType
      <4>5. QED
        BY <1>0, <3>2, <4>1, <4>2, <4>3, <4>4, CountsAreNumbers
    <3>3. QED
      BY <3>1, <3>2
  <2>6. QED
    BY <1>1, <2>3, <2>4, <2>5 DEF MigrationInv
<1>5. QED
  BY <1>0, <1>3, <1>4

(* A live migration moves one definition.                                  *)
LEMMA LiveInv ==
    ASSUME TypeOK, MigrationInv, NEW i \in Slots, LiveMigrate(i)
    PROVE  MigrationInv'
<1>a. /\ task[i].vm \in Names
      /\ task[i].from \in Hosts /\ task[i].to \in Hosts
  BY TaskFields DEF LiveMigrate, At, Tasks
<1>b. PICK n \in Names, a \in Hosts, b \in Hosts :
        n = task[i].vm /\ a = task[i].from /\ b = task[i].to
  BY <1>a
<1>0. /\ End(i) /\ UNCHANGED <<disk, fate>>
      /\ <<a, n>> \in running /\ ~DefinedOn(b, n)
      /\ domain' = [domain EXCEPT ![a][n] = None, ![b][n] = domain[a][n]]
  BY <1>b DEF LiveMigrate, Runs, bounds
<1>1. ColdTasks' /\ \A m \in Names : Pending(m)' \subseteq Pending(m)
  BY <1>0, EndInv
<1>2. DefinedOn(a, n) /\ a # b
  <2>1. DefinedOn(<<a, n>>[1], <<a, n>>[2])
    BY <1>0 DEF TypeOK
  <2>2. QED
    BY <1>0, <2>1
<1>3. \A h \in Hosts, m \in Names : domain'[h][m] =
        IF m = n /\ h = a THEN None
        ELSE IF m = n /\ h = b THEN domain[a][n] ELSE domain[h][m]
  BY <1>0, <1>2 DEF TypeOK
<1>4. /\ \A m \in Names \ {n} : Homes(m)' = Homes(m)
      /\ Homes(n)' = (Homes(n) \ {a}) \cup {b}
      /\ a \in Homes(n) /\ b \notin Homes(n)
  <2>1. \A m \in Names \ {n}, h \in Hosts : DefinedOn(h, m)' <=> DefinedOn(h, m)
    BY <1>3 DEF DefinedOn
  <2>2. \A h \in Hosts : DefinedOn(h, n)' <=> h # a /\ (h = b \/ DefinedOn(h, n))
    BY <1>2, <1>3 DEF DefinedOn
  <2>3. QED
    BY <1>0, <1>2, <2>1, <2>2 DEF Homes
<1>5. Unborn'
  BY <1>0, <1>1, <1>4 DEF MigrationInv, Unborn
<1>6. DisksKept'
  <2> SUFFICES ASSUME NEW m \in Names, fate[m] = "kept", NEW h \in Homes(m)'
               PROVE  disk[domain'[h][m]][m] \in Image
    BY <1>0 DEF DisksKept
  <2>1. CASE m = n /\ h = b
    <3>1. domain'[h][m] = domain[a][n] /\ a \in Homes(n)
      BY <1>2, <1>3, <1>4, <2>1
    <3>2. QED
      BY <2>1, <3>1 DEF MigrationInv, DisksKept
  <2>2. CASE ~(m = n /\ h = b)
    <3>1. h \in Homes(m) /\ domain'[h][m] = domain[h][m]
      BY <1>3, <1>4, <2>2 DEF Homes, DefinedOn
    <3>2. QED
      BY <3>1 DEF MigrationInv, DisksKept
  <2>3. QED
    BY <2>1, <2>2
<1>7. Counted'
  <2> SUFFICES ASSUME NEW m \in Names, fate[m] = "kept"
               PROVE  Cardinality(Pending(m)') < Cardinality(Homes(m)')
    BY <1>0 DEF Counted
  <2>1. CASE m # n
    BY <1>1, <1>4, <2>1, FewerPending DEF MigrationInv
  <2>2. CASE m = n
    <3>1. /\ IsFiniteSet(Homes(n) \ {a})
          /\ Cardinality(Homes(n) \ {a}) = Cardinality(Homes(n)) - 1
      BY <1>0, <1>4, CountsAreNumbers, FS_RemoveElement
    <3>2. Cardinality(Homes(n)') = Cardinality(Homes(n))
      <4>1. b \notin Homes(n) \ {a}
        BY <1>4
      <4>2. Cardinality(Homes(n)') = Cardinality(Homes(n) \ {a}) + 1
        BY <1>4, <3>1, <4>1, OneMore
      <4>3. QED
        BY <3>1, <4>2, CountsAreNumbers
    <3>3. /\ Cardinality(Pending(n)') <= Cardinality(Pending(n))
          /\ Cardinality(Pending(n)') \in Nat
      BY <1>0, <1>1, CountsAreNumbers, FS_Subset, FS_CardinalityType
    <3>4. QED
      BY <1>0, <2>2, <3>2, <3>3, CountsAreNumbers DEF MigrationInv, Counted
  <2>3. QED
    BY <2>1, <2>2
<1>8. QED
  BY <1>1, <1>5, <1>6, <1>7 DEF MigrationInv

LEMMA InitInv == Init => MigrationInv
  BY DEF Init, MigrationInv, ColdTasks, Unborn, DisksKept, Counted, Homes,
         Pending, DefinedOn, At, Idle

LEMMA NextInv == TypeOK /\ MigrationInv /\ [Next]_vars => MigrationInv'
<1> SUFFICES ASSUME TypeOK, MigrationInv, [Next]_vars PROVE MigrationInv'
  OBVIOUS
<1>1. ASSUME UNCHANGED <<domain, disk, fate, task>> PROVE MigrationInv'
  <2>1. ColdTasks' /\ \A n \in Names : Pending(n)' \subseteq Pending(n)
    BY <1>1 DEF MigrationInv, ColdTasks, Pending, At, Idle
  <2>2. QED
    BY <1>1, <2>1, AsideInv DEF DisksStay
<1>2. CASE UNCHANGED vars
  BY <1>1, <1>2 DEF vars
<1>3. ASSUME NEW n \in Names, StartVM(n) \/ PowerOff(n) PROVE MigrationInv'
  BY <1>1, <1>3 DEF StartVM, PowerOff
<1>4. ASSUME NEW n \in Names, DeleteVM(n) PROVE MigrationInv'
  BY <1>4, RemoveInv DEF DeleteVM
<1>5. ASSUME NEW i \in Slots, DeleteMoved(i) PROVE MigrationInv'
  <2>1. task[i].vm \in Names /\ End(i)
    BY <1>5, TaskFields DEF DeleteMoved, At, Tasks
  <2>2. QED
    BY <1>5, <2>1, RemoveInv DEF DeleteMoved
<1>6. ASSUME NEW i \in Slots, TaskFails(i) PROVE MigrationInv'
  <2>1. End(i) /\ UNCHANGED <<domain, disk, fate>>
    BY <1>6 DEF TaskFails
  <2>2. QED
    BY <2>1, EndInv, AsideInv DEF DisksStay
<1>7. QED
  BY <1>2, <1>3, <1>4, <1>5, <1>6, RequestInv, CopyInv, DefineInv, UndefineInv,
     LiveInv DEF Next, Step, FreeSlots

LEMMA CountedIsSafe == TypeOK /\ MigrationInv => MigrationLosesNoMachine
<1> SUFFICES ASSUME TypeOK, MigrationInv, NEW n \in Names, fate[n] = "kept"
             PROVE  \E h \in Hosts : /\ DefinedOn(h, n)
                                     /\ disk[domain[h][n]][n] # "absent"
  BY DEF MigrationLosesNoMachine
<1>1. Cardinality(Homes(n)) # 0
  BY CountsAreNumbers DEF MigrationInv, Counted
<1>2. PICK h \in Homes(n) : TRUE
  BY <1>1, FS_EmptySet
<1>3. disk[domain[h][n]][n] \in Image
  BY DEF MigrationInv, DisksKept
<1>4. QED
  BY <1>3 DEF Homes, Image

(* However many migrations of a machine overlap, and wherever they fail,   *)
(* it stays defined somewhere, with its disk: migrations never take away   *)
(* more definitions than they added.                                       *)
THEOREM MigrationsLoseNoMachine == Spec => []MigrationLosesNoMachine
<1>1. Init => TypeOK /\ MigrationInv
  BY InitType, InitInv
<1>2. TypeOK /\ MigrationInv /\ [Next]_vars => (TypeOK /\ MigrationInv)'
  BY NextType, NextInv
<1>3. QED
  BY <1>1, <1>2, CountedIsSafe, PTL DEF Spec

-----------------------------------------------------------------------------
(* What a copy wrote.                                                      *)

CopyKinds == {"move", "clone"}

CopySteps ==
    \A i \in Slots : ~Idle(i) =>
        /\ task[i].step \in {"mkdir", "open", "copy"} => task[i].kind \in CopyKinds
        /\ task[i].step = "delete" => task[i].kind = "move"

(* The task has opened its copy, and no other has opened the same since.   *)
Holds(i) ==
    /\ ~Idle(i) /\ task[i].kind \in CopyKinds
    /\ task[i].step \in {"copy", "define", "delete"} /\ task[i].sole

SameDisk(i, j) == task[j].dst = task[i].dst /\ task[j].new = task[i].new

(* Nobody else is writing to it.                                           *)
Alone(i) == \A j \in Slots \ {i} : At(j, "copy") => ~SameDisk(i, j)

(* From the moment it is opened the new file is there, and from the end of *)
(* the copy on it holds what was read, unless its machine was deleted.     *)
Copied(i) ==
    fate[task[i].new] # "deleted" =>
        /\ At(i, "copy") => disk[task[i].dst][task[i].new] \in Image
        /\ At(i, "define") \/ At(i, "delete") =>
                disk[task[i].dst][task[i].new] = task[i].image

MoveInv == CopySteps /\ \A i \in Slots : Holds(i) => Alone(i) /\ Copied(i)

(* A task that stays as it was, or is told that it is not alone.           *)
Stays(j) ==
    \/ task'[j] = task[j]
    \/ /\ ~Idle(j) /\ ~Idle(j)'
       /\ task'[j].kind = task[j].kind /\ task'[j].step = task[j].step
       /\ task'[j].new = task[j].new /\ task'[j].dst = task[j].dst
       /\ task'[j].image = task[j].image
       /\ task'[j].sole => task[j].sole

(* The image a task holds is not touched.                                  *)
ImageStays(i) ==
    fate'[task[i].new] # "deleted" =>
        /\ fate[task[i].new] # "deleted"
        /\ disk[task[i].dst][task[i].new] \in Image =>
            disk'[task[i].dst][task[i].new] = disk[task[i].dst][task[i].new]

LEMMA HoldsOn ==
    ASSUME TypeOK, MoveInv, NEW i \in Slots, Stays(i), Holds(i)',
           Holds(i) => ImageStays(i)
    PROVE  Holds(i) /\ Copied(i)'
<1>1. Holds(i) /\ \A st : At(i, st)' <=> At(i, st)
  BY DEF Stays, Holds, At, Idle
<1>2. /\ Copied(i) /\ ImageStays(i) /\ task[i] \in Tasks
      /\ task'[i].new = task[i].new /\ task'[i].dst = task[i].dst
      /\ task'[i].image = task[i].image
  BY <1>1, TaskFields DEF MoveInv, Holds, Stays
<1>3. PICK image \in Image : image = task[i].image
  BY <1>2 DEF Tasks
<1>4. QED
  BY <1>1, <1>2, <1>3 DEF Copied, ImageStays

(* A step that no copy takes but to end.                                   *)
LEMMA MoveAside ==
    ASSUME TypeOK, MoveInv, \A j \in Slots : Holds(j) => ImageStays(j),
           \A j \in Slots : \/ task'[j] = task[j] \/ task'[j] = None
                            \/ /\ task'[j].kind \notin CopyKinds
                               /\ task'[j].step \in {"define", "undefine", "migrate"}
                            \/ task'[j].kind \in CopyKinds /\ task'[j].step = "mkdir"
    PROVE  MoveInv'
<1>1. CopySteps'
  BY DEF MoveInv, CopySteps, Idle
<1>2. ASSUME NEW i \in Slots, Holds(i)' PROVE Copied(i)' /\ Alone(i)'
  <2>1. task'[i] = task[i]
    BY <1>2 DEF Holds, Idle
  <2>2. Holds(i) /\ Copied(i)'
    BY <1>2, <2>1, HoldsOn DEF Stays
  <2>3. \A j \in Slots : At(j, "copy")' => task'[j] = task[j] /\ At(j, "copy")
    <3>1. ASSUME NEW j \in Slots, At(j, "copy")'
          PROVE  task'[j] = task[j] /\ At(j, "copy")
      <4>1. task'[j] = task[j]
        BY <3>1 DEF At, Idle
      <4>2. QED
        BY <3>1, <4>1 DEF At, Idle
    <3>2. QED
      BY <3>1
  <2>4. QED
    BY <2>1, <2>2, <2>3 DEF MoveInv, Alone, SameDisk
<1>3. QED
  BY <1>1, <1>2 DEF MoveInv

LEMMA MoveBegin ==
    ASSUME TypeOK, MoveInv, NEW i \in Slots,
           NEW kind, NEW vm, NEW new, NEW from, NEW to, NEW src, NEW dst, NEW st,
           Begin(i, kind, vm, new, from, to, src, dst, st),
           \/ kind \notin CopyKinds /\ st \in {"define", "migrate"}
           \/ kind \in CopyKinds /\ st = "mkdir"
    PROVE  MoveInv'
<1> DEFINE k == [kind |-> kind, vm |-> vm, new |-> new, from |-> from,
                  to |-> to, src |-> src, dst |-> dst, image |-> "whole",
                  sole |-> TRUE, step |-> st]
<1>1. k.kind = kind /\ k.step = st
  OBVIOUS
<1>2. task' = [task EXCEPT ![i] = k] /\ UNCHANGED <<fate, disk>>
  BY DEF Begin
<1> HIDE DEF k
<1>3. task'[i] = k /\ \A j \in Slots \ {i} : task'[j] = task[j]
  BY <1>2 DEF TypeOK
<1>4. \A j \in Slots : ImageStays(j)
  BY <1>2 DEF ImageStays
<1>5. QED
  BY <1>1, <1>3, <1>4, MoveAside

LEMMA MoveRequest ==
    ASSUME TypeOK, MoveInv, NEW i \in Slots, NEW n \in Names, Request(i, n)
    PROVE  MoveInv'
<1>1. ASSUME NEW h \in Hosts, NEW s \in Shares, CreateVM(i, n, h, s) PROVE MoveInv'
  BY <1>1, MoveBegin DEF CreateVM, CopyKinds
<1>2. ASSUME NEW d \in Hosts, ColdMigrate(i, n, d) PROVE MoveInv'
  BY <1>2, MoveBegin DEF ColdMigrate, CopyKinds
<1>3. ASSUME NEW d \in Hosts, MigrateVm(i, n, d) PROVE MoveInv'
  BY <1>3, MoveBegin DEF MigrateVm, CopyKinds
<1>4. ASSUME NEW new \in Names, NEW d \in Hosts, NEW s \in Shares,
             CloneVM(i, n, new, d, s)
      PROVE  MoveInv'
  BY <1>4, MoveBegin DEF CloneVM, CopyKinds
<1>5. ASSUME NEW new \in Names, NEW s \in Shares, MoveDisk(i, n, new, s)
      PROVE  MoveInv'
  BY <1>5, MoveBegin DEF MoveDisk, CopyKinds
<1>6. QED
  BY <1>1, <1>2, <1>3, <1>4, <1>5 DEF Request

(* A step of the copy itself: what it writes is its own, and no other that *)
(* holds an image holds that one.                                          *)
LEMMA CopyStep ==
    ASSUME TypeOK, MoveInv, NEW i \in Slots, ~Idle(i), task[i].kind \in CopyKinds,
           \/ task'[i].step \in {"open", "copy", "define"}
           \/ task'[i].step = "delete" /\ task'[i].kind = "move",
           task'[i].kind = task[i].kind, ~Idle(i)',
           task'[i].new = task[i].new, task'[i].dst = task[i].dst,
           \A j \in Slots \ {i} : Stays(j),
           \A j \in Slots \ {i} : Holds(j) /\ Holds(j)' =>
                /\ ImageStays(j)
                /\ At(i, "copy")' => ~SameDisk(j, i),
           Holds(i)' => Copied(i)' /\ Alone(i)'
    PROVE  MoveInv'
<1>1. CopySteps'
  BY DEF MoveInv, CopySteps, Stays, Idle, CopyKinds
<1>2. ASSUME NEW j \in Slots \ {i}, Holds(j)' PROVE Copied(j)' /\ Alone(j)'
  <2>1. Holds(j)
    BY <1>2 DEF Stays, Holds, Idle
  <2>2. Copied(j)'
    BY <1>2, <2>1, HoldsOn
  <2>3. task'[j].new = task[j].new /\ task'[j].dst = task[j].dst
    BY <1>2 DEF Stays
  <2>4. ASSUME NEW l \in Slots \ {j}, At(l, "copy")' PROVE ~SameDisk(j, l)'
    <3>1. CASE l = i
      BY <1>2, <2>1, <2>3, <2>4, <3>1 DEF SameDisk
    <3>2. CASE l # i
      <4>1. /\ At(l, "copy") /\ task'[l].new = task[l].new
            /\ task'[l].dst = task[l].dst
        BY <2>4, <3>2 DEF Stays, At, Idle
      <4>2. QED
        BY <2>1, <2>3, <2>4, <4>1 DEF MoveInv, Alone, SameDisk
    <3>3. QED
      BY <3>1, <3>2
  <2>5. QED
    BY <2>2, <2>4 DEF Alone
<1>3. QED
  BY <1>1, <1>2 DEF MoveInv

LEMMA GotoStays ==
    ASSUME TypeOK, NEW i \in Slots, ~Idle(i),
           NEW st \in {"mkdir", "open", "copy", "define", "undefine", "delete"},
           Goto(i, st)
    PROVE  /\ \A j \in Slots \ {i} : task'[j] = task[j] /\ Stays(j)
           /\ ~Idle(i)' /\ task'[i].step = st /\ task'[i].kind = task[i].kind
           /\ task'[i].new = task[i].new /\ task'[i].dst = task[i].dst
           /\ task'[i].image = task[i].image /\ task'[i].sole = task[i].sole
<1> DEFINE k == [task[i] EXCEPT !.step = st]
<1>1. task[i] \in Tasks
  BY TaskFields
<1>2. /\ k.step = st /\ k.kind = task[i].kind /\ k.new = task[i].new
      /\ k.dst = task[i].dst /\ k.image = task[i].image /\ k.sole = task[i].sole
      /\ k # None
  BY <1>1, TaskAssumption DEF Tasks
<1>3. task' = [task EXCEPT ![i] = k]
  BY DEF Goto
<1> HIDE DEF k
<1>4. QED
  BY <1>2, <1>3 DEF TypeOK, Stays, Idle

LEMMA MoveCopy ==
    ASSUME TypeOK, MoveInv, NEW i \in Slots,
           MakeFolder(i) \/ OpenCopy(i) \/ FinishCopy(i)
    PROVE  MoveInv'
<1>0. /\ ~Idle(i) /\ task[i] \in Tasks /\ task[i].kind \in CopyKinds
      /\ task[i].dst \in Shares /\ task[i].new \in Names /\ task[i].image \in Image
      /\ "partial" \in Image /\ "absent" \notin Image /\ "empty" \in Folder
      /\ Image \subseteq Folder /\ UNCHANGED fate
      /\ \A j \in Slots : Holds(j) =>
            task[j] \in Tasks /\ task[j].dst \in Shares /\ task[j].new \in Names
  BY TaskFields
  DEF MakeFolder, OpenCopy, FinishCopy, At, Tasks, Folder, Image, MoveInv, CopySteps,
      Holds
<1>1. ASSUME NEW f \in Folder, NEW j \in Slots, Holds(j),
             \/ disk' = disk
             \/ /\ disk' = [disk EXCEPT ![task[i].dst][task[i].new] = f]
                /\ ~SameDisk(j, i) \/ disk[task[i].dst][task[i].new] = "absent"
      PROVE  ImageStays(j)
  <2>1. CASE disk' = disk
    BY <1>0, <2>1 DEF ImageStays
  <2>2. CASE disk' = [disk EXCEPT ![task[i].dst][task[i].new] = f]
    <3>0. task[i].dst \in Shares /\ task[i].new \in Names
      BY <1>0
    <3>1. \A t \in Shares, m \in Names : disk'[t][m] =
            IF t = task[i].dst /\ m = task[i].new THEN f ELSE disk[t][m]
      BY <2>2, <3>0, DiskType
    <3>2. QED
      BY <1>0, <1>1, <3>1 DEF ImageStays, SameDisk
  <2>3. QED
    BY <1>1, <2>1, <2>2
<1>2. CASE MakeFolder(i)
  <2>1. Goto(i, "open") /\ \/ disk' = disk
                           \/ /\ disk' = [disk EXCEPT ![task[i].dst][task[i].new] = "empty"]
                              /\ disk[task[i].dst][task[i].new] = "absent"
    BY <1>2 DEF MakeFolder, FolderIsFree
  <2>2. \A j \in Slots : Holds(j) => ImageStays(j)
    BY <1>0, <1>1, <2>1
  <2>3. task'[i].step = "open" /\ ~Holds(i)' /\ ~At(i, "copy")'
    BY <1>0, <2>1, GotoStays DEF Holds, At
  <2>4. QED
    BY <1>0, <2>1, <2>2, <2>3, GotoStays, CopyStep
<1>3. CASE OpenCopy(i)
  <2>1. disk' = [disk EXCEPT ![task[i].dst][task[i].new] = "partial"]
    BY <1>3 DEF OpenCopy
  <2>2. \A j \in Slots \ {i} : Stays(j)
    BY <1>3, OpenedTasks DEF Stays, Idle
  <2>3. ASSUME NEW j \in Slots \ {i}, Holds(j), Holds(j)'
        PROVE  ImageStays(j) /\ ~SameDisk(j, i)
    <3>1. ~SameDisk(j, i)
      BY <1>3, <2>3, OpenedTasks DEF Holds, SameDisk
    <3>2. QED
      BY <1>0, <1>1, <2>1, <2>3, <3>1
  <2>4. Alone(i)'
    <3>1. \A j \in Slots : ~At(j, "copy")
      BY <1>3 DEF OpenCopy
    <3>2. \A j \in Slots \ {i} : ~At(j, "copy")'
      BY <2>2, <3>1 DEF Stays, At, Idle
    <3>3. QED
      BY <3>2 DEF Alone
  <2>5. Copied(i)'
    <3>1. disk'[task[i].dst][task[i].new] \in Image
      BY <1>0, <2>1 DEF TypeOK
    <3>2. QED
      BY <1>3, <3>1, OpenedTasks DEF Copied, At
  <2>6. QED
    BY <1>0, <1>3, <2>2, <2>3, <2>4, <2>5, OpenedTasks, CopyStep
<1>4. CASE FinishCopy(i)
  <2>1. /\ At(i, "copy") /\ Goto(i, "define")
        /\ disk' = IF disk[task[i].dst][task[i].new] \in Image
                   THEN [disk EXCEPT ![task[i].dst][task[i].new] = task[i].image]
                   ELSE disk
    BY <1>4 DEF FinishCopy
  <2>2. ASSUME NEW j \in Slots \ {i}, Holds(j) PROVE ImageStays(j)
    <3>1. ~SameDisk(j, i)
      BY <2>1, <2>2 DEF MoveInv, Alone
    <3>2. QED
      BY <1>0, <1>1, <2>1, <2>2, <3>1
  <2>3. task'[i].step = "define" /\ ~At(i, "copy")'
    BY <1>0, <2>1, GotoStays DEF At
  <2>4. ASSUME Holds(i)' PROVE Copied(i)' /\ Alone(i)'
    <3>1. Holds(i) /\ Copied(i) /\ Alone(i)
      BY <1>0, <2>1, <2>4, GotoStays DEF Holds, At, MoveInv
    <3>2. disk[task[i].dst][task[i].new] \in Image =>
            disk'[task[i].dst][task[i].new] = task[i].image
      BY <1>0, <2>1 DEF TypeOK
    <3>3. Copied(i)'
      BY <1>0, <2>1, <2>3, <3>1, <3>2, GotoStays DEF Copied, At
    <3>4. Alone(i)'
      BY <1>0, <2>1, <3>1, GotoStays DEF Alone, At, Idle, SameDisk
    <3>5. QED
      BY <3>3, <3>4
  <2>5. QED
    BY <1>0, <2>1, <2>2, <2>3, <2>4, GotoStays, CopyStep
<1>5. QED
  BY <1>2, <1>3, <1>4

(* Of a machine that is not deleted only disks that are no images change.  *)
ImagesStay ==
    \A s \in Shares, m \in Names : fate'[m] # "deleted" =>
        /\ fate[m] # "deleted"
        /\ disk[s][m] \in Image => disk'[s][m] = disk[s][m]

LEMMA HeldStay ==
    ASSUME TypeOK, ImagesStay, NEW i \in Slots, Holds(i)
    PROVE  ImageStays(i)
<1>1. task[i].dst \in Shares /\ task[i].new \in Names
  BY TaskFields DEF Holds, Tasks
<1>2. QED
  BY <1>1 DEF ImagesStay, ImageStays

LEMMA MoveDefine ==
    ASSUME TypeOK, MoveInv, NEW i \in Slots, DefineMachine(i)
    PROVE  MoveInv'
<1>a. ~Idle(i) /\ task[i] \in Tasks /\ task[i].step = "define" /\ At(i, "define")
  BY TaskFields DEF DefineMachine, At
<1>b. PICK k \in Tasks : k = task[i]
  BY <1>a
<1>c. PICK n \in Names, s \in Shares : n = k.new /\ s = k.dst
  BY DEF Tasks
<1>1. /\ \/ disk' = disk /\ disk[s][n] \in Image
         \/ /\ k.kind = "create" /\ disk[s][n] \notin Image
            /\ disk' = [disk EXCEPT ![s][n] = "whole"]
      /\ fate' = [fate EXCEPT ![n] = IF @ = "unborn" THEN "kept" ELSE @]
      /\ \/ End(i)
         \/ k.kind = "cold" /\ Goto(i, "undefine")
         \/ k.kind = "move" /\ Goto(i, "delete")
  BY <1>b, <1>c DEF DefineMachine, HasDisk, NextStep
<1>2. \A m \in Names : fate'[m] # "deleted" => fate[m] # "deleted"
  BY <1>1 DEF TypeOK
<1>3. \A j \in Slots : Holds(j) => ImageStays(j)
  <2>1. CASE disk' = disk
    BY <1>2, <2>1, HeldStay DEF ImagesStay
  <2>2. CASE disk' = [disk EXCEPT ![s][n] = "whole"] /\ disk[s][n] \notin Image
    <3>1. \A t \in Shares, m \in Names : t # s \/ m # n => disk'[t][m] = disk[t][m]
      BY <2>2 DEF TypeOK
    <3>2. QED
      BY <1>2, <2>2, <3>1, HeldStay DEF ImagesStay
  <2>3. QED
    BY <1>1, <2>1, <2>2
<1>4. CASE End(i)
  BY <1>3, <1>4, MoveAside DEF End, TypeOK
<1>5. CASE k.kind = "cold" /\ Goto(i, "undefine")
  BY <1>a, <1>b, <1>3, <1>5, GotoStays, MoveAside DEF CopyKinds
<1>6. CASE k.kind = "move" /\ Goto(i, "delete")
  <2>1. "move" \in CopyKinds /\ disk' = disk
    BY <1>1, <1>6 DEF CopyKinds
  <2>2. ~At(i, "copy")'
    BY <1>a, <1>6, GotoStays DEF At
  <2>3. ASSUME Holds(i)' PROVE Copied(i)' /\ Alone(i)'
    <3>1. Holds(i) /\ Copied(i) /\ Alone(i)
      BY <1>a, <1>6, <2>3, GotoStays DEF Holds, MoveInv
    <3>2. Copied(i)'
      BY <1>a, <1>b, <1>c, <1>2, <1>6, <2>1, <3>1, GotoStays DEF Copied, At
    <3>3. Alone(i)'
      BY <1>a, <1>6, <3>1, GotoStays DEF Alone, At, Idle, SameDisk
    <3>4. QED
      BY <3>2, <3>3
  <2>4. QED
    BY <1>a, <1>b, <1>3, <1>6, <2>1, <2>2, <2>3, GotoStays, CopyStep
<1>7. QED
  BY <1>1, <1>4, <1>5, <1>6

LEMMA MoveRemove ==
    ASSUME TypeOK, MoveInv, NEW h \in Hosts, NEW n \in Names,
           RemoveVM(h, n), task' = task \/ \E i \in Slots : End(i)
    PROVE  MoveInv'
<1>1. \A j \in Slots : task'[j] = task[j] \/ task'[j] = None
  BY DEF End, TypeOK
<1>2. \/ UNCHANGED <<disk, fate>>
      \/ /\ fate' = [fate EXCEPT ![n] = "deleted"]
         /\ disk' = disk \/ disk' = [disk EXCEPT ![domain[h][n]][n] = "absent"]
  BY DEF RemoveVM
<1>3. ImagesStay
  <2>1. CASE UNCHANGED <<disk, fate>>
    BY <2>1 DEF ImagesStay
  <2>2. CASE /\ fate' = [fate EXCEPT ![n] = "deleted"]
             /\ disk' = disk \/ disk' = [disk EXCEPT ![domain[h][n]][n] = "absent"]
    <3>1. fate'[n] = "deleted" /\ \A m \in Names \ {n} : fate'[m] = fate[m]
      BY <2>2 DEF TypeOK
    <3>2. \A s \in Shares, m \in Names \ {n} : disk'[s][m] = disk[s][m]
      BY <2>2 DEF TypeOK
    <3>3. QED
      BY <3>1, <3>2 DEF ImagesStay
  <2>3. QED
    BY <1>2, <2>1, <2>2
<1>4. QED
  BY <1>1, <1>3, HeldStay, MoveAside

LEMMA MoveNext ==
    ASSUME TypeOK, MoveInv, [Next]_vars
    PROVE  MoveInv'
<1>1. ASSUME UNCHANGED <<disk, fate>>, \A j \in Slots : task'[j] \in {task[j], None}
      PROVE  MoveInv'
  BY <1>1, HeldStay, MoveAside DEF ImagesStay
<1>2. CASE UNCHANGED vars
  BY <1>1, <1>2 DEF vars
<1>3. ASSUME NEW n \in Names, StartVM(n) \/ PowerOff(n) PROVE MoveInv'
  BY <1>1, <1>3 DEF StartVM, PowerOff
<1>4. ASSUME NEW n \in Names, DeleteVM(n) PROVE MoveInv'
  BY <1>4, MoveRemove DEF DeleteVM
<1>5. ASSUME NEW i \in Slots, DeleteMoved(i) PROVE MoveInv'
  <2>1. task[i].vm \in Names /\ End(i)
    BY <1>5, TaskFields DEF DeleteMoved, At, Tasks
  <2>2. QED
    BY <1>5, <2>1, MoveRemove DEF DeleteMoved
<1>6. ASSUME NEW i \in Slots, UndefineOrigin(i) \/ LiveMigrate(i) \/ TaskFails(i)
      PROVE  MoveInv'
  <2>1. End(i) /\ UNCHANGED <<disk, fate>>
    BY <1>6 DEF UndefineOrigin, LiveMigrate, TaskFails, bounds
  <2>2. QED
    BY <1>1, <2>1 DEF End, TypeOK
<1>7. QED
  BY <1>2, <1>3, <1>4, <1>5, <1>6, MoveRequest, MoveCopy, MoveDefine
  DEF Next, Step, FreeSlots

LEMMA MoveInit == Init => MoveInv
  BY DEF Init, MoveInv, CopySteps, Holds, Idle

LEMMA MovesAreSafe == TypeOK /\ MigrationInv /\ MoveInv => MovedBeforeDeleted
<1> SUFFICES ASSUME TypeOK, MigrationInv, MoveInv, NEW i \in Slots,
                    At(i, "delete"), fate[task[i].new] = "kept"
             PROVE  /\ task[i].sole => disk[task[i].dst][task[i].new] = task[i].image
                    /\ \E h \in Hosts : DefinedOn(h, task[i].new)
  BY DEF MovedBeforeDeleted
<1>1. ~Idle(i) /\ task[i].kind \in CopyKinds /\ task[i].new \in Names
  BY TaskFields DEF MoveInv, CopySteps, At, CopyKinds, Tasks
<1>2. task[i].sole => Copied(i)
  BY <1>1 DEF MoveInv, Holds, At
<1>3. \E h \in Hosts : DefinedOn(h, task[i].new)
  BY <1>1, CountedIsSafe DEF MigrationLosesNoMachine
<1>4. QED
  BY <1>2, <1>3 DEF Copied

(* A move never takes the old machine away before the new name is defined  *)
(* somewhere, and, unless another move or clone has opened the new disk    *)
(* since the move did, before that disk holds all that was read, however   *)
(* many copies, creations, migrations and deletions overlap with it.       *)
THEOREM MovesAreWhole == Spec => []MovedBeforeDeleted
<1>1. Init => TypeOK /\ MigrationInv /\ MoveInv
  BY InitType, InitInv, MoveInit
<1>2. TypeOK /\ MigrationInv /\ MoveInv /\ [Next]_vars =>
        (TypeOK /\ MigrationInv /\ MoveInv)'
  BY NextType, NextInv, MoveNext
<1>3. QED
  BY <1>1, <1>2, MovesAreSafe, PTL DEF Spec

=============================================================================

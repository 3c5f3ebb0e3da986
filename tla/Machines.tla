------------------------------ MODULE Machines ------------------------------
(***************************************************************************)
(* The life of virtual machines: master/services/virsh.go and what its     *)
(* calls do on the slaves (slave/virsh).  A machine is known by its name;  *)
(* the master keeps no record of where it is and asks the connected hosts  *)
(* each time.  Moving a machine to another host (ColdMigrate, MigrateVm)   *)
(* or to another NFS share (MoveDisk), and cloning it (CloneVM), check     *)
(* what they find at once and do the work in a background task, which goes *)
(* by what was found then.                                                 *)
(*                                                                         *)
(* The disk of machine n is the file n.qcow2 in folder n of an NFS share   *)
(* that every host mounts, so a definition of n is given by the share.     *)
(***************************************************************************)
EXTENDS Naturals, FiniteSets

CONSTANTS
    Hosts,     \* the machine names of the slaves
    Names,     \* the names virtual machines can have
    Shares,    \* the NFS shares
    Slots,     \* a slot for each task that can be in flight
    Created,   \* the names CreateVM is asked for
    MaxTasks,  \* bound on the tasks started in a behaviour
    MaxFaults, \* bound on the calls of slaves that fail half-way
    None       \* no definition, no task

ASSUME NoneAssumption == None \notin Shares
ASSUME FiniteAssumption == IsFiniteSet(Hosts) /\ IsFiniteSet(Slots)
ASSUME BoundsAssumption == MaxTasks \in Nat /\ MaxFaults \in Nat

VARIABLES
    domain,    \* domain[h][n]: the share n's definition on h names, or None
    running,   \* the pairs <<h, n>> such that h runs n
    disk,      \* disk[s][n]: what folder n of share s holds
    fate,      \* fate[n]: whether n was ever defined, or ever deleted
    task,      \* task[i]: the request that slot i works on
    started,   \* tasks started so far
    faults     \* calls that failed half-way so far

bounds == <<started, faults>>
vars == <<domain, running, disk, fate, task, bounds>>

Image == {"partial", "whole"}
Folder == Image \cup {"absent", "empty"}
Fates == {"unborn", "kept", "deleted"}

(* vm on host from with its disk on src becomes new on host to with its    *)
(* disk on dst; image is what the copy read.  sole is history: no other    *)
(* copy has opened that disk since the task opened it.                     *)
Tasks == [kind: {"create", "cold", "live", "move", "clone"},
          vm: Names, new: Names, from: Hosts, to: Hosts,
          src: Shares, dst: Shares, image: Image, sole: BOOLEAN,
          step: {"mkdir", "open", "copy", "define", "undefine", "delete",
                 "migrate"}]
ASSUME TaskAssumption == None \notin Tasks

Idle(i) == task[i] = None
At(i, step) == ~Idle(i) /\ task[i].step = step

Fault == faults < MaxFaults /\ faults' = faults + 1
NoFault == UNCHANGED faults

Goto(i, step) == task' = [task EXCEPT ![i].step = step]
End(i) == task' = [task EXCEPT ![i] = None]

DefinedOn(h, n) == domain[h][n] # None
Runs(h, n) == <<h, n>> \in running

(* What a call finds when the hosts in up answer.  An error of a host      *)
(* counts as "not here".                                                   *)
DoesVMExist(n, up) == \E h \in up : DefinedOn(h, n)
GetVmByName(n, up) == {h \in up : DefinedOn(h, n)}

(* qemu locks the images it opens: no two hosts run one disk.              *)
Locked(s, n) == \E h \in Hosts : Runs(h, n) /\ domain[h][n] = s

-----------------------------------------------------------------------------
(* Requests that are done at once                                          *)

(* The hosts that have the machine are tried until one starts it.          *)
StartVM(n) ==
    \E h \in Hosts :
        /\ DefinedOn(h, n)
        /\ ~Runs(h, n)
        /\ disk[domain[h][n]][n] \in Image
        /\ ~Locked(domain[h][n], n)
        /\ running' = running \cup {<<h, n>>}
        /\ UNCHANGED <<domain, disk, fate, task, bounds>>

(* ShutdownVM, ForceShutdownVM, or the guest itself.                       *)
PowerOff(n) ==
    \E h \in Hosts :
        /\ Runs(h, n)
        /\ running' = running \ {<<h, n>>}
        /\ UNCHANGED <<domain, disk, fate, task, bounds>>

(* RemoveVM on the slave: destroy, undefine, remove the disk's folder.  It *)
(* may fail after each.                                                    *)
RemoveVM(h, n) ==
    /\ DefinedOn(h, n)
    /\ running' = running \ {<<h, n>>}
    /\ \/ Fault /\ UNCHANGED <<domain, disk, fate>>
       \/ /\ domain' = [domain EXCEPT ![h][n] = None]
          /\ fate' = [fate EXCEPT ![n] = "deleted"]
          /\ \/ Fault /\ UNCHANGED disk
             \/ NoFault /\ disk' = [disk EXCEPT ![domain[h][n]][n] = "absent"]
    /\ UNCHANGED started

(* On the first host that has it.                                          *)
DeleteVM(n) == \E h \in Hosts : RemoveVM(h, n) /\ UNCHANGED task

-----------------------------------------------------------------------------
(* Requests that start a task                                              *)

(* (The set is empty at once when the bound is reached, which saves TLC    *)
(* most of its work.)                                                      *)
FreeSlots == IF started < MaxTasks THEN {i \in Slots : Idle(i)} ELSE {}

Begin(i, kind, vm, new, from, to, src, dst, step) ==
    /\ i \in FreeSlots
    /\ started' = started + 1
    /\ task' = [task EXCEPT ![i] =
                 [kind |-> kind, vm |-> vm, new |-> new, from |-> from,
                  to |-> to, src |-> src, dst |-> dst, image |-> "whole",
                  sole |-> TRUE, step |-> step]]
    /\ UNCHANGED <<domain, running, disk, fate, faults>>

(* The template, the network and the autostart row are left out.           *)
CreateVM(i, n, h, s) ==
    \E up \in SUBSET Hosts :
        /\ ~DoesVMExist(n, up)
        /\ Begin(i, "create", n, n, h, h, s, s, "define")

ColdMigrate(i, n, d) ==
    \E up \in SUBSET Hosts : \E h \in GetVmByName(n, up) :
        /\ ~Runs(h, n)
        /\ h # d
        /\ Begin(i, "cold", n, n, h, d, domain[h][n], domain[h][n], "define")

(* The row of vm_live that it asks for is left out.                        *)
MigrateVm(i, n, d) ==
    \E h \in Hosts :
        /\ DefinedOn(h, n)
        /\ h # d
        /\ Begin(i, "live", n, n, h, d, domain[h][n], domain[h][n], "migrate")

(* ImportVmHelper looks for the folder; that it makes it is a step of its  *)
(* own, MakeFolder.                                                        *)
FolderIsFree(s, n) == disk[s][n] = "absent"

MoveDisk(i, n, new, s) ==
    \E up \in SUBSET Hosts : \E h \in GetVmByName(n, up) :
        /\ new # n
        /\ ~DoesVMExist(new, up)
        /\ ~Runs(h, n)
        /\ s # domain[h][n]
        /\ FolderIsFree(s, new)
        /\ Begin(i, "move", n, new, h, h, domain[h][n], s, "mkdir")

CloneVM(i, n, new, d, s) ==
    \E up \in SUBSET Hosts : \E h \in GetVmByName(n, up) :
        /\ new # n
        /\ ~DoesVMExist(new, up)
        /\ FolderIsFree(s, new)
        /\ Begin(i, "clone", n, new, h, d, domain[h][n], s, "mkdir")

-----------------------------------------------------------------------------
(* The steps of a task                                                     *)

(* Bug: a definition that fails is only logged.                            *)
TaskFailsOnlyLogged(i) ==
    /\ ~Idle(i)
    /\ IF At(i, "define") /\ task[i].kind = "cold"
       THEN Goto(i, "undefine") ELSE End(i)
    /\ UNCHANGED <<domain, running, disk, fate, bounds>>

(* Bug: the error of copyFile is dropped.                                  *)
TaskFailsAfterCopy(i) ==
    /\ ~Idle(i)
    /\ IF At(i, "copy") THEN Goto(i, "define") ELSE End(i)
    /\ UNCHANGED <<domain, running, disk, fate, bounds>>

(* A call fails without effect, a slave is not connected, the time is up,  *)
(* or the master restarts.                                                 *)
TaskFails(i) ==
    /\ ~Idle(i)
    /\ End(i)
    /\ UNCHANGED <<domain, running, disk, fate, bounds>>

MakeFolder(i) ==
    /\ At(i, "mkdir")
    /\ LET k == task[i] IN
        disk' = IF FolderIsFree(k.dst, k.new)
                THEN [disk EXCEPT ![k.dst][k.new] = "empty"] ELSE disk
    /\ Goto(i, "open")
    /\ UNCHANGED <<domain, running, fate, bounds>>

(* The record of task j when task i opens the copy k.                      *)
Opened(j, i, k) ==
    IF j = i
    THEN [k EXCEPT !.image = disk[k.src][k.vm], !.sole = TRUE, !.step = "copy"]
    ELSE IF ~Idle(j) /\ task[j].dst = k.dst /\ task[j].new = k.new
    THEN [task[j] EXCEPT !.sole = FALSE] ELSE task[j]

(* copyFile with its slot: opens the one file, truncates the other.        *)
OpenCopy(i) ==
    /\ At(i, "open")
    /\ \A j \in Slots : ~At(j, "copy")
    /\ LET k == task[i] IN
        /\ disk[k.src][k.vm] \in Image
        /\ disk[k.dst][k.new] # "absent"
        /\ disk' = [disk EXCEPT ![k.dst][k.new] = "partial"]
        /\ task' = [j \in Slots |-> Opened(j, i, k)]
    /\ UNCHANGED <<domain, running, fate, bounds>>

(* A file removed meanwhile stays removed: the copy goes to its handle.    *)
FinishCopy(i) ==
    /\ At(i, "copy")
    /\ LET k == task[i] IN
        disk' = IF disk[k.dst][k.new] \in Image
                THEN [disk EXCEPT ![k.dst][k.new] = k.image] ELSE disk
    /\ Goto(i, "define")
    /\ UNCHANGED <<domain, running, fate, bounds>>

(* What follows ColdMigrateVm in the task.                                 *)
NextStep == [cold |-> "undefine", move |-> "delete"]

(* ColdMigrateVm gives the file to qemu before it calls the slave.         *)
HasDisk(k) == disk[k.dst][k.new] \in Image

(* CreateVMCustomCPU on the slave defines the machine and starts it.  It   *)
(* makes the disk for CreateVM alone; libvirt refuses a name it has.  If   *)
(* it cannot be started the call fails and the definition stays.           *)
DefineMachine(i) ==
    /\ At(i, "define")
    /\ LET k == task[i] IN
        /\ ~DefinedOn(k.to, k.new)
        /\ \/ HasDisk(k) /\ UNCHANGED disk
           \/ /\ k.kind = "create"
              /\ ~HasDisk(k)
              /\ disk' = [disk EXCEPT ![k.dst][k.new] = "whole"]
        /\ domain' = [domain EXCEPT ![k.to][k.new] = k.dst]
        /\ fate' = [fate EXCEPT ![k.new] = IF @ = "unborn" THEN "kept" ELSE @]
        /\ \/ /\ ~Locked(k.dst, k.new)
              /\ running' = running \cup {<<k.to, k.new>>}
              /\ IF k.kind \in DOMAIN NextStep
                 THEN Goto(i, NextStep[k.kind]) ELSE End(i)
              /\ NoFault
           \/ /\ (Locked(k.dst, k.new) /\ NoFault) \/ Fault
              /\ End(i)
              /\ UNCHANGED running
    /\ UNCHANGED started

(* Bug: the machine is undefined as it is.                                 *)
UndefineOriginRunning(i) ==
    /\ At(i, "undefine")
    /\ DefinedOn(task[i].from, task[i].vm)
    /\ domain' = [domain EXCEPT ![task[i].from][task[i].vm] = None]
    /\ End(i)
    /\ UNCHANGED <<running, disk, fate, bounds>>

(* UndefineVm on the origin: a machine that runs is destroyed first.       *)
UndefineOrigin(i) ==
    /\ At(i, "undefine")
    /\ LET k == task[i] IN
        /\ DefinedOn(k.from, k.vm)
        /\ running' = running \ {<<k.from, k.vm>>}
        /\ \/ NoFault /\ domain' = [domain EXCEPT ![k.from][k.vm] = None]
           \/ Fault /\ UNCHANGED domain
    /\ End(i)
    /\ UNCHANGED <<disk, fate, started>>

(* The DeleteVM at the end of MoveDisk: by name, wherever it is found.     *)
DeleteMoved(i) ==
    /\ At(i, "delete")
    /\ \E h \in Hosts : RemoveVM(h, task[i].vm)
    /\ End(i)

(* libvirt's migration with PERSIST_DEST and UNDEFINE_SOURCE.              *)
LiveMigrate(i) ==
    /\ At(i, "migrate")
    /\ LET k == task[i] IN
        /\ Runs(k.from, k.vm)
        /\ ~DefinedOn(k.to, k.vm)
        /\ domain' = [domain EXCEPT ![k.from][k.vm] = None,
                                    ![k.to][k.vm] = domain[k.from][k.vm]]
        /\ running' = (running \ {<<k.from, k.vm>>}) \cup {<<k.to, k.vm>>}
    /\ End(i)
    /\ UNCHANGED <<disk, fate, bounds>>

-----------------------------------------------------------------------------
Init ==
    /\ domain = [h \in Hosts |-> [n \in Names |-> None]]
    /\ running = {}
    /\ disk = [s \in Shares |-> [n \in Names |-> "absent"]]
    /\ fate = [n \in Names |-> "unborn"]
    /\ task = [i \in Slots |-> None]
    /\ started = 0
    /\ faults = 0

Step(i) ==
    \/ MakeFolder(i) \/ OpenCopy(i) \/ FinishCopy(i) \/ DefineMachine(i)
    \/ UndefineOrigin(i) \/ DeleteMoved(i) \/ LiveMigrate(i) \/ TaskFails(i)

Request(i, n) ==
    \/ \E h \in Hosts :
        \/ n \in Created /\ \E s \in Shares : CreateVM(i, n, h, s)
        \/ ColdMigrate(i, n, h)
        \/ MigrateVm(i, n, h)
        \/ \E new \in Names, s \in Shares : CloneVM(i, n, new, h, s)
    \/ \E new \in Names, s \in Shares : MoveDisk(i, n, new, s)

Next ==
    \/ \E n \in Names : StartVM(n) \/ PowerOff(n) \/ DeleteVM(n)
    \/ \E i \in FreeSlots, n \in Names : Request(i, n)
    \/ \E i \in Slots : Step(i)

Spec == Init /\ [][Next]_vars

-----------------------------------------------------------------------------
(* Properties                                                              *)

(* Types, and that only defined machines run.                              *)
TypeOK ==
    /\ domain \in [Hosts -> [Names -> Shares \cup {None}]]
    /\ running \subseteq {p \in Hosts \X Names : DefinedOn(p[1], p[2])}
    /\ disk \in [Shares -> [Names -> Folder]]
    /\ fate \in [Names -> Fates]
    /\ task \in [Slots -> Tasks \cup {None}]
    /\ started \in 0..MaxTasks
    /\ faults \in 0..MaxFaults

(* However migrations of a machine overlap, and wherever they fail, a      *)
(* machine that DeleteVM never removed is defined on some host with its    *)
(* disk there: ColdMigrate undefines only after it defined.                *)
MigrationLosesNoMachine ==
    \A n \in Names : fate[n] = "kept" =>
        \E h \in Hosts : DefinedOn(h, n) /\ disk[domain[h][n]][n] # "absent"

(* When MoveDisk comes to delete the machine it copied, the new name is    *)
(* defined, unless it was deleted meanwhile, and unless another copy has   *)
(* opened the new disk as well, that disk holds all that was copied.       *)
(* (Where it is defined is not claimed: a migration of another machine of  *)
(* that name, which an unreachable host hid from DoesVMExist, may undefine *)
(* the new one.)                                                           *)
MovedBeforeDeleted ==
    \A i \in Slots : At(i, "delete") /\ fate[task[i].new] = "kept" =>
        /\ task[i].sole => disk[task[i].dst][task[i].new] = task[i].image
        /\ \E h \in Hosts : DefinedOn(h, task[i].new)

(* virshBackups.go:180, "if folder exists return err else create it": the  *)
(* folder a move or a clone copies to is its own.  When MoveDisk comes to  *)
(* delete what it copied, no other copy has truncated the new disk.        *)
MovedDiskIsWhole ==
    \A i \in Slots : At(i, "delete") /\ fate[task[i].new] = "kept" =>
        disk[task[i].dst][task[i].new] = task[i].image

(* A migration takes away a machine only if it is powered off ("VM must be *)
(* powered off before migration"): the step of ColdMigrate or MoveDisk     *)
(* that removes the old definition destroys no machine that runs.          *)
MovesOnlyWhatIsOff ==
    [][\A i \in Slots : At(i, "undefine") \/ At(i, "delete") =>
         (task'[i] = None => running' = running)]_vars
=============================================================================

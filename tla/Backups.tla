------------------------------ MODULE Backups ------------------------------
(***************************************************************************)
(* Backups of virtual machines: master/services/virshBackups.go and        *)
(* master/db/virshBackups.go.  BackupVM and UseBackup answer at once and    *)
(* leave the copying to a background task; the tasks take turns for the    *)
(* one slot of copyFileSlots.  LoopAutomaticBaks starts the scheduled      *)
(* backups and prunes old ones, while requests delete backups and restore  *)
(* machines from them.  Neither the files nor the rows have a lock.        *)
(*                                                                         *)
(* Tasks are numbered in the order they start; the number also stands for  *)
(* the fresh directory of a backup.  Rows of virsh_backups are numbered in *)
(* the order of the inserts, which is the order of created_at.             *)
(***************************************************************************)
EXTENDS Naturals, Sequences, FiniteSets

CONSTANTS
    VMs,         \* the machines that are backed up
    Names,       \* the names of machines made from a backup
    Configs,     \* the ids of rows of automatic_backup
    Frequencies, \* the values of frequency_days
    Retains,     \* the values of max_backups_retain
    Deleters,    \* the goroutines of DeleteBackup requests
    Loop,        \* the goroutine of LoopAutomaticBaks
    MaxTasks,    \* bound on the tasks started in a behaviour
    MaxDays,     \* bound on the time that passes
    MaxBoots,    \* bound on the times a machine is switched on
    MaxFaults    \* bound on restarts, failed queries, removals and thaws

ASSUME LoopAssumption == Loop \notin Deleters
ASSUME ValuesAssumption ==
    Frequencies \subseteq Nat \ {0} /\ Retains \subseteq Nat \ {0}
ASSUME ConfigsAssumption == Configs \subseteq Nat /\ IsFiniteSet(Configs)
ASSUME BoundsAssumption ==
    {MaxTasks, MaxBoots, MaxFaults} \subseteq Nat /\ MaxDays \in Nat \ {0}

VARIABLES
    running,   \* the machines that are switched on
    boots,     \* boots[v]: how often v was switched on
    frozen,    \* frozen[v]: the task that froze v's file systems, 0 if none
    table,     \* every row ever inserted in virsh_backups, in order of id
    rows,      \* the ids of the rows that are still there
    file,      \* file[t]: the disk image in the directory of backup t
    disk,      \* disk[n]: the folder of new machine n and its disk image
    defined,   \* the new machines that are defined
    job,       \* job[t]: what task t was asked to do
    phase,     \* phase[t]: where task t stands
    auto,      \* auto[c]: row c of automatic_backup
    now,       \* the day
    lpc,       \* where LoopAutomaticBaks stands
    baks,      \* its copy of the rows it still has to process
    listed,    \* the ids it has listed for pruning, baksVm
    next,      \* the index of the one it looks at next
    stage,     \* where each DeleteBackup stands
    doomed,    \* the row each DeleteBackup has read, 0 if none
    faults     \* faults so far

store == <<table, rows, file>>
vms == <<running, boots, frozen>>
restored == <<disk, defined>>
tasks == <<job, phase>>
loop == <<lpc, baks, listed, next>>
deletes == <<stage, doomed>>
vars == <<running, boots, frozen, table, rows, file, disk, defined, job, phase,
          auto, now, lpc, baks, listed, next, stage, doomed, faults>>

Tasks == 1..MaxTasks
Image == {"none", "part", "full"}
Folder == Image \cup {"empty"}

(* A task that is lost has ended without a thaw of the guest it froze.     *)
Ended == {"done", "lost"}
Phase == {"none", "freeze", "mkdir", "wait", "copy", "insert", "define",
          "thaw"} \cup Ended
Callers == Deleters \cup {Loop}

(* live: the machine was on when BackupVM looked, so it is to be frozen    *)
(* for the copy; boot: its boot at that time.                              *)
NoJob == [kind |-> "none"]
BackupJobs == [kind: {"backup"}, vm: VMs, automatic: BOOLEAN, live: BOOLEAN,
               boot: Nat]
RestoreJobs == [kind: {"restore"}, source: Nat, name: Names]

NoAuto == [state |-> "unborn"]
AutoRows == [state: {"enabled", "disabled", "deleted"}, vm: VMs,
             freq: Frequencies, retain: Retains, last: Nat]

(* The numbers in S in ascending order.                                    *)
InOrder(S) ==
    CHOOSE s \in [1..Cardinality(S) -> S] :
        \A i, j \in 1..Cardinality(S) : i < j => s[i] < s[j]

Fresh(t) == job[t] = NoJob /\ \A u \in 1..(t - 1) : job[u] # NoJob
Goto(t, p) == phase' = [phase EXCEPT ![t] = p]

-----------------------------------------------------------------------------
(* BackupVM                                                                *)

(* The checks and the making of a directory under a fresh name.            *)
BackupVM(t, v, automatic) ==
    /\ Fresh(t)
    /\ job' = [job EXCEPT ![t] =
                [kind |-> "backup", vm |-> v, automatic |-> automatic,
                 live |-> v \in running, boot |-> boots[v]]]
    /\ Goto(t, IF v \in running THEN "freeze" ELSE "wait")

RequestBackup(t, v) ==
    /\ BackupVM(t, v, FALSE)
    /\ UNCHANGED <<vms, store, restored, auto, now, loop, deletes, faults>>

(* FreezeDisk: nothing to do for a machine that is off; the guest agent    *)
(* refuses to freeze what is frozen.                                       *)
Freeze(t) ==
    /\ phase[t] = "freeze"
    /\ frozen[job[t].vm] = 0
    /\ \/ /\ job[t].vm \in running
          /\ frozen' = [frozen EXCEPT ![job[t].vm] = t]
       \/ /\ job[t].vm \notin running
          /\ UNCHANGED frozen
    /\ Goto(t, "wait")
    /\ UNCHANGED <<running, boots, store, restored, job, auto, now, loop, deletes, faults>>

(* Bug: the thaw is deferred before the freeze is known to have worked.    *)
FreezeFailsThaws(t) ==
    /\ phase[t] = "freeze"
    /\ Goto(t, "thaw")
    /\ UNCHANGED <<vms, store, restored, job, auto, now, loop, deletes, faults>>

(* No connection to the slave, or FreezeDisk returns an error: the task is *)
(* over before the thaw is deferred.  The guest may be frozen all the      *)
(* same, when the reply was lost or the agent answered too late.           *)
FreezeFails(t) ==
    /\ phase[t] = "freeze"
    /\ \/ /\ Goto(t, "done")
          /\ UNCHANGED frozen
       \/ /\ frozen[job[t].vm] = 0 /\ job[t].vm \in running
          /\ frozen' = [frozen EXCEPT ![job[t].vm] = t]
          /\ Goto(t, "lost")
    /\ UNCHANGED <<running, boots, store, restored, job, auto, now, loop, deletes,
                   faults>>

(* What a backup's function runs last: the deferred thaw, if any.          *)
Ending(t) == IF job[t].live THEN "thaw" ELSE "done"

InsertVirshBackup(t) ==
    /\ phase[t] = "insert"
    /\ table' = Append(table, [vm |-> job[t].vm, automatic |-> job[t].automatic,
                               dir |-> t])
    /\ rows' = rows \cup {Len(table) + 1}
    /\ Goto(t, Ending(t))
    /\ UNCHANGED <<vms, file, restored, job, auto, now, loop, deletes, faults>>

(* The directory and the copy stay behind.                                 *)
InsertFails(t) ==
    /\ phase[t] = "insert" /\ faults < MaxFaults
    /\ faults' = faults + 1
    /\ Goto(t, Ending(t))
    /\ UNCHANGED <<vms, store, restored, job, auto, now, loop, deletes>>

UnFreeze(t) ==
    /\ phase[t] = "thaw"
    /\ frozen' = [frozen EXCEPT ![job[t].vm] = 0]
    /\ Goto(t, "done")
    /\ UNCHANGED <<running, boots, store, restored, job, auto, now, loop, deletes,
                   faults>>

(* The error is only logged.                                               *)
UnFreezeFails(t) ==
    /\ phase[t] = "thaw" /\ faults < MaxFaults
    /\ faults' = faults + 1
    /\ Goto(t, "lost")
    /\ UNCHANGED <<vms, store, restored, job, auto, now, loop, deletes>>

-----------------------------------------------------------------------------
(* UseBackup                                                               *)

(* Read the row; the name must be free and its folder must not exist.      *)
UseBackup(t, id, name) ==
    /\ Fresh(t)
    /\ id \in rows
    /\ name \notin defined /\ disk[name] = "none"
    /\ job' = [job EXCEPT ![t] =
                [kind |-> "restore", source |-> table[id].dir, name |-> name]]
    /\ Goto(t, "mkdir")
    /\ UNCHANGED <<vms, store, restored, auto, now, loop, deletes, faults>>

(* MkdirAll is content with a folder that exists.  If the template turns   *)
(* out not to fit, the request fails and the folder stays.                 *)
MakeFolder(t) ==
    /\ phase[t] = "mkdir"
    /\ disk' = [disk EXCEPT ![job[t].name] = IF @ = "none" THEN "empty" ELSE @]
    /\ Goto(t, "wait") \/ Goto(t, "done")
    /\ UNCHANGED <<vms, store, defined, job, auto, now, loop, deletes, faults>>

(* ColdMigrateVm begins with a chown of the disk, which must exist.        *)
Define(t) ==
    /\ phase[t] = "define"
    /\ \/ disk[job[t].name] \in {"part", "full"} /\ defined' = defined \cup {job[t].name}
       \/ UNCHANGED defined
    /\ Goto(t, "done")
    /\ UNCHANGED <<vms, store, disk, job, auto, now, loop, deletes, faults>>

-----------------------------------------------------------------------------
(* copyFile                                                                *)

(* Bug: nothing limits the copies that run at once.                        *)
UnlimitedSlots(t) == phase[t] = "wait"

SlotFree(t) == phase[t] = "wait" /\ \A u \in Tasks : phase[u] # "copy"

(* The slot is taken, the source opened, the destination truncated.        *)
StartCopy(t) ==
    /\ SlotFree(t)
    /\ \/ /\ job[t].kind = "backup"
          /\ file' = [file EXCEPT ![t] = "part"]
          /\ UNCHANGED disk
       \/ /\ job[t].kind = "restore"
          /\ file[job[t].source] # "none" /\ disk[job[t].name] # "none"
          /\ disk' = [disk EXCEPT ![job[t].name] = "part"]
          /\ UNCHANGED file
    /\ Goto(t, "copy")
    /\ UNCHANGED <<vms, table, rows, defined, job, auto, now, loop, deletes,
                   faults>>

(* A file that was unlinked while it was written stays unlinked.           *)
Written(image) == IF image = "part" THEN "full" ELSE image

CopyDone(t) ==
    /\ phase[t] = "copy"
    /\ \/ /\ job[t].kind = "backup"
          /\ file' = [file EXCEPT ![t] = Written(@)]
          /\ Goto(t, "insert")
          /\ UNCHANGED disk
       \/ /\ job[t].kind = "restore"
          /\ disk' = [disk EXCEPT ![job[t].name] = Written(@)]
          /\ Goto(t, "define")
          /\ UNCHANGED file
    /\ UNCHANGED <<vms, table, rows, defined, job, auto, now, loop, deletes,
                   faults>>

(* Bug: a failed copy returns past the deferred thaw.                      *)
CopyFailsFrozen(t) ==
    /\ phase[t] \in {"wait", "copy"}
    /\ Goto(t, "done")
    /\ disk' = IF job[t].kind = "restore"
               THEN [disk EXCEPT ![job[t].name] = "none"] ELSE disk
    /\ UNCHANGED <<vms, store, defined, job, auto, now, loop, deletes, faults>>

(* The wait for the slot or the copy times out, or the copy hits an error. *)
(* A backup's directory stays behind, a restore's folder is removed.       *)
CopyFails(t) ==
    /\ phase[t] \in {"wait", "copy"}
    /\ \/ /\ job[t].kind = "backup"
          /\ Goto(t, Ending(t))
          /\ UNCHANGED disk
       \/ /\ job[t].kind = "restore"
          /\ disk' = [disk EXCEPT ![job[t].name] = "none"]
          /\ Goto(t, "done")
    /\ UNCHANGED <<vms, store, defined, job, auto, now, loop, deletes, faults>>

-----------------------------------------------------------------------------
(* DeleteBackup, by a request or by the loop.                              *)

LookUp(p, id) ==
    /\ stage[p] = "idle" /\ id \in rows
    /\ stage' = [stage EXCEPT ![p] = "row"]
    /\ doomed' = [doomed EXCEPT ![p] = id]

RequestDelete(p, id) ==
    /\ LookUp(p, id)
    /\ UNCHANGED <<vms, store, restored, tasks, auto, now, loop, faults>>

DirOf(p) == table[doomed[p]].dir

(* Bug: the directory is removed before the row.                           *)
RemoveDirectoryFirst(p) ==
    /\ stage[p] = "row"
    /\ file' = [file EXCEPT ![DirOf(p)] = "none"]
    /\ stage' = [stage EXCEPT ![p] = "dir"]
    /\ UNCHANGED <<vms, table, rows, restored, tasks, auto, now, loop, doomed,
                   faults>>

DeleteRow(p) ==
    /\ stage[p] = "row"
    /\ rows' = rows \ {doomed[p]}
    /\ stage' = [stage EXCEPT ![p] = "dir"]
    /\ UNCHANGED <<vms, table, file, restored, tasks, auto, now, loop, doomed,
                   faults>>

DeleteReturns(p) ==
    /\ stage' = [stage EXCEPT ![p] = "idle"]
    /\ doomed' = [doomed EXCEPT ![p] = 0]
    /\ UNCHANGED <<vms, table, rows, restored, tasks, auto, now, loop>>

RemoveDirectory(p) ==
    /\ stage[p] = "dir"
    /\ file' = [file EXCEPT ![DirOf(p)] = "none"]
    /\ DeleteReturns(p)
    /\ UNCHANGED faults

(* The query or the removal fails.                                         *)
DeleteFails(p) ==
    /\ stage[p] # "idle" /\ faults < MaxFaults
    /\ faults' = faults + 1
    /\ DeleteReturns(p)
    /\ UNCHANGED file

-----------------------------------------------------------------------------
(* The schedule.                                                           *)

CreateAutoBak(c) ==
    /\ auto[c] = NoAuto
    /\ \E v \in VMs, f \in Frequencies, r \in Retains :
        auto' = [auto EXCEPT ![c] = [state |-> "enabled", vm |-> v, freq |-> f,
                                     retain |-> r, last |-> 0]]

UpdateAutoBak(c) ==
    /\ auto[c].state \in {"enabled", "disabled"}
    /\ \E s \in {"enabled", "disabled"}, f \in Frequencies, r \in Retains :
        auto' = [auto EXCEPT ![c].state = s, ![c].freq = f, ![c].retain = r]

DeleteAutoBak(c) ==
    /\ auto[c].state \in {"enabled", "disabled"}
    /\ auto' = [auto EXCEPT ![c].state = "deleted"]

Schedule(c) ==
    /\ CreateAutoBak(c) \/ UpdateAutoBak(c) \/ DeleteAutoBak(c)
    /\ UNCHANGED <<vms, store, restored, tasks, now, loop, deletes, faults>>

-----------------------------------------------------------------------------
(* LoopAutomaticBaks and createAutoBak.                                    *)

(* GetEnabledAutomaticBackupsAt: some of the enabled rows are in their     *)
(* window of the day.                                                      *)
Wake ==
    /\ lpc = "sleep"
    /\ \E S \in SUBSET {c \in Configs : auto[c].state = "enabled"} :
        baks' = [i \in 1..Cardinality(S) |->
                    [id |-> InOrder(S)[i], row |-> auto[InOrder(S)[i]]]]
    /\ lpc' = "next"
    /\ UNCHANGED <<vms, store, restored, tasks, auto, now, listed, next, deletes,
                   faults>>

Bak == Head(baks)
Due == Bak.row.last = 0 \/ Bak.row.last + Bak.row.freq < now

NextBak ==
    /\ baks' = Tail(baks)
    /\ lpc' = "next"
    /\ listed' = <<>> /\ next' = 0

(* It is not due, its machine or the slave is gone, or BackupVM fails.     *)
SkipBak ==
    /\ lpc = "next" /\ baks # <<>>
    /\ NextBak
    /\ UNCHANGED <<vms, store, restored, tasks, auto, now, deletes, faults>>

StartBak(t) ==
    /\ lpc = "next" /\ baks # <<>>
    /\ Due
    /\ BackupVM(t, Bak.row.vm, TRUE)
    /\ lpc' = "times"
    /\ UNCHANGED <<vms, store, restored, auto, now, baks, listed, next, deletes,
                   faults>>

(* The time is noted now, whatever becomes of the task; the row may be     *)
(* gone.                                                                   *)
UpdateAutomaticBackupTimes ==
    /\ lpc = "times"
    /\ auto' = IF auto[Bak.id].state = "deleted" THEN auto
               ELSE [auto EXCEPT ![Bak.id].last = now]
    /\ lpc' = "list"
    /\ UNCHANGED <<vms, store, restored, tasks, now, baks, listed, next, deletes,
                   faults>>

(* The query fails: the loop goes on with the next row.                    *)
AutoBakFails ==
    /\ lpc \in {"times", "list"} /\ faults < MaxFaults
    /\ faults' = faults + 1
    /\ NextBak
    /\ UNCHANGED <<vms, store, restored, tasks, auto, now, deletes>>

AutomaticOf(v) == {id \in rows : table[id].vm = v /\ table[id].automatic}

(* Bug: the oldest come first.                                             *)
OldestFirst(S) == InOrder(S)

NewestFirst(S) ==
    CHOOSE s \in [1..Cardinality(S) -> S] :
        \A i, j \in 1..Cardinality(S) : i < j => s[i] > s[j]

(* The rows beyond the MaxBackupsRetain newest are to go; the list is not  *)
(* read again.                                                             *)
ListOld ==
    /\ lpc = "list"
    /\ listed' = NewestFirst(AutomaticOf(Bak.row.vm))
    /\ next' = Bak.row.retain + 1
    /\ lpc' = "prune"
    /\ UNCHANGED <<vms, store, restored, tasks, auto, now, baks, deletes, faults>>

PruneNext ==
    /\ lpc = "prune" /\ stage[Loop] = "idle" /\ next <= Len(listed)
    /\ \/ LookUp(Loop, listed[next])
       \/ listed[next] \notin rows /\ UNCHANGED deletes
    /\ next' = next + 1
    /\ UNCHANGED <<vms, store, restored, tasks, auto, now, lpc, baks, listed,
                   faults>>

PruneDone ==
    /\ lpc = "prune" /\ stage[Loop] = "idle" /\ next > Len(listed)
    /\ NextBak
    /\ UNCHANGED <<vms, store, restored, tasks, auto, now, deletes, faults>>

Sleep ==
    /\ lpc = "next" /\ baks = <<>>
    /\ lpc' = "sleep"
    /\ UNCHANGED <<vms, store, restored, tasks, auto, now, baks, listed, next,
                   deletes, faults>>

-----------------------------------------------------------------------------
(* The environment.                                                        *)

(* Administrators and users switch machines on and off at any time.  A     *)
(* machine that starts anew is not frozen.                                 *)
Switch(v) ==
    /\ \/ /\ v \notin running /\ boots[v] < MaxBoots
          /\ running' = running \cup {v}
          /\ boots' = [boots EXCEPT ![v] = @ + 1]
       \/ /\ v \in running
          /\ running' = running \ {v}
          /\ UNCHANGED boots
    /\ frozen' = [frozen EXCEPT ![v] = 0]
    /\ UNCHANGED <<store, restored, tasks, auto, now, loop, deletes, faults>>

Tick ==
    /\ now < MaxDays
    /\ now' = now + 1
    /\ UNCHANGED <<vms, store, restored, tasks, auto, loop, deletes, faults>>

(* The master stops and starts again: tasks with their deferred thaws,     *)
(* requests and the loop's progress are lost.                              *)
Restart ==
    /\ faults < MaxFaults
    /\ faults' = faults + 1
    /\ phase' = [t \in Tasks |-> IF phase[t] \in {"none", "done"} THEN phase[t]
                                ELSE "lost"]
    /\ lpc' = "sleep" /\ baks' = <<>> /\ listed' = <<>> /\ next' = 0
    /\ stage' = [p \in Callers |-> "idle"]
    /\ doomed' = [p \in Callers |-> 0]
    /\ UNCHANGED <<vms, store, restored, job, auto, now>>

-----------------------------------------------------------------------------
(* A machine that is on when the master starts was switched on before.     *)
Init ==
    /\ running = {}
    /\ boots = [v \in VMs |-> 0]
    /\ frozen = [v \in VMs |-> 0]
    /\ table = <<>>
    /\ rows = {}
    /\ file = [t \in Tasks |-> "none"]
    /\ disk = [m \in Names |-> "none"]
    /\ defined = {}
    /\ job = [t \in Tasks |-> NoJob]
    /\ phase = [t \in Tasks |-> "none"]
    /\ auto = [c \in Configs |-> NoAuto]
    /\ now = 1
    /\ lpc = "sleep"
    /\ baks = <<>>
    /\ listed = <<>> /\ next = 0
    /\ stage = [p \in Callers |-> "idle"]
    /\ doomed = [p \in Callers |-> 0]
    /\ faults = 0

(* What the background task does on its own.                               *)
Step(t) ==
    \/ Freeze(t) \/ FreezeFails(t) \/ MakeFolder(t)
    \/ StartCopy(t) \/ CopyDone(t) \/ CopyFails(t)
    \/ InsertVirshBackup(t) \/ InsertFails(t) \/ Define(t)
    \/ UnFreeze(t)

AutomaticBaks ==
    \/ Wake \/ SkipBak \/ (\E t \in Tasks : StartBak(t))
    \/ UpdateAutomaticBackupTimes \/ AutoBakFails
    \/ ListOld \/ PruneNext \/ PruneDone \/ Sleep

Next ==
    \/ \E t \in Tasks : Step(t) \/ UnFreezeFails(t)
    \/ \E t \in Tasks, v \in VMs : RequestBackup(t, v)
    \/ \E t \in Tasks, id \in rows, m \in Names : UseBackup(t, id, m)
    \/ \E p \in Deleters, id \in rows : RequestDelete(p, id)
    \/ \E p \in Callers : DeleteRow(p) \/ RemoveDirectory(p) \/ DeleteFails(p)
    \/ \E c \in Configs : Schedule(c)
    \/ AutomaticBaks
    \/ \E v \in VMs : Switch(v)
    \/ Tick
    \/ Restart

(* Each task is a goroutine that runs to its end: its RPCs return and the  *)
(* wait for the slot and the copy have a timeout.                          *)
Spec == Init /\ [][Next]_vars /\ \A t \in Tasks : WF_vars(Step(t))

-----------------------------------------------------------------------------
(* Every variable has its type, and one copy runs at a time.               *)
TypeOK ==
    /\ running \subseteq VMs
    /\ boots \in [VMs -> 0..MaxBoots]
    /\ frozen \in [VMs -> {0} \cup Tasks]
    /\ table \in Seq([vm: VMs, automatic: BOOLEAN, dir: Tasks])
    /\ rows \subseteq DOMAIN table
    /\ file \in [Tasks -> Image]
    /\ disk \in [Names -> Folder] /\ defined \subseteq Names
    /\ job \in [Tasks -> {NoJob} \cup BackupJobs \cup RestoreJobs]
    /\ phase \in [Tasks -> Phase]
    /\ auto \in [Configs -> {NoAuto} \cup AutoRows]
    /\ now \in 1..MaxDays
    /\ lpc \in {"sleep", "next", "times", "list", "prune"}
    /\ baks \in Seq([id: Configs, row: AutoRows])
    /\ listed \in Seq(DOMAIN table) /\ next \in Nat
    /\ stage \in [Callers -> {"idle", "row", "dir"}]
    /\ doomed \in [Callers -> 0..Len(table)]
    /\ faults \in 0..MaxFaults
    /\ Cardinality({t \in Tasks : phase[t] = "copy"}) <= 1

(* A row always stands for a backup that can be restored: its image was    *)
(* copied to the end and is still there, whatever fails and whenever the   *)
(* master stops, deletes by requests and by the loop overlapping.          *)
RowsAreRestorable == \A id \in rows : file[table[id].dir] = "full"

Stale(t) == job[t].kind = "backup" /\ job[t].boot # boots[job[t].vm]

(* The freeze of a running machine is lifted by the task it was made for,  *)
(* and by no other that reads the same disk, so that the guest does not    *)
(* write under a copy.  The exception is a machine with a task that was    *)
(* asked for before it was last switched on: that one may thaw what it did *)
(* not freeze.                                                             *)
OwnThaw ==
    [][\A v \in running' : frozen[v] # 0 /\ frozen'[v] = 0 =>
        \/ phase[frozen[v]] = "thaw" /\ phase'[frozen[v]] = "done"
        \/ \E t \in Tasks : Stale(t) /\ job[t].vm = v
      ]_vars

(* The row that the loop deletes is not among the MaxBackupsRetain newest  *)
(* automatic backups of the machine as they were when it listed them, with *)
(* the MaxBackupsRetain it read when it woke.  Backups that are made while *)
(* it prunes are never touched, and a row it deletes is excused by nothing.*)
PruneSparesTheNewest ==
    [][stage[Loop] = "row" /\ stage'[Loop] = "dir" =>
        Cardinality({i \in DOMAIN listed : listed[i] > doomed[Loop]})
            >= Bak.row.retain
      ]_vars

(* A frozen guest is thawed in the end, whether the copy or the insert     *)
(* works or not, unless its thaw was lost: the freeze took effect but      *)
(* reported an error, the thaw failed, or the master stopped in between.   *)
GuestsAreThawed ==
    \A v \in VMs :
        frozen[v] # 0 ~> (frozen[v] = 0 \/ phase[frozen[v]] = "lost")

(* virshBackups.go:697, "mantem MaxBackupsRetain": once the loop has dealt *)
(* with a machine's schedule and no task is left, there are no more        *)
(* automatic backups of it than its schedule retains.                      *)
RetentionKept ==
    lpc = "sleep" /\ (\A t \in Tasks : phase[t] \in Ended \cup {"none"}) =>
        \A c \in Configs :
            auto[c].state = "enabled" /\ auto[c].last # 0 =>
                Cardinality(AutomaticOf(auto[c].vm)) <= auto[c].retain

(* virshBackups.go:394, "clonar bak para uma nova pasta e defenir": a      *)
(* machine made from a backup has a folder of its own, with a disk copied  *)
(* to the end.                                                             *)
NewMachinesAreWhole == \A m \in defined : disk[m] = "full"

=============================================================================

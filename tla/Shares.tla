------------------------------- MODULE Shares -------------------------------
(***************************************************************************)
(* NFS shares.  A share is a folder of one slave, its source, which        *)
(* exports it; every slave, the source too, mounts it.  The master keeps   *)
(* a row for each share and, with no lock, lets request handlers,          *)
(* newSlave goroutines and MaintainNFS export, mount, unmount and remove   *)
(* the shares by RPCs (master/services/nfs.go, master/main.go).  Each      *)
(* slave watches what it has mounted: a monitor mounts anew what was lost, *)
(* and a failed mount is tried again by a timer (slave/nfs/nfs.go).        *)
(*                                                                         *)
(* An RPC may fail before it has an effect or after it (its time is over,  *)
(* or a later command failed).  A slave may restart, alone or with its     *)
(* host, and has to connect again.  A mount whose export was taken away is *)
(* stale until it is mounted again.                                        *)
(*                                                                         *)
(* Left out: shares with HostNormalMount, which their source binds, and    *)
(* the machines, backups and ISOs on a share, whose presence refuses a     *)
(* deletion and which a forced one deletes first.                          *)
(***************************************************************************)
EXTENDS Naturals, FiniteSets

CONSTANTS
    Slaves, Shares,
    Source,        \* the slave whose folder each share is
    Handlers,      \* the goroutines of requests; newSlave's are the slaves
    Maintain,      \* MaintainNFS
    Tries,         \* attempts of the monitor: monitorFailureThreshold, 3
    MaxRequests,   \* bound on the requests in a behaviour
    MaxFaults      \* bound on the restarts and disconnections

Proc == Handlers \cup Slaves \cup {Maintain}

ASSUME SharesAssumption == Source \in [Shares -> Slaves]
ASSUME ProcAssumption ==
    Maintain \notin Handlers \cup Slaves /\ Handlers \cap Slaves = {}
ASSUME BoundsAssumption ==
    Tries \in Nat \ {0} /\ MaxRequests \in Nat /\ MaxFaults \in Nat

VARIABLES
    rows,        \* the shares in the database
    connected,   \* the slaves with a healthy connection
    file,        \* each slave's exports file
    exported,    \* what its NFS server exports
    mounts,      \* each slave's mounts: none, good or stale
    tracked,     \* CurrentMounts, which the monitor watches
    retry,       \* retryStates: none, armed, or fired (its timer went off)
    stray,       \* a timer is armed that no retry state refers to
    run,         \* whether runMountRetry runs
    monitor,     \* what MonitorMounts has still to look at, the share it
                 \* mounts anew and its failed attempts
    task,        \* where each of the master's goroutines stands
    requests, faults   \* how many there were

registry == <<connected, faults>>
exports == <<file, exported>>
slave == <<mounts, tracked, retry, stray, run, monitor>>
vars == <<rows, registry, exports, slave, task, requests>>

-----------------------------------------------------------------------------
(* What the slaves do when they are asked to.                              *)

SharesOf(m) == {s \in Shares : Source[s] = m}

(* The exports file is written and exportfs -ra follows it; mounts of what *)
(* is no longer exported become stale.                                     *)
Export(m, shares) ==
    /\ file' = [file EXCEPT ![m] = shares]
    /\ exported' = [exported EXCEPT ![m] = shares]
    /\ mounts' = [n \in Slaves |-> [s \in Shares |->
                    IF mounts[n][s] = "good" /\ s \in exported[m] \ shares
                    THEN "stale" ELSE mounts[n][s]]]

(* Bug: whatever is in /proc/mounts is taken to work.                      *)
MountTrusted(m, s) ==
    /\ mounts[m][s] # "none" \/ s \in exported[Source[s]]
    /\ mounts' = [mounts EXCEPT ![m][s] = "good"]
    /\ tracked' = [tracked EXCEPT ![m] = @ \cup {s}]
    /\ retry' = [retry EXCEPT ![m][s] = "none"]

(* mountSharedFolderOnce when it works: a mount that works is left alone,  *)
(* a stale one is replaced; the mount is tracked and no longer retried.    *)
mountSharedFolderOnce(m, s) ==
    /\ mounts[m][s] = "good" \/ s \in exported[Source[s]]
    /\ mounts' = [mounts EXCEPT ![m][s] = "good"]
    /\ tracked' = [tracked EXCEPT ![m] = @ \cup {s}]
    /\ retry' = [retry EXCEPT ![m][s] = "none"]

(* When it fails, a stale mount has been removed.                          *)
MountError(m, s) ==
    mounts' = [mounts EXCEPT ![m][s] = IF @ = "good" THEN @ ELSE "none"]

scheduleMountRetry(m, s) ==
    retry' = [retry EXCEPT ![m][s] = IF @ = "none" THEN "armed" ELSE @]

-----------------------------------------------------------------------------
(* The timers: scheduleMountRetry arms one, runMountRetry is what it runs. *)
(* One run of a share at a time.                                           *)

Fire(m, s) ==
    /\ ~run[m][s] /\ retry[m][s] = "armed"
    /\ retry' = [retry EXCEPT ![m][s] = "fired"]
    /\ run' = [run EXCEPT ![m][s] = TRUE]
    /\ UNCHANGED <<rows, registry, exports, mounts, tracked, stray, monitor,
                   task, requests>>

(* A run that finds no state ends at once.                                 *)
FireStray(m, s) ==
    /\ ~run[m][s] /\ stray[m][s]
    /\ stray' = [stray EXCEPT ![m][s] = FALSE]
    /\ run' = [run EXCEPT ![m][s] = retry[m][s] # "none"]
    /\ UNCHANGED <<rows, registry, exports, mounts, tracked, retry, monitor,
                   task, requests>>

(* Bug: a failed attempt leaves the state without a timer.                 *)
RunFailsForGood(m, s) ==
    /\ run[m][s]
    /\ MountError(m, s)
    /\ run' = [run EXCEPT ![m][s] = FALSE]
    /\ UNCHANGED <<rows, registry, exports, tracked, retry, stray, monitor, task,
                   requests>>

(* The state there is now, which may be a later one than it began with,    *)
(* gets a new timer; the one it had may still be armed.                    *)
RunFails(m, s) ==
    /\ run[m][s]
    /\ MountError(m, s)
    /\ run' = [run EXCEPT ![m][s] = FALSE]
    /\ stray' = [stray EXCEPT ![m][s] = @ \/ retry[m][s] = "armed"]
    /\ retry' = [retry EXCEPT ![m][s] = IF @ = "none" THEN @ ELSE "armed"]
    /\ UNCHANGED <<rows, registry, exports, tracked, monitor, task, requests>>

RunMounts(m, s) ==
    /\ run[m][s]
    /\ mountSharedFolderOnce(m, s)
    /\ run' = [run EXCEPT ![m][s] = FALSE]
    /\ UNCHANGED <<rows, registry, exports, stray, monitor, task, requests>>

-----------------------------------------------------------------------------
(* MonitorMounts.                                                          *)

Resting == [list |-> {}, share |-> {}, tries |-> 0]

(* A tick takes a copy of what is tracked...                               *)
Tick(m) ==
    /\ monitor[m] = Resting /\ tracked[m] # {}
    /\ monitor' = [monitor EXCEPT ![m].list = tracked[m]]
    /\ UNCHANGED <<rows, registry, exports, mounts, tracked, retry, stray,
                   run, task, requests>>

(* ... and looks at its mounts in turn.                                    *)
Inspect(m) ==
    /\ monitor[m].share = {}
    /\ \E s \in monitor[m].list :
        monitor' = [monitor EXCEPT ![m].list = @ \ {s}, ![m].share =
                        IF mounts[m][s] = "good" THEN {} ELSE {s}]
    /\ UNCHANGED <<rows, registry, exports, mounts, tracked, retry, stray,
                   run, task, requests>>

RemountFails(m) ==
    /\ monitor[m].tries + 1 < Tries
    /\ \E s \in monitor[m].share : MountError(m, s)
    /\ monitor' = [monitor EXCEPT ![m].tries = @ + 1]
    /\ UNCHANGED <<rows, registry, exports, tracked, retry, stray, run, task,
                   requests>>

RemountWorks(m) ==
    /\ monitor[m].tries < Tries
    /\ \E s \in monitor[m].share : mountSharedFolderOnce(m, s)
    /\ monitor' = [monitor EXCEPT ![m].share = {}, ![m].tries = 0]
    /\ UNCHANGED <<rows, registry, exports, stray, run, task, requests>>

(* Bug: the mount is given up without a timer.                             *)
GiveUpForGood(m) ==
    /\ monitor[m].tries + 1 = Tries
    /\ \E s \in monitor[m].share : MountError(m, s)
    /\ monitor' = [monitor EXCEPT ![m].tries = Tries]
    /\ UNCHANGED <<rows, registry, exports, tracked, retry, stray, run, task,
                   requests>>

(* The last attempt failed: a timer takes over, if none has...             *)
GiveUp(m) ==
    /\ monitor[m].tries + 1 = Tries
    /\ \E s \in monitor[m].share : MountError(m, s) /\ scheduleMountRetry(m, s)
    /\ monitor' = [monitor EXCEPT ![m].tries = Tries]
    /\ UNCHANGED <<rows, registry, exports, tracked, stray, run, task, requests>>

(* ... and the mount is watched no more.                                   *)
untrackMount(m) ==
    /\ monitor[m].tries = Tries
    /\ tracked' = [tracked EXCEPT ![m] = @ \ monitor[m].share]
    /\ monitor' = [monitor EXCEPT ![m].share = {}, ![m].tries = 0]
    /\ UNCHANGED <<rows, registry, exports, mounts, retry, stray, run, task,
                   requests>>

-----------------------------------------------------------------------------
(* The master's goroutines: "op" is what one was asked for, "arg" the      *)
(* share, "rest" what MaintainNFS has still to look at, "hosts" whose      *)
(* exports are still to be synchronised, "list" the shares to export,      *)
(* "conns" the snapshot of connections, and "pairs" the mounts (or         *)
(* unmounts) still to be asked for.                                        *)

Nothing == [op |-> "none", arg |-> {}, step |-> "idle", rest |-> {},
            hosts |-> {}, list |-> {}, conns |-> {}, pairs |-> {}]

Go(p, t) == task' = [task EXCEPT ![p] = t]
At(p, step) == task[p].step = step
Goto(t, step) == [t EXCEPT !.step = step]

HostsWithShares == {Source[s] : s \in rows}

(* Where a goroutine goes when MountAllSharedFolders is over.              *)
Look(t) == IF t.rest = {} THEN Nothing
           ELSE [Nothing EXCEPT !.op = t.op, !.step = "look", !.rest = t.rest]

(* newSlave is to begin EnsureNFSReadyForMachine, or to begin it again.    *)
Preparing == [Nothing EXCEPT !.op = "newSlave", !.step = "check"]

Mounted(t) ==
    CASE t.op = "maintain" -> Look(t)
      [] t.op = "newSlave" -> Preparing
      [] OTHER -> Nothing

(* A step of MountAllSharedFolders left the shares t.list to be exported   *)
(* and the mounts t.pairs to be made.                                      *)
Settled(t) ==
    CASE t.list = {} /\ t.pairs = {} -> Mounted(t)
      [] t.list = {} /\ t.pairs # {} -> [t EXCEPT !.step = "mount", !.conns = {}]
      [] OTHER -> t

(* MountAllSharedFolders(list) starts: it looks at the connections once.   *)
MountAll(t, list) ==
    IF connected = {} THEN Mounted(t)
    ELSE Settled([t EXCEPT !.step = "export", !.list = list,
                           !.conns = connected, !.pairs = {}])

(* A deletion has these unmounts to ask for, after which DeleteSharePoint  *)
(* deletes the row and forcedelete the export.                             *)
Unmounting(t, pairs) ==
    [t EXCEPT !.pairs = pairs, !.step = CASE pairs # {} -> "unmount"
                                          [] t.op = "force" -> "remove"
                                          [] OTHER -> "deleteRow"]

UnchangedSlaves == UNCHANGED <<registry, exports, slave>>

Request(h, t) ==
    /\ task[h] = Nothing /\ requests < MaxRequests
    /\ requests' = requests + 1
    /\ Go(h, t)
    /\ UNCHANGED rows /\ UnchangedSlaves

CreateSharePoint(h) ==
    \E s \in Shares :
        /\ Source[s] \in connected
        /\ Request(h, [Nothing EXCEPT !.op = "create", !.arg = {s},
                                      !.step = "create"])

DeleteSharePoint(h) ==
    \E s \in rows :
        /\ Source[s] \in connected
        /\ Request(h, [Nothing EXCEPT !.op = "delete", !.arg = {s},
                                      !.step = "remove"])

forcedelete(h) ==
    \E s \in rows :
        Request(h, Unmounting([Nothing EXCEPT !.op = "force", !.arg = {s}],
                              connected \X {s}))

RemountShareByID(h) ==
    \E s \in rows :
        /\ Source[s] \in connected
        /\ Request(h, MountAll([Nothing EXCEPT !.op = "remount"], {s}))

(* CreateSharedFolder of CreateSharePoint.                                 *)
CreateFolder(h) ==
    /\ At(h, "create")
    /\ \E s \in task[h].arg :
        \/ /\ Source[s] \in connected
           /\ Export(Source[s], file[Source[s]] \cup {s})
           /\ \E t \in {Goto(task[h], "insert"), Nothing} : Go(h, t)
        \/ /\ Go(h, Nothing) /\ UNCHANGED <<exports, mounts>>
    /\ UNCHANGED <<rows, registry, tracked, retry, stray, run, monitor,
                   requests>>

(* AddNFSShare: a second row of the same folder is refused.                *)
AddNFSShare(h) ==
    /\ At(h, "insert")
    /\ \/ /\ task[h].arg \cap rows = {}
          /\ rows' = rows \cup task[h].arg
          /\ Go(h, [task[h] EXCEPT !.step = "sync",
                                   !.hosts = {Source[s] : s \in rows'}])
       \/ Go(h, Nothing) /\ UNCHANGED rows
    /\ UNCHANGED requests /\ UnchangedSlaves

(* SyncSharedFolder: for each machine with shares its rows are read, or    *)
(* the machine is skipped if they cannot be...                             *)
ReadShares(h) ==
    /\ At(h, "sync")
    /\ \/ \E m \in task[h].hosts :
            \/ Go(h, [task[h] EXCEPT !.step = "write", !.hosts = @ \ {m},
                                     !.conns = {m}, !.list = rows \cap SharesOf(m)])
            \/ Go(h, [task[h] EXCEPT !.hosts = @ \ {m}])
       \/ /\ task[h].hosts = {}
          /\ Go(h, IF task[h].op = "failing" THEN Nothing
                   ELSE MountAll(task[h], rows))
    /\ UNCHANGED <<rows, requests>> /\ UnchangedSlaves

(* ... and written to its exports file.  After an error the other machines *)
(* still have their turn; then CreateSharePoint, which is now "failing",   *)
(* returns it without mounting, and newSlave goes on.                      *)
WriteExports(h) ==
    /\ At(h, "write")
    /\ \E m \in task[h].conns :
        LET done == Goto(task[h], "sync")
            onError == [done EXCEPT !.op = IF @ = "create" THEN "failing" ELSE @]
        IN  \/ /\ m \in connected
               /\ Export(m, task[h].list)
               /\ \E t \in {done, onError} : Go(h, t)
            \/ Go(h, onError) /\ UNCHANGED <<exports, mounts>>
    /\ UNCHANGED <<rows, registry, tracked, retry, stray, run, monitor,
                   requests>>

(* Bug: the share is mounted without being exported again.                 *)
MountWithoutExport(p) ==
    /\ At(p, "export")
    /\ \E s \in task[p].list :
        /\ Source[s] \in task[p].conns \cap connected
        /\ Go(p, Settled([task[p] EXCEPT
                    !.list = @ \ {s}, !.pairs = @ \cup (task[p].conns \X {s})]))
    /\ UNCHANGED <<rows, registry, exports, slave, requests>>

(* MountAllSharedFolders first exports each share on its source...         *)
CreateSharedFolder(p) ==
    /\ At(p, "export")
    /\ \E s \in task[p].list :
        /\ Source[s] \in task[p].conns \cap connected
        /\ Export(Source[s], file[Source[s]] \cup {s})
        /\ Go(p, Settled([task[p] EXCEPT
                    !.list = @ \ {s}, !.pairs = @ \cup (task[p].conns \X {s})]))
    /\ UNCHANGED <<rows, registry, tracked, retry, stray, run, monitor,
                   requests>>

(* ... does not mount what could not be exported...                        *)
CreateFails(p) ==
    /\ At(p, "export")
    /\ \E s \in task[p].list :
        /\ Go(p, Settled([task[p] EXCEPT !.list = @ \ {s}]))
        /\ \/ /\ Source[s] \in connected
              /\ Export(Source[s], file[Source[s]] \cup {s})
           \/ UNCHANGED <<exports, mounts>>
    /\ UNCHANGED <<rows, registry, tracked, retry, stray, run, monitor,
                   requests>>

(* ... and mounts the others on every slave: MountSharedFolder works,      *)
MountSharedFolder(p, m) ==
    /\ At(p, "mount") /\ m \in connected
    /\ \E s \in Shares :
        /\ <<m, s>> \in task[p].pairs
        /\ mountSharedFolderOnce(m, s)
        /\ Go(p, Settled([task[p] EXCEPT !.pairs = @ \ {<<m, s>>}]))
    /\ UNCHANGED <<rows, registry, exports, stray, run, monitor, requests>>

(* or fails, on the slave or before it gets there,                         *)
MountFails(p) ==
    /\ At(p, "mount")
    /\ \E pair \in task[p].pairs :
        /\ Go(p, Settled([task[p] EXCEPT !.pairs = @ \ {pair}]))
        /\ \/ /\ pair[1] \in connected
              /\ MountError(pair[1], pair[2])
              /\ scheduleMountRetry(pair[1], pair[2])
           \/ UNCHANGED <<mounts, retry>>
    /\ UNCHANGED <<rows, registry, exports, tracked, stray, run, monitor,
                   requests>>

(* EnsureNFSReadyForMachine ends when the machine has every share, or its  *)
(* time is over; else, or after any error, it starts again.                *)
Check(h) ==
    /\ At(h, "check")
    /\ \/ Go(h, [task[h] EXCEPT !.step = "sync", !.hosts = HostsWithShares])
       \/ Go(h, Nothing)
    /\ UNCHANGED <<rows, requests>> /\ UnchangedSlaves

(* RemoveSharedFolder; an error ends DeleteSharePoint but not forcedelete. *)
RemoveSharedFolder(h) ==
    /\ At(h, "remove")
    /\ \E s \in task[h].arg :
        LET done == IF task[h].op = "force" THEN Goto(task[h], "deleteRow")
                    ELSE Unmounting(task[h], connected \X {s})
            onError == IF task[h].op = "force" THEN done ELSE Nothing
        IN  \/ /\ Source[s] \in connected
               /\ Export(Source[s], file[Source[s]] \ {s})
               /\ \E t \in {done, onError} : Go(h, t)
            \/ Go(h, onError) /\ UNCHANGED <<exports, mounts>>
    /\ UNCHANGED <<rows, registry, tracked, retry, stray, run, monitor,
                   requests>>

(* UnmountSharedFolder: the mount goes, with what watches and retries it.  *)
Unmount(h) ==
    /\ At(h, "unmount")
    /\ \E pair \in task[h].pairs :
        LET m == pair[1]  s == pair[2]
        IN  /\ Go(h, Unmounting(task[h], task[h].pairs \ {pair}))
            /\ \/ /\ m \in connected
                  /\ mounts' = [mounts EXCEPT ![m][s] = "none"]
                  /\ tracked' = [tracked EXCEPT ![m] = @ \ {s}]
                  /\ retry' = [retry EXCEPT ![m][s] = "none"]
               \/ UNCHANGED <<mounts, tracked, retry>>
    /\ UNCHANGED <<rows, registry, exports, stray, run, monitor, requests>>

RemoveNFSShare(h) ==
    /\ At(h, "deleteRow")
    /\ rows' \in {rows, rows \ task[h].arg}
    /\ Go(h, Nothing)
    /\ UNCHANGED requests /\ UnchangedSlaves

-----------------------------------------------------------------------------
(* MaintainNFS.                                                            *)

ListShares(p) ==
    /\ p = Maintain /\ task[p] = Nothing /\ rows # {}
    /\ Go(p, [Nothing EXCEPT !.op = "maintain", !.step = "look",
                             !.rest = rows])
    /\ UNCHANGED <<rows, requests>> /\ UnchangedSlaves

(* The source and then every slave is asked whether the mount works; of a  *)
(* slave other than the source an error is passed over.                    *)
FoundBroken(p) ==
    /\ At(p, "look")
    /\ \E s \in task[p].rest, m \in connected :
        /\ Source[s] \in connected /\ mounts[m][s] # "good"
        /\ Go(p, MountAll([task[p] EXCEPT !.rest = @ \ {s}], {s}))
    /\ UNCHANGED <<rows, requests>> /\ UnchangedSlaves

(* It works, or the source is not connected or does not answer.            *)
PassOver(p) ==
    /\ At(p, "look")
    /\ \E s \in task[p].rest : Go(p, Look([task[p] EXCEPT !.rest = @ \ {s}]))
    /\ UNCHANGED <<rows, requests>> /\ UnchangedSlaves

-----------------------------------------------------------------------------
(* The slaves come and go.                                                 *)

(* A slave connects and newSlave, a goroutine of the slave, starts; it is  *)
(* skipped while an earlier one of the slave is running.                   *)
Connect(m) ==
    /\ m \notin connected
    /\ connected' = connected \cup {m}
    /\ IF task[m] = Nothing THEN Go(m, Preparing)
       ELSE UNCHANGED task
    /\ UNCHANGED <<rows, faults, exports, slave, requests>>

Fault(m) ==
    /\ faults < MaxFaults
    /\ faults' = faults + 1
    /\ connected' = connected \ {m}
    /\ UNCHANGED <<rows, task, requests>>

Disconnect(m) == m \in connected /\ Fault(m) /\ UNCHANGED <<exports, slave>>

(* The process restarts, alone or with its host: it forgets what it        *)
(* watched and InstallNFS empties the exports file.  The kernel's exports  *)
(* and mounts last until the host restarts, but stale mounts are removed.  *)
Restart(m) ==
    /\ Fault(m)
    /\ file' = [file EXCEPT ![m] = {}]
    /\ tracked' = [tracked EXCEPT ![m] = {}]
    /\ retry' = [retry EXCEPT ![m] = [s \in Shares |-> "none"]]
    /\ stray' = [stray EXCEPT ![m] = [s \in Shares |-> FALSE]]
    /\ run' = [run EXCEPT ![m] = [s \in Shares |-> FALSE]]
    /\ monitor' = [monitor EXCEPT ![m] = Resting]
    /\ \/ /\ UNCHANGED exported
          /\ mounts' = [mounts EXCEPT ![m] = [s \in Shares |->
                            IF @[s] = "stale" THEN "none" ELSE @[s]]]
       \/ /\ exported' = [exported EXCEPT ![m] = {}]
          /\ mounts' = [n \in Slaves |-> [s \in Shares |->
                CASE n = m -> "none"
                  [] n # m /\ mounts[n][s] = "good" /\ s \in exported[m]
                        -> "stale"
                  [] OTHER -> mounts[n][s]]]

-----------------------------------------------------------------------------
Init ==
    /\ rows \in SUBSET Shares
    /\ connected = {}
    /\ file = [m \in Slaves |-> {}] /\ exported = [m \in Slaves |-> {}]
    /\ mounts = [m \in Slaves |-> [s \in Shares |-> "none"]]
    /\ tracked = [m \in Slaves |-> {}]
    /\ retry = [m \in Slaves |-> [s \in Shares |-> "none"]]
    /\ stray = [m \in Slaves |-> [s \in Shares |-> FALSE]]
    /\ run = [m \in Slaves |-> [s \in Shares |-> FALSE]]
    /\ monitor = [m \in Slaves |-> Resting]
    /\ task = [p \in Proc |-> Nothing]
    /\ requests = 0 /\ faults = 0

(* A step of a handler or newSlave that has been asked for.                *)
Continue(h) ==
    \/ CreateFolder(h) \/ AddNFSShare(h) \/ ReadShares(h) \/ WriteExports(h)
    \/ Check(h) \/ RemoveSharedFolder(h) \/ Unmount(h) \/ RemoveNFSShare(h)

(* A step of MountAllSharedFolders.                                        *)
MountStep(p) ==
    \/ CreateSharedFolder(p) \/ CreateFails(p)
    \/ \E m \in Slaves : MountSharedFolder(p, m)
    \/ MountFails(p)

MaintainStep(p) == ListShares(p) \/ FoundBroken(p) \/ PassOver(p)

RunStep(m, s) == RunFails(m, s) \/ RunMounts(m, s)

MonitorStep(m) ==
    \/ Tick(m) \/ Inspect(m) \/ RemountFails(m) \/ RemountWorks(m)
    \/ GiveUp(m) \/ untrackMount(m)

Next ==
    \/ \E h \in Handlers :
        \/ CreateSharePoint(h) \/ DeleteSharePoint(h) \/ forcedelete(h)
        \/ RemountShareByID(h)
    \/ \E p \in Proc : Continue(p) \/ MountStep(p) \/ MaintainStep(p)
    \/ \E m \in Slaves :
        \/ Connect(m) \/ Disconnect(m) \/ Restart(m) \/ MonitorStep(m)
        \/ \E s \in Shares : Fire(m, s) \/ FireStray(m, s) \/ RunStep(m, s)

(* MaintainNFS, the monitor and the timers run, and slaves reconnect       *)
(* (ConnectGRPC tries for ever); a request or newSlave may hang anywhere.  *)
(* What may fail does not fail each time: MaintainNFS's calls to a slave   *)
(* that is connected again and again, and a timer's mount of what is       *)
(* exported.                                                               *)
Fairness ==
    /\ WF_vars(MountStep(Maintain) \/ MaintainStep(Maintain))
    /\ SF_vars(FoundBroken(Maintain)) /\ SF_vars(CreateSharedFolder(Maintain))
    /\ \A m \in Slaves :
        /\ WF_vars(Connect(m)) /\ SF_vars(MountSharedFolder(Maintain, m))
        /\ WF_vars(MonitorStep(m))
        /\ \A s \in Shares :
            /\ WF_vars(Fire(m, s) \/ RunStep(m, s))
            /\ SF_vars(RunMounts(m, s))

Spec == Init /\ [][Next]_vars /\ Fairness

-----------------------------------------------------------------------------
Steps == {"idle", "create", "insert", "sync", "write", "export", "mount",
          "check", "remove", "unmount", "deleteRow", "look"}

(* Every variable keeps its type, a slave exports only folders of its own, *)
(* and a mount is not taken for good when its share is not exported.       *)
TypeOK ==
    /\ rows \subseteq Shares
    /\ connected \subseteq Slaves
    /\ \A m \in Slaves :
        /\ file[m] \subseteq SharesOf(m) /\ exported[m] \subseteq SharesOf(m)
        /\ tracked[m] \subseteq Shares
        /\ \A s \in Shares :
            /\ mounts[m][s] \in {"none", "good", "stale"}
            /\ mounts[m][s] = "good" => s \in exported[Source[s]]
            /\ retry[m][s] \in {"none", "armed", "fired"}
            /\ stray[m][s] \in BOOLEAN
            /\ run[m][s] \in BOOLEAN
    /\ \A p \in Proc : task[p].step \in Steps
    /\ requests \in 0..MaxRequests /\ faults \in 0..MaxFaults

(* A retry state whose timer went off is being worked on: as long as a     *)
(* state is there scheduleMountRetry refuses another, so one that nobody   *)
(* would arm again or delete would end the retries of its share for good.  *)
RetryIsArmed ==
    \A m \in Slaves, s \in Shares :
        retry[m][s] = "fired" => run[m][s]

(* Whatever requests, failures and restarts left behind, once they stop    *)
(* every share with a row is exported, and mounted on every slave, for     *)
(* good.                                                                   *)
SharesAreServed ==
    <>[](\A s \in rows :
            /\ s \in exported[Source[s]]
            /\ \A m \in Slaves : mounts[m][s] = "good")

(* A mount that a slave watches or retries comes (back) to work once its   *)
(* share is exported for good, unless the share is being deleted or the    *)
(* slave restarts.  MonitorMounts may untrack a mount that another         *)
(* goroutine has made to work since the timer was armed; from then on      *)
(* nothing watches it.                                                     *)
Watched(m, s) ==
    \/ retry[m][s] # "none"
    \/ s \in tracked[m] /\ ~(s \in monitor[m].share /\ monitor[m].tries = Tries)

Deleting(s) ==
    \E h \in Handlers : task[h].op \in {"delete", "force"} /\ s \in task[h].arg

WatchedIsMounted ==
    \A m \in Slaves, s \in Shares :
        <>[](s \in exported[Source[s]]) =>
            [](Watched(m, s) =>
                <>(mounts[m][s] = "good" \/ m \notin connected \/ Deleting(s)))

=============================================================================

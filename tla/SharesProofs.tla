---------------------------- MODULE SharesProofs ----------------------------
(***************************************************************************)
(* Proofs about the NFS shares, for every set of slaves and shares, any    *)
(* number of requests and faults, and any number of attempts.              *)
(***************************************************************************)
EXTENDS Shares, TLAPS

-----------------------------------------------------------------------------
(* The timers.                                                             *)

RetryTypeOK ==
    /\ retry \in [Slaves -> [Shares -> {"none", "armed", "fired"}]]
    /\ run \in [Slaves -> [Shares -> BOOLEAN]]

RetryInv == RetryTypeOK /\ RetryIsArmed

(* The ways in which a step changes the retry state of a target.           *)
LEMMA RetryTargets ==
    ASSUME RetryTypeOK, NEW m \in Slaves, NEW s \in Shares,
           NEW v \in {"none", "armed", "fired"},
           retry' = [retry EXCEPT ![m][s] = v]
    PROVE  /\ retry' \in [Slaves -> [Shares -> {"none", "armed", "fired"}]]
           /\ \A n \in Slaves, u \in Shares :
                retry'[n][u] = IF n = m /\ u = s THEN v ELSE retry[n][u]
  BY DEF RetryTypeOK

(* A step that leaves every run alone and puts no state into "fired".      *)
LEMMA RetryChanged ==
    ASSUME RetryInv, UNCHANGED run,
           NEW m \in Slaves, NEW s \in Shares,
           \/ retry' = [retry EXCEPT ![m][s] = "none"]
           \/ retry' = [retry EXCEPT ![m][s] =
                            IF @ = "none" THEN "armed" ELSE @]
    PROVE  RetryInv'
<1>1. PICK v \in {"none", "armed", "fired"} :
        /\ retry' = [retry EXCEPT ![m][s] = v]
        /\ v = "fired" => retry[m][s] = "fired"
  BY DEF RetryInv, RetryTypeOK
<1>2. QED
  BY <1>1, RetryTargets DEF RetryInv, RetryTypeOK, RetryIsArmed

LEMMA RunEnds ==
    ASSUME RetryInv, NEW m \in Slaves, NEW s \in Shares,
           run' = [run EXCEPT ![m][s] = FALSE],
           \/ retry' = [retry EXCEPT ![m][s] = "none"]
           \/ retry' = [retry EXCEPT ![m][s] =
                            IF @ = "none" THEN @ ELSE "armed"]
    PROVE  RetryInv'
<1>1. PICK v \in {"none", "armed"} : retry' = [retry EXCEPT ![m][s] = v]
  BY DEF RetryInv, RetryTypeOK
<1>2. /\ run' \in [Slaves -> [Shares -> BOOLEAN]]
      /\ \A n \in Slaves, u \in Shares :
            run'[n][u] = IF n = m /\ u = s THEN FALSE ELSE run[n][u]
  BY DEF RetryInv, RetryTypeOK
<1>3. QED
  BY <1>1, <1>2, RetryTargets DEF RetryInv, RetryTypeOK, RetryIsArmed

LEMMA RunBegins ==
    ASSUME RetryInv, NEW m \in Slaves, NEW s \in Shares,
           Fire(m, s) \/ FireStray(m, s)
    PROVE  RetryInv'
<1>1. ASSUME Fire(m, s) PROVE RetryInv'
  <2>1. /\ retry' = [retry EXCEPT ![m][s] = "fired"]
        /\ run' = [run EXCEPT ![m][s] = TRUE]
    BY <1>1 DEF Fire
  <2>2. /\ run' \in [Slaves -> [Shares -> BOOLEAN]]
        /\ \A n \in Slaves, u \in Shares :
                run'[n][u] = IF n = m /\ u = s THEN TRUE ELSE run[n][u]
    BY <2>1 DEF RetryInv, RetryTypeOK
  <2>3. QED
    BY <2>1, <2>2, RetryTargets DEF RetryInv, RetryTypeOK, RetryIsArmed
<1>2. ASSUME FireStray(m, s) PROVE RetryInv'
  <2>1. run' = [run EXCEPT ![m][s] = retry[m][s] # "none"] /\ UNCHANGED retry
    BY <1>2 DEF FireStray
  <2>2. /\ run' \in [Slaves -> [Shares -> BOOLEAN]]
        /\ \A n \in Slaves, u \in Shares : n # m \/ u # s => run'[n][u] = run[n][u]
        /\ run'[m][s] = (retry[m][s] # "none")
    BY <2>1 DEF RetryInv, RetryTypeOK
  <2>3. QED
    BY <2>1, <2>2 DEF RetryInv, RetryTypeOK, RetryIsArmed
<1>3. QED
  BY <1>1, <1>2

LEMMA RestartRetry ==
    ASSUME RetryInv, NEW m \in Slaves, Restart(m)
    PROVE  RetryInv'
<1>1. /\ retry' = [retry EXCEPT ![m] = [s \in Shares |-> "none"]]
      /\ run' = [run EXCEPT ![m] = [s \in Shares |-> FALSE]]
  BY DEF Restart
<1>2. /\ retry' \in [Slaves -> [Shares -> {"none", "armed", "fired"}]]
      /\ run' \in [Slaves -> [Shares -> BOOLEAN]]
  BY <1>1 DEF RetryInv, RetryTypeOK
<1>3. /\ \A s \in Shares : retry'[m][s] = "none"
      /\ \A n \in Slaves \ {m} : retry'[n] = retry[n] /\ run'[n] = run[n]
  BY <1>1 DEF RetryInv, RetryTypeOK
<1>4. QED
  BY <1>2, <1>3 DEF RetryInv, RetryTypeOK, RetryIsArmed

LEMMA MonitorKeepsRetryInv ==
    ASSUME RetryInv, NEW m \in Slaves, MonitorStep(m),
           monitor[m].share \subseteq Shares
    PROVE  RetryInv'
<1>1. CASE Tick(m) \/ Inspect(m) \/ RemountFails(m) \/ untrackMount(m)
  BY <1>1 DEF Tick, Inspect, RemountFails, untrackMount, RetryInv, RetryTypeOK,
              RetryIsArmed
<1>2. CASE RemountWorks(m)
  <2>1. PICK s \in Shares : retry' = [retry EXCEPT ![m][s] = "none"]
    BY <1>2 DEF RemountWorks, mountSharedFolderOnce
  <2>2. UNCHANGED run
    BY <1>2 DEF RemountWorks
  <2>3. QED
    BY <2>1, <2>2, RetryChanged
<1>3. CASE GiveUp(m)
  <2>1. PICK s \in Shares : scheduleMountRetry(m, s)
    BY <1>3 DEF GiveUp
  <2>2. UNCHANGED run
    BY <1>3 DEF GiveUp
  <2>3. QED
    BY <2>1, <2>2, RetryChanged DEF scheduleMountRetry
<1>4. QED
  BY <1>1, <1>2, <1>3 DEF MonitorStep

-----------------------------------------------------------------------------
(* Type correctness.                                                       *)

Ops == {"none", "create", "failing", "delete", "force", "remount", "maintain",
        "newSlave"}

Tasks == [op: Ops, arg: SUBSET Shares, step: Steps, rest: SUBSET Shares,
          hosts: SUBSET Slaves, list: SUBSET Shares, conns: SUBSET Slaves,
          pairs: SUBSET (Slaves \X Shares)]

MasterTypeOK ==
    /\ rows \subseteq Shares
    /\ connected \subseteq Slaves
    /\ task \in [Proc -> Tasks]
    /\ requests \in 0..MaxRequests
    /\ faults \in 0..MaxFaults

WatchTypeOK ==
    /\ tracked \in [Slaves -> SUBSET Shares]
    /\ stray \in [Slaves -> [Shares -> BOOLEAN]]
    /\ monitor \in [Slaves -> [list: SUBSET Shares, share: SUBSET Shares,
                               tries: 0..Tries]]

(* What was read for a machine to be written to its exports file are rows  *)
(* of that machine.                                                        *)
WritesOwnShares ==
    \A p \in Proc : At(p, "write") =>
        \A m \in task[p].conns : task[p].list \subseteq SharesOf(m)

ExportTypeOK ==
    /\ file \in [Slaves -> SUBSET Shares]
    /\ exported \in [Slaves -> SUBSET Shares]
    /\ mounts \in [Slaves -> [Shares -> {"none", "good", "stale"}]]

Served ==
    /\ \A m \in Slaves :
        file[m] \subseteq SharesOf(m) /\ exported[m] \subseteq SharesOf(m)
    /\ \A m \in Slaves, s \in Shares :
        mounts[m][s] = "good" => s \in exported[Source[s]]

(* The goroutines' records.                                                *)

LEMMA NothingType == Nothing \in Tasks /\ Preparing \in Tasks
  BY DEF Nothing, Preparing, Tasks, Ops, Steps

LEMMA GoType ==
    ASSUME task \in [Proc -> Tasks], NEW p \in Proc, NEW t \in Tasks, Go(p, t)
    PROVE  task' \in [Proc -> Tasks]
  BY DEF Go

LEMMA LookType ==
    ASSUME NEW t \in Tasks
    PROVE  Look(t) \in Tasks /\ Look(t).step # "write"
  BY DEF Look, Nothing, Tasks, Ops, Steps

LEMMA MountedType ==
    ASSUME NEW t \in Tasks
    PROVE  Mounted(t) \in Tasks /\ Mounted(t).step # "write"
<1>1. Nothing.step # "write" /\ Preparing.step # "write"
  BY DEF Nothing, Preparing
<1>2. QED
  BY <1>1, LookType, NothingType DEF Mounted

LEMMA SettledType ==
    ASSUME NEW t \in Tasks, t.step # "write"
    PROVE  Settled(t) \in Tasks /\ Settled(t).step # "write"
<1>1. [t EXCEPT !.step = "mount", !.conns = {}] \in Tasks
  BY DEF Tasks, Steps
<1>2. [t EXCEPT !.step = "mount", !.conns = {}].step = "mount"
  BY DEF Tasks
<1>3. QED
  BY <1>1, <1>2, MountedType DEF Settled

LEMMA MountAllType ==
    ASSUME connected \subseteq Slaves, NEW t \in Tasks,
           NEW l \in SUBSET Shares
    PROVE  MountAll(t, l) \in Tasks /\ MountAll(t, l).step # "write"
<1> DEFINE u == [t EXCEPT !.step = "export", !.list = l,
                          !.conns = connected, !.pairs = {}]
<1>1. u \in Tasks /\ u.step # "write"
  BY DEF Tasks, Steps
<1> HIDE DEF u
<1>2. Settled(u) \in Tasks /\ Settled(u).step # "write"
  BY <1>1, SettledType
<1>3. QED
  BY <1>2, MountedType DEF MountAll, u

LEMMA UnmountingType ==
    ASSUME NEW t \in Tasks, NEW ps \in SUBSET (Slaves \X Shares)
    PROVE  Unmounting(t, ps) \in Tasks /\ Unmounting(t, ps).step # "write"
<1> DEFINE st == CASE ps # {} -> "unmount"
                   [] t.op = "force" -> "remove"
                   [] OTHER -> "deleteRow"
<1>1. st \in {"unmount", "remove", "deleteRow"}
  OBVIOUS
<1> HIDE DEF st
<1>2. [t EXCEPT !.pairs = ps, !.step = st] \in Tasks
      /\ [t EXCEPT !.pairs = ps, !.step = st].step = st
  BY <1>1 DEF Tasks, Steps
<1>3. QED
  BY <1>1, <1>2 DEF Unmounting, st

Good(t) ==
    /\ t \in Tasks
    /\ t.step = "write" => \A m \in t.conns : t.list \subseteq SharesOf(m)

LEMMA GoodGo ==
    ASSUME task \in [Proc -> Tasks], WritesOwnShares, NEW p \in Proc, NEW t,
           Good(t), Go(p, t)
    PROVE  task' \in [Proc -> Tasks] /\ WritesOwnShares'
<1>1. task'[p] = t /\ \A q \in Proc \ {p} : task'[q] = task[q]
  BY DEF Go
<1>2. QED
  BY <1>1, GoType DEF Good, WritesOwnShares, At

LEMMA GotoGood ==
    ASSUME NEW t \in Tasks, NEW st \in Steps \ {"write"}
    PROVE  Good(Goto(t, st))
  BY DEF Good, Goto, Tasks, Steps

LEMMA NothingGood == Good(Nothing) /\ Good(Preparing)
<1>1. Nothing.step # "write" /\ Preparing.step # "write"
  BY DEF Nothing, Preparing
<1>2. QED
  BY <1>1, NothingType DEF Good

(* Every step of a goroutine of the master leaves it a good record.        *)
LEMMA RequestsGood ==
    ASSUME MasterTypeOK, NEW p \in Handlers,
           \/ CreateSharePoint(p) \/ DeleteSharePoint(p) \/ forcedelete(p)
           \/ RemountShareByID(p)
    PROVE  \E t : Good(t) /\ Go(p, t)
<1>0. rows \subseteq Shares /\ connected \subseteq Slaves /\ p \in Proc
  BY DEF MasterTypeOK, Proc
<1>1. ASSUME NEW s \in Shares, NEW o \in Ops, NEW st \in Steps \ {"write"}
      PROVE  Good([Nothing EXCEPT !.op = o, !.arg = {s}, !.step = st])
  BY <1>1 DEF Good, Nothing, Tasks, Steps
<1>2. CASE CreateSharePoint(p)
  BY <1>1, <1>2 DEF CreateSharePoint, Request, Ops, Steps
<1>3. CASE DeleteSharePoint(p)
  BY <1>0, <1>1, <1>3 DEF DeleteSharePoint, Request, Ops, Steps
<1>4. CASE forcedelete(p)
  <2>1. PICK s \in rows : Go(p, Unmounting(
                [Nothing EXCEPT !.op = "force", !.arg = {s}], connected \X {s}))
    BY <1>4 DEF forcedelete, Request
  <2>2. [Nothing EXCEPT !.op = "force", !.arg = {s}] \in Tasks
    BY <1>0 DEF Nothing, Tasks, Ops, Steps
  <2>3. connected \X {s} \in SUBSET (Slaves \X Shares)
    BY <1>0
  <2>4. QED
    BY <2>1, <2>2, <2>3, UnmountingType DEF Good
<1>5. CASE RemountShareByID(p)
  <2>1. PICK s \in rows :
            Go(p, MountAll([Nothing EXCEPT !.op = "remount"], {s}))
    BY <1>5 DEF RemountShareByID, Request
  <2>2. [Nothing EXCEPT !.op = "remount"] \in Tasks
    BY DEF Nothing, Tasks, Ops, Steps
  <2>3. QED
    BY <1>0, <2>1, <2>2, MountAllType DEF Good
<1>6. QED
  BY <1>2, <1>3, <1>4, <1>5

LEMMA SynchronisingGood ==
    ASSUME MasterTypeOK, NEW p \in Proc,
           CreateFolder(p) \/ AddNFSShare(p) \/ ReadShares(p) \/ WriteExports(p)
    PROVE  \E t : Good(t) /\ Go(p, t)
<1>0. /\ rows \subseteq Shares /\ connected \subseteq Slaves
      /\ task[p] \in Tasks
      /\ \A s \in Shares : Source[s] \in Slaves
  BY SharesAssumption DEF MasterTypeOK
<1>1. /\ Good(Goto(task[p], "insert")) /\ Good(Goto(task[p], "sync"))
      /\ Good(Nothing)
  BY <1>0, GotoGood, NothingGood DEF Steps
<1>2. CASE CreateFolder(p)
  BY <1>1, <1>2 DEF CreateFolder
<1>3. CASE WriteExports(p)
  <2> DEFINE t == [Goto(task[p], "sync") EXCEPT
                    !.op = IF @ = "create" THEN "failing" ELSE @]
  <2>1. t \in Tasks /\ t.step # "write"
    BY <1>0 DEF Goto, Tasks, Ops, Steps
  <2>2. Good(t)
    BY <2>1 DEF Good
  <2> HIDE DEF t
  <2>3. \E u \in {Goto(task[p], "sync"), t} : Go(p, u)
    BY <1>3 DEF WriteExports, t
  <2>4. QED
    BY <1>1, <2>2, <2>3
<1>4. CASE AddNFSShare(p)
  <2>1. ASSUME NEW hs \in SUBSET Slaves
        PROVE  Good([task[p] EXCEPT !.step = "sync", !.hosts = hs])
    BY <1>0 DEF Good, Tasks, Steps
  <2>2. rows' = rows \cup task[p].arg => {Source[s] : s \in rows'} \in SUBSET Slaves
    BY <1>0 DEF Tasks
  <2>3. QED
    BY <1>1, <1>4, <2>1, <2>2 DEF AddNFSShare
<1>5. CASE ReadShares(p)
  <2>1. ASSUME NEW m \in task[p].hosts
        PROVE  Good([task[p] EXCEPT !.step = "write", !.hosts = @ \ {m},
                            !.conns = {m}, !.list = rows \cap SharesOf(m)])
    <3> DEFINE t == [task[p] EXCEPT !.step = "write", !.hosts = @ \ {m},
                            !.conns = {m}, !.list = rows \cap SharesOf(m)]
    <3>1. t.conns = {m} /\ t.list = rows \cap SharesOf(m)
      BY <1>0 DEF Tasks
    <3>2. /\ m \in Slaves /\ task[p].hosts \ {m} \in SUBSET Slaves
          /\ {m} \in SUBSET Slaves
          /\ rows \cap SharesOf(m) \in SUBSET Shares
          /\ "write" \in Steps
      BY <1>0 DEF Tasks, SharesOf, Steps
    <3>3. t \in Tasks
      BY <1>0, <3>2 DEF Tasks
    <3>4. QED
      BY <3>1, <3>3 DEF Good
  <2>2. Good(MountAll(task[p], rows))
    BY <1>0, MountAllType DEF Good
  <2>3. ASSUME NEW m \in task[p].hosts, At(p, "sync")
        PROVE  Good([task[p] EXCEPT !.hosts = @ \ {m}])
    BY <1>0, <2>3 DEF Good, Tasks, At
  <2>4. QED
    BY <1>1, <1>5, <2>1, <2>2, <2>3 DEF ReadShares
<1>6. QED
  BY <1>2, <1>3, <1>4, <1>5

LEMMA MountingGood ==
    ASSUME MasterTypeOK, NEW p \in Proc, MountStep(p)
    PROVE  \E t : Good(t) /\ Go(p, t)
<1>0. task[p] \in Tasks
  BY DEF MasterTypeOK
<1>1. ASSUME NEW t \in Tasks, t.step # "write" PROVE Good(Settled(t))
  BY <1>1, SettledType DEF Good
<1>2. CASE CreateSharedFolder(p) \/ CreateFails(p)
  <2>1. At(p, "export")
    BY <1>2 DEF CreateSharedFolder, CreateFails
  <2>2. ASSUME NEW s \in task[p].list
        PROVE  /\ [task[p] EXCEPT !.list = @ \ {s}] \in Tasks
               /\ [task[p] EXCEPT !.list = @ \ {s}].step # "write"
               /\ [task[p] EXCEPT !.list = @ \ {s},
                        !.pairs = @ \cup (task[p].conns \X {s})] \in Tasks
               /\ [task[p] EXCEPT !.list = @ \ {s},
                        !.pairs = @ \cup (task[p].conns \X {s})].step # "write"
    BY <1>0, <2>1 DEF Tasks, At
  <2>3. QED
    BY <1>1, <1>2, <2>2 DEF CreateSharedFolder, CreateFails
<1>3. CASE (\E m \in Slaves : MountSharedFolder(p, m)) \/ MountFails(p)
  <2>1. At(p, "mount")
    BY <1>3 DEF MountSharedFolder, MountFails
  <2>2. ASSUME NEW pair
        PROVE  /\ [task[p] EXCEPT !.pairs = @ \ {pair}] \in Tasks
               /\ [task[p] EXCEPT !.pairs = @ \ {pair}].step # "write"
    BY <1>0, <2>1 DEF Tasks, At
  <2>3. QED
    BY <1>1, <1>3, <2>2 DEF MountSharedFolder, MountFails
<1>4. QED
  BY <1>2, <1>3 DEF MountStep

LEMMA RemovingGood ==
    ASSUME MasterTypeOK, NEW p \in Proc,
           Check(p) \/ RemoveSharedFolder(p) \/ Unmount(p) \/ RemoveNFSShare(p)
           \/ MaintainStep(p)
    PROVE  \E t : Good(t) /\ Go(p, t)
<1>0. /\ rows \subseteq Shares /\ connected \subseteq Slaves
      /\ task[p] \in Tasks /\ \A s \in Shares : Source[s] \in Slaves
  BY SharesAssumption DEF MasterTypeOK
<1>1. Good(Nothing)
  BY NothingGood
<1>2. CASE Check(p)
  <2>1. Good([task[p] EXCEPT !.step = "sync", !.hosts = HostsWithShares])
    BY <1>0 DEF Good, Tasks, Steps, HostsWithShares
  <2>2. QED
    BY <1>1, <1>2, <2>1 DEF Check
<1>3. CASE RemoveSharedFolder(p)
  <2>1. Good(Goto(task[p], "deleteRow"))
    BY <1>0, GotoGood DEF Steps
  <2>2. ASSUME NEW s \in task[p].arg
        PROVE  Good(Unmounting(task[p], connected \X {s}))
    <3>1. connected \X {s} \in SUBSET (Slaves \X Shares)
      BY <1>0 DEF Tasks
    <3>2. QED
      BY <1>0, <3>1, UnmountingType DEF Good
  <2>3. QED
    BY <1>1, <1>3, <2>1, <2>2 DEF RemoveSharedFolder
<1>4. CASE Unmount(p)
  <2>1. ASSUME NEW pair
        PROVE  Good(Unmounting(task[p], task[p].pairs \ {pair}))
    <3>1. task[p].pairs \ {pair} \in SUBSET (Slaves \X Shares)
      BY <1>0 DEF Tasks
    <3>2. QED
      BY <1>0, <3>1, UnmountingType DEF Good
  <2>2. QED
    BY <1>4, <2>1 DEF Unmount
<1>5. CASE RemoveNFSShare(p)
  BY <1>1, <1>5 DEF RemoveNFSShare
<1>6. CASE MaintainStep(p)
  <2>1. ASSUME NEW s
        PROVE  [task[p] EXCEPT !.rest = @ \ {s}] \in Tasks
    BY <1>0 DEF Tasks
  <2>2. CASE ListShares(p)
    <3>1. Good([Nothing EXCEPT !.op = "maintain", !.step = "look", !.rest = rows])
      BY <1>0 DEF Good, Nothing, Tasks, Ops, Steps
    <3>2. QED
      BY <2>2, <3>1 DEF ListShares
  <2>3. CASE FoundBroken(p)
    <3>1. PICK s \in task[p].rest :
            Go(p, MountAll([task[p] EXCEPT !.rest = @ \ {s}], {s}))
      BY <2>3 DEF FoundBroken
    <3>2. {s} \in SUBSET Shares
      BY <1>0 DEF Tasks
    <3>3. QED
      BY <1>0, <2>1, <3>1, <3>2, MountAllType DEF Good
  <2>4. CASE PassOver(p)
    BY <2>1, <2>4, LookType DEF PassOver, Good
  <2>5. QED
    BY <1>6, <2>2, <2>3, <2>4 DEF MaintainStep
<1>7. QED
  BY <1>2, <1>3, <1>4, <1>5, <1>6

(* The exports and the mounts.                                             *)

ServedInv == ExportTypeOK /\ Served

LEMMA ExportServed ==
    ASSUME ServedInv, NEW m \in Slaves, NEW es \in SUBSET SharesOf(m),
           Export(m, es)
    PROVE  ServedInv'
<1>1. /\ SharesOf(m) \subseteq Shares
      /\ \A s \in Shares : Source[s] \in Slaves
  BY SharesAssumption DEF SharesOf
<1>2. /\ file' \in [Slaves -> SUBSET Shares] /\ exported' \in [Slaves -> SUBSET Shares]
      /\ file'[m] = es /\ exported'[m] = es
      /\ \A n \in Slaves \ {m} : file'[n] = file[n] /\ exported'[n] = exported[n]
  BY <1>1 DEF ServedInv, ExportTypeOK, Export
<1>3. /\ mounts' \in [Slaves -> [Shares -> {"none", "good", "stale"}]]
      /\ \A n \in Slaves, s \in Shares : mounts'[n][s] = "good" =>
            mounts[n][s] = "good" /\ s \notin exported[m] \ es
  BY DEF ServedInv, ExportTypeOK, Export
<1>4. ASSUME NEW n \in Slaves
      PROVE  file'[n] \subseteq SharesOf(n) /\ exported'[n] \subseteq SharesOf(n)
  BY <1>2 DEF ServedInv, Served
<1>5. ASSUME NEW n \in Slaves, NEW s \in Shares, mounts'[n][s] = "good"
      PROVE  s \in exported'[Source[s]]
  <2>1. s \in exported[Source[s]] /\ s \notin exported[m] \ es
    BY <1>3, <1>5 DEF ServedInv, Served
  <2>2. QED
    BY <1>1, <1>2, <2>1
<1>6. Served'
  BY <1>4, <1>5 DEF Served, SharesOf
<1>7. QED
  BY <1>2, <1>3, <1>6 DEF ServedInv, ExportTypeOK

LEMMA MountServed ==
    ASSUME ServedInv, NEW m \in Slaves, NEW s \in Shares,
           NEW v \in {"none", "good", "stale"},
           v = "good" => mounts[m][s] = "good" \/ s \in exported[Source[s]],
           mounts' = [mounts EXCEPT ![m][s] = v],
           UNCHANGED <<file, exported>>
    PROVE  ServedInv'
<1>1. /\ mounts' \in [Slaves -> [Shares -> {"none", "good", "stale"}]]
      /\ \A n \in Slaves, u \in Shares :
            mounts'[n][u] = IF n = m /\ u = s THEN v ELSE mounts[n][u]
  BY DEF ServedInv, ExportTypeOK
<1>2. QED
  BY <1>1 DEF ServedInv, ExportTypeOK, Served

LEMMA MountWorksServed ==
    ASSUME ServedInv, NEW m \in Slaves, NEW s \in Shares,
           mountSharedFolderOnce(m, s), UNCHANGED <<file, exported>>
    PROVE  ServedInv'
  BY MountServed DEF mountSharedFolderOnce

LEMMA MountErrorServed ==
    ASSUME ServedInv, NEW m \in Slaves, NEW s \in Shares,
           MountError(m, s), UNCHANGED <<file, exported>>
    PROVE  ServedInv'
<1>1. PICK v \in {"none", "good"} :
        /\ mounts' = [mounts EXCEPT ![m][s] = v]
        /\ v = "good" => mounts[m][s] = "good"
  BY DEF MountError, ServedInv, ExportTypeOK
<1>2. QED
  BY <1>1, MountServed

LEMMA RestartServed ==
    ASSUME ServedInv, NEW m \in Slaves, Restart(m)
    PROVE  ServedInv'
<1>1. /\ file' \in [Slaves -> SUBSET Shares]
      /\ file'[m] = {} /\ \A n \in Slaves \ {m} : file'[n] = file[n]
  BY DEF Restart, ServedInv, ExportTypeOK
<1>2. CASE /\ UNCHANGED exported
           /\ mounts' = [mounts EXCEPT ![m] = [s \in Shares |->
                            IF @[s] = "stale" THEN "none" ELSE @[s]]]
  <2>1. /\ mounts' \in [Slaves -> [Shares -> {"none", "good", "stale"}]]
        /\ \A n \in Slaves, s \in Shares :
                mounts'[n][s] = "good" => mounts[n][s] = "good"
    BY <1>2 DEF ServedInv, ExportTypeOK
  <2>2. QED
    BY <1>1, <1>2, <2>1 DEF ServedInv, ExportTypeOK, Served
<1>3. CASE /\ exported' = [exported EXCEPT ![m] = {}]
           /\ mounts' = [n \in Slaves |-> [s \in Shares |->
                CASE n = m -> "none"
                  [] n # m /\ mounts[n][s] = "good" /\ s \in exported[m]
                        -> "stale"
                  [] OTHER -> mounts[n][s]]]
  <2>1. /\ mounts' \in [Slaves -> [Shares -> {"none", "good", "stale"}]]
        /\ \A n \in Slaves, s \in Shares : mounts'[n][s] = "good" =>
                mounts[n][s] = "good" /\ s \notin exported[m]
    BY <1>3 DEF ServedInv, ExportTypeOK
  <2>2. /\ exported' \in [Slaves -> SUBSET Shares] /\ exported'[m] = {}
        /\ \A n \in Slaves \ {m} : exported'[n] = exported[n]
    BY <1>3 DEF ServedInv, ExportTypeOK
  <2>3. Served'
    BY <1>1, <2>1, <2>2, SharesAssumption DEF ServedInv, Served
  <2>4. QED
    BY <1>1, <2>1, <2>2, <2>3 DEF ServedInv, ExportTypeOK
<1>4. QED
  BY <1>2, <1>3 DEF Restart

(* The watch a slave keeps over its mounts.                                *)

LEMMA TrackedType ==
    ASSUME WatchTypeOK, NEW m \in Slaves, NEW s \in Shares,
           NEW S \in SUBSET Shares,
           \/ tracked' = [tracked EXCEPT ![m] = @ \cup {s}]
           \/ tracked' = [tracked EXCEPT ![m] = @ \ S]
           \/ UNCHANGED tracked
    PROVE  tracked' \in [Slaves -> SUBSET Shares]
  BY DEF WatchTypeOK

LEMMA MonitorWatches ==
    ASSUME WatchTypeOK, NEW m \in Slaves, MonitorStep(m)
    PROVE  WatchTypeOK'
<1>0. /\ monitor[m] \in [list: SUBSET Shares, share: SUBSET Shares, tries: 0..Tries]
      /\ tracked[m] \in SUBSET Shares
      /\ Tries \in Nat \ {0} /\ 0 \in 0..Tries /\ Tries \in 0..Tries
      /\ {} \in SUBSET Shares
  BY BoundsAssumption DEF WatchTypeOK
<1> DEFINE M == [list: SUBSET Shares, share: SUBSET Shares, tries: 0..Tries]
<1>1. ASSUME NEW r \in M, monitor' = [monitor EXCEPT ![m] = r]
      PROVE  monitor' \in [Slaves -> M]
  BY <1>1 DEF WatchTypeOK
<1>2. CASE Tick(m)
  <2>1. monitor' = [monitor EXCEPT ![m] = [@ EXCEPT !.list = tracked[m]]]
    BY <1>2 DEF Tick
  <2>2. [monitor[m] EXCEPT !.list = tracked[m]] \in M
    BY <1>0
  <2>3. QED
    BY <1>1, <1>2, <2>1, <2>2 DEF Tick, WatchTypeOK
<1>3. CASE Inspect(m)
  <2>1. PICK s \in monitor[m].list, S \in SUBSET Shares :
            monitor' = [monitor EXCEPT ![m] =
                            [monitor[m] EXCEPT !.list = monitor[m].list \ {s},
                                               !.share = S]]
    <3>1. PICK s \in monitor[m].list :
            monitor' = [monitor EXCEPT ![m].list = @ \ {s}, ![m].share =
                            IF mounts[m][s] = "good" THEN {} ELSE {s}]
      BY <1>3 DEF Inspect
    <3> DEFINE S == IF mounts[m][s] = "good" THEN {} ELSE {s}
    <3>2. S \in SUBSET Shares
      BY <1>0
    <3>3. monitor' = [monitor EXCEPT ![m] =
                            [monitor[m] EXCEPT !.list = monitor[m].list \ {s},
                                               !.share = S]]
      BY <3>1 DEF WatchTypeOK
    <3> HIDE DEF S
    <3>4. QED
      BY <3>2, <3>3
  <2>2. [monitor[m] EXCEPT !.list = monitor[m].list \ {s},
                             !.share = S] \in M
    BY <1>0
  <2>3. QED
    BY <1>1, <1>3, <2>1, <2>2 DEF Inspect, WatchTypeOK
<1>4. CASE RemountFails(m)
  <2>1. [monitor[m] EXCEPT !.tries = monitor[m].tries + 1] \in M
    BY <1>0, <1>4 DEF RemountFails
  <2>2. monitor' = [monitor EXCEPT ![m] =
                            [monitor[m] EXCEPT !.tries = monitor[m].tries + 1]]
    BY <1>4 DEF RemountFails
  <2>3. QED
    BY <1>1, <1>4, <2>1, <2>2 DEF RemountFails, WatchTypeOK
<1>5. CASE RemountWorks(m)
  <2>1. [monitor[m] EXCEPT !.share = {}, !.tries = 0] \in M
    BY <1>0
  <2>2. monitor' = [monitor EXCEPT ![m] = [@ EXCEPT !.share = {}, !.tries = 0]]
    BY <1>5 DEF RemountWorks
  <2>3. PICK s \in Shares : tracked' = [tracked EXCEPT ![m] = @ \cup {s}]
    BY <1>0, <1>5 DEF RemountWorks, mountSharedFolderOnce
  <2>4. tracked' \in [Slaves -> SUBSET Shares]
    BY <2>3, TrackedType
  <2>5. QED
    BY <1>1, <1>5, <2>1, <2>2, <2>4 DEF RemountWorks, WatchTypeOK
<1>6. CASE GiveUp(m)
  <2>1. [monitor[m] EXCEPT !.tries = Tries] \in M
    BY <1>0
  <2>2. monitor' = [monitor EXCEPT ![m] = [@ EXCEPT !.tries = Tries]]
    BY <1>6 DEF GiveUp
  <2>3. QED
    BY <1>1, <1>6, <2>1, <2>2 DEF GiveUp, WatchTypeOK
<1>7. CASE untrackMount(m)
  <2>1. [monitor[m] EXCEPT !.share = {}, !.tries = 0] \in M
    BY <1>0
  <2>2. monitor' = [monitor EXCEPT ![m] = [@ EXCEPT !.share = {}, !.tries = 0]]
    BY <1>7 DEF untrackMount
  <2>3. tracked' \in [Slaves -> SUBSET Shares]
    BY <1>0, <1>7 DEF untrackMount, WatchTypeOK
  <2>4. QED
    BY <1>1, <1>7, <2>1, <2>2, <2>3 DEF untrackMount, WatchTypeOK
<1>8. QED
  BY <1>2, <1>3, <1>4, <1>5, <1>6, <1>7 DEF MonitorStep

-----------------------------------------------------------------------------
(* The invariant, and its steps.                                           *)

MasterInv == MasterTypeOK /\ WritesOwnShares
SlaveInv == WatchTypeOK /\ ServedInv /\ RetryInv
SharesInv == MasterInv /\ SlaveInv

LEMMA SlaveUnchanged ==
    /\ WatchTypeOK /\ UNCHANGED <<tracked, stray, monitor>> => WatchTypeOK'
    /\ ServedInv /\ UNCHANGED <<file, exported, mounts>> => ServedInv'
    /\ RetryInv /\ UNCHANGED <<retry, run>> => RetryInv'
  BY DEF WatchTypeOK, ServedInv, ExportTypeOK, Served, RetryInv, RetryTypeOK,
         RetryIsArmed

LEMMA MasterUnchanged ==
    ASSUME MasterInv, UNCHANGED <<rows, registry, task, requests>>
    PROVE  MasterInv'
  BY DEF MasterInv, MasterTypeOK, WritesOwnShares, At, registry

(* A step of the master leaves a good record, typed rows and a count of    *)
(* requests within its bound.                                              *)
LEMMA MasterSteps ==
    ASSUME MasterInv, UNCHANGED registry, rows' \subseteq Shares,
           requests' \in 0..MaxRequests,
           NEW p \in Proc, \E t : Good(t) /\ Go(p, t)
    PROVE  MasterInv'
  BY GoodGo DEF MasterInv, MasterTypeOK, registry

LEMMA RequestInv ==
    ASSUME SharesInv, NEW p \in Handlers,
           \/ CreateSharePoint(p) \/ DeleteSharePoint(p) \/ forcedelete(p)
           \/ RemountShareByID(p)
    PROVE  SharesInv'
<1>0. p \in Proc /\ rows \subseteq Shares /\ requests \in 0..MaxRequests
  BY DEF Proc, SharesInv, MasterInv, MasterTypeOK
<1>1. requests' \in 0..MaxRequests /\ UNCHANGED <<rows, registry, exports, slave>>
  <2>1. ASSUME NEW t, Request(p, t)
        PROVE  /\ requests' \in 0..MaxRequests
               /\ UNCHANGED <<rows, registry, exports, slave>>
    BY <1>0, <2>1, BoundsAssumption DEF Request, UnchangedSlaves
  <2>2. QED
    BY <2>1
    DEF CreateSharePoint, DeleteSharePoint, forcedelete, RemountShareByID
<1>2. MasterInv'
  BY <1>0, <1>1, RequestsGood, MasterSteps DEF SharesInv, MasterInv
<1>3. SlaveInv'
  BY <1>1, SlaveUnchanged DEF SharesInv, SlaveInv, exports, slave
<1>4. QED
  BY <1>2, <1>3 DEF SharesInv

(* The steps that change rows or records only.                             *)
LEMMA BookkeepingInv ==
    ASSUME SharesInv, NEW p \in Proc,
           \/ AddNFSShare(p) \/ ReadShares(p) \/ Check(p) \/ RemoveNFSShare(p)
           \/ MaintainStep(p)
    PROVE  SharesInv'
<1>0. /\ rows \subseteq Shares /\ requests \in 0..MaxRequests
      /\ task[p].arg \subseteq Shares
  BY DEF SharesInv, MasterInv, MasterTypeOK, Tasks
<1>1. rows' \subseteq Shares /\ UNCHANGED <<requests, registry, exports, slave>>
  BY <1>0
  DEF AddNFSShare, ReadShares, Check, RemoveNFSShare, MaintainStep, ListShares,
      FoundBroken, PassOver, UnchangedSlaves
<1>2. MasterInv'
  BY <1>0, <1>1, SynchronisingGood, RemovingGood, MasterSteps
  DEF SharesInv, MasterInv
<1>3. SlaveInv'
  BY <1>1, SlaveUnchanged DEF SharesInv, SlaveInv, exports, slave
<1>4. QED
  BY <1>2, <1>3 DEF SharesInv

(* The steps that write an exports file.                                   *)
LEMMA ExportingInv ==
    ASSUME SharesInv, NEW p \in Proc,
           \/ CreateFolder(p) \/ WriteExports(p) \/ RemoveSharedFolder(p)
           \/ CreateSharedFolder(p) \/ CreateFails(p)
    PROVE  SharesInv'
<1>0. /\ rows \subseteq Shares /\ connected \subseteq Slaves
      /\ requests \in 0..MaxRequests
      /\ task[p] \in Tasks /\ WritesOwnShares /\ ServedInv
      /\ \A s \in Shares : Source[s] \in Slaves
  BY SharesAssumption DEF SharesInv, MasterInv, SlaveInv, MasterTypeOK
<1>1. UNCHANGED <<rows, registry, requests, tracked, retry, stray, run, monitor>>
  BY DEF CreateFolder, WriteExports, RemoveSharedFolder, CreateSharedFolder,
         CreateFails
<1>2. MasterInv'
  BY <1>0, <1>1, SynchronisingGood, RemovingGood, MountingGood, MasterSteps
  DEF SharesInv, MasterInv, MountStep
<1>3. ServedInv'
  <2>1. CASE UNCHANGED <<exports, mounts>>
    BY <1>0, <2>1, SlaveUnchanged DEF exports
  <2>2. ASSUME NEW s \in Shares,
               Source[s] \in connected,
               \/ Export(Source[s], file[Source[s]] \cup {s})
               \/ Export(Source[s], file[Source[s]] \ {s})
        PROVE  ServedInv'
    <3>1. /\ file[Source[s]] \subseteq SharesOf(Source[s])
          /\ s \in SharesOf(Source[s])
      BY <1>0 DEF ServedInv, Served, SharesOf
    <3>2. QED
      BY <1>0, <2>2, <3>1, ExportServed
  <2>3. ASSUME NEW m \in task[p].conns, At(p, "write"), Export(m, task[p].list)
        PROVE  ServedInv'
    <3>1. m \in Slaves
      BY <1>0 DEF Tasks
    <3>2. task[p].list \subseteq SharesOf(m)
      BY <1>0, <2>3 DEF WritesOwnShares
    <3>3. QED
      BY <1>0, <2>3, <3>1, <3>2, ExportServed
  <2>4. task[p].arg \subseteq Shares /\ task[p].list \subseteq Shares
    BY <1>0 DEF Tasks
  <2>5. QED
    BY <2>1, <2>2, <2>3, <2>4
    DEF CreateFolder, WriteExports, RemoveSharedFolder, CreateSharedFolder,
        CreateFails
<1>4. SlaveInv'
  BY <1>1, <1>3, SlaveUnchanged DEF SharesInv, SlaveInv
<1>5. QED
  BY <1>2, <1>4 DEF SharesInv

(* The steps that ask a slave to mount or to unmount.                      *)
LEMMA MountingInv ==
    ASSUME SharesInv, NEW p \in Proc,
           \/ \E m \in Slaves : MountSharedFolder(p, m)
           \/ MountFails(p) \/ Unmount(p)
    PROVE  SharesInv'
<1>0. /\ task[p] \in Tasks /\ rows \subseteq Shares /\ requests \in 0..MaxRequests
      /\ WatchTypeOK /\ ServedInv /\ RetryInv
  BY DEF SharesInv, MasterInv, SlaveInv, MasterTypeOK
<1>1. UNCHANGED <<rows, registry, requests, file, exported, stray, run, monitor>>
  BY DEF MountSharedFolder, MountFails, Unmount, exports
<1>2. MasterInv'
  BY <1>0, <1>1, MountingGood, RemovingGood, MasterSteps
  DEF SharesInv, MasterInv, MountStep
<1>3. SlaveInv'
  <2>1. ASSUME tracked' \in [Slaves -> SUBSET Shares] PROVE WatchTypeOK'
    BY <1>0, <1>1, <2>1 DEF WatchTypeOK
  <2>2. ASSUME NEW m \in Slaves, MountSharedFolder(p, m) PROVE SlaveInv'
    <3>1. PICK s \in Shares : mountSharedFolderOnce(m, s)
      BY <2>2 DEF MountSharedFolder
    <3>2. ServedInv'
      BY <1>0, <1>1, <3>1, MountWorksServed
    <3>3. RetryInv'
      BY <1>0, <1>1, <3>1, RetryChanged DEF mountSharedFolderOnce
    <3>4. WatchTypeOK'
      BY <1>0, <2>1, <3>1, TrackedType DEF mountSharedFolderOnce
    <3>5. QED
      BY <3>2, <3>3, <3>4 DEF SlaveInv
  <2>3. ASSUME MountFails(p) PROVE SlaveInv'
    <3>1. WatchTypeOK'
      BY <1>0, <1>1, <2>3, SlaveUnchanged DEF MountFails
    <3>2. CASE UNCHANGED <<mounts, retry>>
      BY <1>0, <1>1, <3>1, <3>2, SlaveUnchanged DEF SlaveInv
    <3>3. ASSUME NEW m \in Slaves, NEW s \in Shares, MountError(m, s),
                 scheduleMountRetry(m, s)
          PROVE  SlaveInv'
      <4>1. ServedInv'
        BY <1>0, <1>1, <3>3, MountErrorServed
      <4>2. RetryInv'
        BY <1>0, <1>1, <3>3, RetryChanged DEF scheduleMountRetry
      <4>3. QED
        BY <3>1, <4>1, <4>2 DEF SlaveInv
    <3>4. \A pair \in task[p].pairs : pair[1] \in Slaves /\ pair[2] \in Shares
      BY <1>0 DEF Tasks
    <3>5. QED
      BY <2>3, <3>2, <3>3, <3>4 DEF MountFails
  <2>4. ASSUME Unmount(p) PROVE SlaveInv'
    <3>1. CASE UNCHANGED <<mounts, tracked, retry>>
      BY <1>0, <1>1, <3>1, SlaveUnchanged DEF SlaveInv
    <3>2. ASSUME NEW m \in Slaves, NEW s \in Shares,
                 mounts' = [mounts EXCEPT ![m][s] = "none"],
                 tracked' = [tracked EXCEPT ![m] = @ \ {s}],
                 retry' = [retry EXCEPT ![m][s] = "none"]
          PROVE  SlaveInv'
      <4>1. ServedInv'
        BY <1>0, <1>1, <3>2, MountServed
      <4>2. RetryInv'
        BY <1>0, <1>1, <3>2, RetryChanged
      <4>3. WatchTypeOK'
        BY <1>0, <2>1, <3>2 DEF WatchTypeOK
      <4>4. QED
        BY <4>1, <4>2, <4>3 DEF SlaveInv
    <3>3. \A pair \in task[p].pairs : pair[1] \in Slaves /\ pair[2] \in Shares
      BY <1>0 DEF Tasks
    <3>4. QED
      BY <2>4, <3>1, <3>2, <3>3 DEF Unmount
  <2>5. QED
    BY <2>2, <2>3, <2>4
<1>4. QED
  BY <1>2, <1>3 DEF SharesInv

(* What happens on the slaves.                                             *)
LEMMA ConnectionsInv ==
    ASSUME SharesInv, NEW m \in Slaves,
           Connect(m) \/ Disconnect(m) \/ Restart(m)
    PROVE  SharesInv'
<1>0. /\ MasterTypeOK /\ WritesOwnShares /\ m \in Proc
      /\ WatchTypeOK /\ ServedInv /\ RetryInv
  BY DEF SharesInv, MasterInv, SlaveInv, Proc
<1>1. CASE Connect(m)
  <2>1. task' \in [Proc -> Tasks] /\ WritesOwnShares'
    <3>1. CASE UNCHANGED task
      BY <1>0, <3>1 DEF MasterTypeOK, WritesOwnShares, At
    <3>2. CASE Go(m, Preparing)
      BY <1>0, <3>2, NothingGood, GoodGo DEF MasterTypeOK
    <3>3. QED
      BY <1>1, <3>1, <3>2 DEF Connect
  <2>2. MasterInv'
    BY <1>0, <1>1, <2>1 DEF Connect, MasterInv, MasterTypeOK
  <2>3. SlaveInv'
    BY <1>0, <1>1, SlaveUnchanged DEF Connect, SlaveInv, exports, slave
  <2>4. QED
    BY <2>2, <2>3 DEF SharesInv
<1>2. CASE Disconnect(m) \/ Restart(m)
  <2>1. Fault(m)
    BY <1>2 DEF Disconnect, Restart
  <2>2. MasterInv'
    BY <1>0, <2>1, BoundsAssumption
    DEF Fault, MasterInv, MasterTypeOK, WritesOwnShares, At
  <2>3. CASE Disconnect(m)
    BY <1>0, <2>2, <2>3, SlaveUnchanged
    DEF Disconnect, SharesInv, SlaveInv, exports, slave
  <2>4. CASE Restart(m)
    <3>1. ServedInv' /\ RetryInv'
      BY <1>0, <2>4, RestartServed, RestartRetry
    <3>2. Resting \in [list: SUBSET Shares, share: SUBSET Shares, tries: 0..Tries]
      BY BoundsAssumption DEF Resting
    <3>3. /\ tracked' = [tracked EXCEPT ![m] = {}]
          /\ stray' = [stray EXCEPT ![m] = [s \in Shares |-> FALSE]]
          /\ monitor' = [monitor EXCEPT ![m] = Resting]
      BY <2>4 DEF Restart
    <3>4. WatchTypeOK'
      BY <1>0, <3>2, <3>3 DEF WatchTypeOK
    <3>5. QED
      BY <2>2, <3>1, <3>4 DEF SharesInv, SlaveInv
  <2>5. QED
    BY <1>2, <2>3, <2>4
<1>3. QED
  BY <1>1, <1>2

LEMMA TimersInv ==
    ASSUME SharesInv, NEW m \in Slaves, NEW s \in Shares,
           Fire(m, s) \/ FireStray(m, s) \/ RunStep(m, s)
    PROVE  SharesInv'
<1>0. MasterInv /\ WatchTypeOK /\ ServedInv /\ RetryInv
  BY DEF SharesInv, SlaveInv
<1>1. UNCHANGED <<rows, registry, task, requests, file, exported, monitor>>
  BY DEF Fire, FireStray, RunStep, RunFails, RunMounts, exports
<1>2. MasterInv'
  BY <1>0, <1>1, MasterUnchanged
<1>3. CASE Fire(m, s)
  BY <1>0, <1>2, <1>3, RunBegins, SlaveUnchanged
  DEF Fire, exports, SharesInv, SlaveInv
<1>4. CASE FireStray(m, s)
  <2>1. WatchTypeOK'
    BY <1>0, <1>4 DEF FireStray, WatchTypeOK
  <2>2. ServedInv'
    BY <1>0, <1>4, SlaveUnchanged DEF FireStray, exports
  <2>3. QED
    BY <1>0, <1>2, <1>4, <2>1, <2>2, RunBegins DEF SharesInv, SlaveInv
<1>5. CASE RunFails(m, s)
  <2>1. WatchTypeOK'
    BY <1>0, <1>5 DEF RunFails, WatchTypeOK
  <2>2. ServedInv'
    BY <1>0, <1>1, <1>5, MountErrorServed DEF RunFails
  <2>3. RetryInv'
    BY <1>0, <1>5, RunEnds DEF RunFails
  <2>4. QED
    BY <1>2, <2>1, <2>2, <2>3 DEF SharesInv, SlaveInv
<1>6. CASE RunMounts(m, s)
  <2>1. tracked' \in [Slaves -> SUBSET Shares]
    BY <1>0, <1>6, TrackedType DEF RunMounts, mountSharedFolderOnce
  <2>2. WatchTypeOK'
    BY <1>0, <1>6, <2>1 DEF RunMounts, WatchTypeOK
  <2>3. ServedInv'
    BY <1>0, <1>1, <1>6, MountWorksServed DEF RunMounts
  <2>4. RetryInv'
    BY <1>0, <1>6, RunEnds DEF RunMounts, mountSharedFolderOnce
  <2>5. QED
    BY <1>2, <2>2, <2>3, <2>4 DEF SharesInv, SlaveInv
<1>7. QED
  BY <1>3, <1>4, <1>5, <1>6 DEF RunStep

LEMMA MonitorInv ==
    ASSUME SharesInv, NEW m \in Slaves, MonitorStep(m)
    PROVE  SharesInv'
<1>0. MasterInv /\ WatchTypeOK /\ ServedInv /\ RetryInv
  BY DEF SharesInv, SlaveInv
<1>1. UNCHANGED <<rows, registry, task, requests, file, exported>>
  BY DEF MonitorStep, Tick, Inspect, RemountFails, RemountWorks, GiveUp,
         untrackMount, exports
<1>2. monitor[m].share \subseteq Shares
  BY <1>0 DEF WatchTypeOK
<1>3. MasterInv' /\ WatchTypeOK' /\ RetryInv'
  BY <1>0, <1>1, <1>2, MasterUnchanged, MonitorWatches, MonitorKeepsRetryInv
<1>4. ServedInv'
  <2>1. CASE UNCHANGED mounts
    BY <1>0, <1>1, <2>1, SlaveUnchanged
  <2>2. ASSUME NEW s \in Shares, MountError(m, s) \/ mountSharedFolderOnce(m, s)
        PROVE  ServedInv'
    BY <1>0, <1>1, <2>2, MountErrorServed, MountWorksServed
  <2>3. QED
    BY <1>2, <2>1, <2>2
    DEF MonitorStep, Tick, Inspect, RemountFails, RemountWorks, GiveUp,
        untrackMount
<1>5. QED
  BY <1>3, <1>4 DEF SharesInv, SlaveInv

LEMMA InitInv == Init => SharesInv
<1> SUFFICES ASSUME Init PROVE SharesInv
  OBVIOUS
<1>1. Resting \in [list: SUBSET Shares, share: SUBSET Shares, tries: 0..Tries]
  BY BoundsAssumption DEF Resting
<1>2. \A p \in Proc : task[p] = Nothing /\ ~At(p, "write")
  BY DEF Init, At, Nothing
<1>3. MasterInv
  BY <1>2, NothingType, BoundsAssumption
  DEF Init, MasterInv, MasterTypeOK, WritesOwnShares
<1>4. WatchTypeOK
  BY <1>1 DEF Init, WatchTypeOK
<1>5. ServedInv
  BY DEF Init, ServedInv, ExportTypeOK, Served
<1>6. RetryInv
  BY DEF Init, RetryInv, RetryTypeOK, RetryIsArmed
<1>7. QED
  BY <1>3, <1>4, <1>5, <1>6 DEF SharesInv, SlaveInv

LEMMA NextInv == SharesInv /\ [Next]_vars => SharesInv'
<1> SUFFICES ASSUME SharesInv, [Next]_vars PROVE SharesInv'
  OBVIOUS
<1>1. CASE UNCHANGED vars
  <2>1. MasterInv'
    BY <1>1, MasterUnchanged DEF vars, SharesInv
  <2>2. QED
    BY <1>1, <2>1, SlaveUnchanged DEF vars, exports, slave, SharesInv, SlaveInv
<1>2. ASSUME NEW p \in Proc, Continue(p) \/ MountStep(p) \/ MaintainStep(p)
      PROVE  SharesInv'
  BY <1>2, BookkeepingInv, ExportingInv, MountingInv DEF Continue, MountStep
<1>3. QED
  BY <1>1, <1>2, RequestInv, ConnectionsInv, TimersInv, MonitorInv DEF Next

(* A slave exports only folders of its own, whatever stale list of rows is *)
(* written to its exports file, and no mount counts as good whose share is *)
(* not exported; and every variable has its type.                          *)
THEOREM SharesTypeOK == Spec => []TypeOK
<1>1. SharesInv => TypeOK
  <2> SUFFICES ASSUME SharesInv PROVE TypeOK
    OBVIOUS
  <2>1. \A p \in Proc : task[p].step \in Steps
    BY DEF SharesInv, MasterInv, MasterTypeOK, Tasks
  <2>2. QED
    BY <2>1
    DEF SharesInv, MasterInv, SlaveInv, MasterTypeOK, WatchTypeOK, ServedInv,
        ExportTypeOK, Served, RetryInv, RetryTypeOK, TypeOK
<1>2. QED
  BY <1>1, InitInv, NextInv, PTL DEF Spec

(* A failed mount is never forgotten: as long as a retry state exists its  *)
(* timer is armed or its run is under way, however the timer, the requests *)
(* of the master, the monitor and restarts interleave.                     *)
THEOREM RetriesGoOn == Spec => []RetryIsArmed
<1>1. SharesInv => RetryIsArmed
  BY DEF SharesInv, SlaveInv, RetryInv
<1>2. QED
  BY <1>1, InitInv, NextInv, PTL DEF Spec

=============================================================================

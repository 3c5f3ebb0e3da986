---------------------------- MODULE BackupsProofs ----------------------------
(***************************************************************************)
(* Proofs about backups: that rows of virsh_backups stand for whole        *)
(* images, that pruning spares the newest ones, and that a guest stays     *)
(* frozen for the copy it was frozen for.  For any number of machines,     *)
(* tasks, schedules and requests, and any bounds.                          *)
(***************************************************************************)
EXTENDS Backups, OrderTheorems, SequenceTheorems

(* What the proof needs to know of the types.                              *)
StoreTypeOK ==
    /\ phase \in [Tasks -> Phase]
    /\ job = [t \in Tasks |-> job[t]]
    /\ file \in [Tasks -> Image]
    /\ \E S : table \in Seq(S)
    /\ \A i \in DOMAIN table : table[i].dir \in Tasks
    /\ rows \subseteq DOMAIN table
    /\ stage \in [Callers -> {"idle", "row", "dir"}]
    /\ doomed = [p \in Callers |-> doomed[p]]

(* A task begins with its job.                                             *)
Begun == \A t \in Tasks : job[t] = NoJob => phase[t] = "none"

(* A directory is made by one task, which has one row at most, and that    *)
(* task is past its copy when the row is there.                            *)
OwnDirectory ==
    /\ \A i, j \in DOMAIN table : table[i].dir = table[j].dir => i = j
    /\ \A i \in DOMAIN table : phase[table[i].dir] \in Ended \cup {"thaw"}

(* A deletion has a row's id, and removes the directory after the row.     *)
RowGoesFirst ==
    \A p \in Callers : stage[p] # "idle" =>
        /\ doomed[p] \in DOMAIN table
        /\ stage[p] = "dir" => doomed[p] \notin rows

(* The row of a backup is inserted only when its copy came to the end.     *)
CopyComesFirst ==
    \A t \in Tasks :
        /\ phase[t] = "copy" /\ job[t].kind = "backup" => file[t] = "part"
        /\ phase[t] = "insert" => file[t] = "full" /\ job[t].kind = "backup"

BackupsInv ==
    /\ StoreTypeOK /\ Begun /\ OwnDirectory /\ RowGoesFirst /\ CopyComesFirst
    /\ RowsAreRestorable

(* Stated of the types alone, so that it holds after a step as well.       *)
LEMMA DirsAreTasks == StoreTypeOK => \A i \in DOMAIN table : table[i].dir \in Tasks
  BY DEF StoreTypeOK

USE DEF store, vms, restored, tasks, loop, deletes

-----------------------------------------------------------------------------
(* A step of a task that neither copies nor inserts.                       *)
LEMMA Moves ==
    ASSUME BackupsInv, NEW t \in Tasks, NEW q \in Phase \ {"copy", "insert", "none"},
           Goto(t, q), phase[t] # "none",
           phase[t] \in Ended \cup {"thaw"} => q \in Ended,
           UNCHANGED <<job, store, deletes>>
    PROVE  BackupsInv'
<1>1. \A u \in Tasks : phase'[u] = IF u = t THEN q ELSE phase[u]
  BY DEF Goto, BackupsInv, StoreTypeOK
<1>2. phase' \in [Tasks -> Phase]
  BY DEF Goto, BackupsInv, StoreTypeOK
<1>3. StoreTypeOK'
  BY <1>2 DEF BackupsInv, StoreTypeOK
<1>4. Begun'
  BY <1>1 DEF BackupsInv, Begun
<1>5. OwnDirectory'
  BY <1>1, DirsAreTasks DEF BackupsInv, OwnDirectory, Ended
<1>6. CopyComesFirst'
  BY <1>1 DEF BackupsInv, CopyComesFirst
<1>7. RowGoesFirst' /\ RowsAreRestorable'
  BY DEF BackupsInv, RowGoesFirst, RowsAreRestorable
<1>8. QED
  BY <1>3, <1>4, <1>5, <1>6, <1>7 DEF BackupsInv

(* A step that no task, no row and no deletion takes.                      *)
LEMMA Aside ==
    ASSUME BackupsInv, UNCHANGED <<store, tasks, deletes>>
    PROVE  BackupsInv'
  BY DEF BackupsInv, StoreTypeOK, Begun, OwnDirectory, RowGoesFirst,
         CopyComesFirst, RowsAreRestorable

(* A task that starts has no row yet.                                      *)
LEMMA Starts ==
    ASSUME BackupsInv, NEW t \in Tasks, Fresh(t),
           NEW k, job' = [job EXCEPT ![t] = k], k # NoJob,
           NEW q \in {"freeze", "wait", "mkdir"}, Goto(t, q),
           UNCHANGED <<store, deletes>>
    PROVE  BackupsInv'
<1>1. \A u \in Tasks : phase'[u] = IF u = t THEN q ELSE phase[u]
  BY DEF Goto, BackupsInv, StoreTypeOK
<1>2. \A u \in Tasks : job'[u] = IF u = t THEN k ELSE job[u]
  BY DEF BackupsInv, StoreTypeOK
<1>3. StoreTypeOK'
  <2>1. phase' \in [Tasks -> Phase]
    BY DEF Goto, BackupsInv, StoreTypeOK, Phase
  <2>2. job' = [u \in Tasks |-> job'[u]]
    BY DEF BackupsInv, StoreTypeOK
  <2>3. QED
    BY <2>1, <2>2 DEF BackupsInv, StoreTypeOK
<1>4. phase[t] = "none"
  BY DEF Fresh, BackupsInv, Begun
<1>5. Begun'
  BY <1>1, <1>2 DEF BackupsInv, Begun
<1>6. OwnDirectory'
  BY <1>1, <1>4, DirsAreTasks DEF BackupsInv, OwnDirectory, Ended
<1>7. CopyComesFirst'
  BY <1>1, <1>2 DEF BackupsInv, CopyComesFirst
<1>8. RowGoesFirst' /\ RowsAreRestorable'
  BY DEF BackupsInv, RowGoesFirst, RowsAreRestorable
<1>9. QED
  BY <1>3, <1>5, <1>6, <1>7, <1>8 DEF BackupsInv

LEMMA BackupStarts ==
    ASSUME BackupsInv, NEW t \in Tasks, NEW v, NEW automatic,
           BackupVM(t, v, automatic), UNCHANGED <<store, deletes>>
    PROVE  BackupsInv'
<1> DEFINE k == [kind |-> "backup", vm |-> v, automatic |-> automatic,
                 live |-> v \in running, boot |-> boots[v]]
<1>1. k # NoJob
  BY DEF NoJob
<1>2. job' = [job EXCEPT ![t] = k] /\ Fresh(t)
  BY DEF BackupVM
<1>3. PICK q \in {"freeze", "wait"} : Goto(t, q)
  BY DEF BackupVM
<1> HIDE DEF k
<1>4. QED
  BY <1>1, <1>2, <1>3, Starts

LEMMA RestoreStarts ==
    ASSUME BackupsInv, NEW t \in Tasks, NEW id \in rows, NEW name \in Names,
           UseBackup(t, id, name)
    PROVE  BackupsInv'
<1> DEFINE k == [kind |-> "restore", source |-> table[id].dir, name |-> name]
<1>1. k # NoJob
  BY DEF NoJob
<1>2. /\ job' = [job EXCEPT ![t] = k] /\ Fresh(t) /\ Goto(t, "mkdir")
      /\ UNCHANGED <<store, deletes>>
  BY DEF UseBackup
<1> HIDE DEF k
<1>3. QED
  BY <1>1, <1>2, Starts

-----------------------------------------------------------------------------
(* The copy.                                                               *)

(* A task that is not past its copy has no row, so its image may change.   *)
LEMMA CopyMoves ==
    ASSUME BackupsInv, NEW t \in Tasks, phase[t] \in {"wait", "copy"},
           NEW q \in {"copy", "insert", "define"}, Goto(t, q),
           UNCHANGED <<job, table, rows, deletes>>,
           \/ file' = file
           \/ \E image \in Image : file' = [file EXCEPT ![t] = image],
           q = "copy" /\ job[t].kind = "backup" => file'[t] = "part",
           q = "insert" => file'[t] = "full" /\ job[t].kind = "backup"
    PROVE  BackupsInv'
<1>1. \A u \in Tasks : phase'[u] = IF u = t THEN q ELSE phase[u]
  BY DEF Goto, BackupsInv, StoreTypeOK
<1>2. \A u \in Tasks \ {t} : file'[u] = file[u]
  BY DEF BackupsInv, StoreTypeOK
<1>3. StoreTypeOK'
  <2>1. phase' \in [Tasks -> Phase] /\ file' \in [Tasks -> Image]
    BY DEF Goto, BackupsInv, StoreTypeOK, Phase
  <2>2. QED
    BY <2>1 DEF BackupsInv, StoreTypeOK
<1>4. \A i \in DOMAIN table : table[i].dir \in Tasks \ {t}
  BY DirsAreTasks DEF BackupsInv, OwnDirectory, Ended
<1>5. Begun' /\ RowGoesFirst'
  BY <1>1 DEF BackupsInv, Begun, RowGoesFirst
<1>6. OwnDirectory'
  BY <1>1, <1>4 DEF BackupsInv, OwnDirectory
<1>7. CopyComesFirst'
  BY <1>1, <1>2 DEF BackupsInv, CopyComesFirst
<1>8. RowsAreRestorable'
  BY <1>2, <1>4 DEF BackupsInv, RowsAreRestorable, StoreTypeOK
<1>9. QED
  BY <1>3, <1>5, <1>6, <1>7, <1>8 DEF BackupsInv

LEMMA CopyInv ==
    ASSUME BackupsInv, NEW t \in Tasks, StartCopy(t) \/ CopyDone(t)
    PROVE  BackupsInv'
<1>0. "part" \in Image /\ "full" \in Image /\ file[t] \in Image
  BY DEF Image, BackupsInv, StoreTypeOK
<1>1. CASE StartCopy(t)
  <2>1. /\ phase[t] = "wait" /\ Goto(t, "copy")
        /\ UNCHANGED <<job, table, rows, deletes>>
    BY <1>1 DEF StartCopy, SlotFree
  <2>2. CASE job[t].kind = "backup"
    <3>1. file' = [file EXCEPT ![t] = "part"]
      BY <1>1, <2>2 DEF StartCopy
    <3>2. file'[t] = "part"
      BY <3>1 DEF BackupsInv, StoreTypeOK
    <3>3. QED
      BY <1>0, <2>1, <3>1, <3>2, CopyMoves
  <2>3. CASE job[t].kind # "backup"
    BY <1>1, <2>1, <2>3, CopyMoves DEF StartCopy
  <2>4. QED
    BY <2>2, <2>3
<1>2. CASE CopyDone(t)
  <2>1. phase[t] = "copy" /\ UNCHANGED <<job, table, rows, deletes>>
    BY <1>2 DEF CopyDone
  <2>2. CASE job[t].kind = "backup"
    <3>1. file[t] = "part"
      BY <2>1, <2>2 DEF BackupsInv, CopyComesFirst
    <3>2. file' = [file EXCEPT ![t] = "full"] /\ Goto(t, "insert")
      BY <1>2, <2>2, <3>1 DEF CopyDone, Written
    <3>3. file'[t] = "full"
      BY <3>2 DEF BackupsInv, StoreTypeOK
    <3>4. QED
      BY <1>0, <2>1, <2>2, <3>2, <3>3, CopyMoves
  <2>3. CASE job[t].kind # "backup"
    <3>1. file' = file /\ Goto(t, "define")
      BY <1>2, <2>3 DEF CopyDone
    <3>2. QED
      BY <2>1, <3>1, CopyMoves
  <2>4. QED
    BY <2>2, <2>3
<1>3. QED
  BY <1>1, <1>2

(* The row that is inserted is the first of its directory.                 *)
LEMMA InsertInv ==
    ASSUME BackupsInv, NEW t \in Tasks, InsertVirshBackup(t)
    PROVE  BackupsInv'
<1> DEFINE row == [vm |-> job[t].vm, automatic |-> job[t].automatic, dir |-> t]
           id == Len(table) + 1
<1>1. /\ phase[t] = "insert"
      /\ table' = Append(table, row) /\ rows' = rows \cup {id}
      /\ UNCHANGED <<job, file, deletes>>
  BY DEF InsertVirshBackup
<1>2. PICK q \in {"thaw", "done"} : Goto(t, q)
  BY DEF InsertVirshBackup, Ending
<1>3. /\ file[t] = "full"
      /\ row.dir = t
  BY <1>1 DEF BackupsInv, CopyComesFirst
<1> HIDE DEF row
<1>a. PICK S : table \in Seq(S)
  BY DEF BackupsInv, StoreTypeOK
<1>b. table \in Seq(S \cup {row})
  BY <1>a
<1>4. /\ table' \in Seq(S \cup {row})
      /\ DOMAIN table' = DOMAIN table \cup {id} /\ id \notin DOMAIN table
      /\ table'[id] = row /\ \A i \in DOMAIN table : table'[i] = table[i]
  BY <1>1, <1>b
<1> HIDE DEF id
<1>5. \A u \in Tasks : phase'[u] = IF u = t THEN q ELSE phase[u]
  BY <1>2 DEF Goto, BackupsInv, StoreTypeOK
<1>6. \A i \in DOMAIN table : table[i].dir \in Tasks \ {t}
  BY <1>1, DirsAreTasks DEF BackupsInv, OwnDirectory, Ended
<1>7. StoreTypeOK'
  <2>1. phase' \in [Tasks -> Phase]
    BY <1>2 DEF Goto, BackupsInv, StoreTypeOK, Phase, Ended
  <2>2. QED
    BY <1>1, <1>3, <1>4, <2>1 DEF BackupsInv, StoreTypeOK
<1>8. Begun' /\ CopyComesFirst'
  BY <1>1, <1>5 DEF BackupsInv, Begun, CopyComesFirst
<1>9. OwnDirectory'
  BY <1>3, <1>4, <1>5, <1>6 DEF BackupsInv, OwnDirectory, Ended
<1>10. RowGoesFirst'
  <2> SUFFICES ASSUME NEW p \in Callers, stage[p] # "idle"
               PROVE  /\ doomed[p] \in DOMAIN table'
                      /\ stage[p] = "dir" => doomed[p] \notin rows'
    BY <1>1 DEF RowGoesFirst
  <2>1. QED
    BY <1>1, <1>4 DEF BackupsInv, RowGoesFirst
<1>11. RowsAreRestorable'
  BY <1>1, <1>3, <1>4 DEF BackupsInv, RowsAreRestorable, StoreTypeOK
<1>12. QED
  BY <1>7, <1>8, <1>9, <1>10, <1>11 DEF BackupsInv

-----------------------------------------------------------------------------
(* Deletion.                                                               *)

LEMMA LookUpInv ==
    ASSUME BackupsInv, NEW p \in Callers, NEW id, LookUp(p, id),
           UNCHANGED <<store, tasks>>
    PROVE  BackupsInv'
<1>1. id \in rows /\ id \in DOMAIN table
  BY DEF LookUp, BackupsInv, StoreTypeOK
<1>2. \A r \in Callers : /\ stage'[r] = IF r = p THEN "row" ELSE stage[r]
                         /\ doomed'[r] = IF r = p THEN id ELSE doomed[r]
  BY DEF LookUp, BackupsInv, StoreTypeOK
<1>3. StoreTypeOK'
  <2>1. /\ stage' \in [Callers -> {"idle", "row", "dir"}]
        /\ doomed' = [r \in Callers |-> doomed'[r]]
    BY DEF LookUp, BackupsInv, StoreTypeOK
  <2>2. QED
    BY <2>1 DEF BackupsInv, StoreTypeOK
<1>4. RowGoesFirst'
  BY <1>1, <1>2 DEF BackupsInv, RowGoesFirst
<1>5. QED
  BY <1>3, <1>4 DEF BackupsInv, Begun, OwnDirectory, CopyComesFirst, RowsAreRestorable

LEMMA DeleteInv ==
    ASSUME BackupsInv, NEW p \in Callers,
           DeleteRow(p) \/ RemoveDirectory(p) \/ DeleteFails(p)
    PROVE  BackupsInv'
<1>1. CASE DeleteRow(p)
  <2>1. /\ stage[p] = "row" /\ stage' = [stage EXCEPT ![p] = "dir"]
        /\ rows' = rows \ {doomed[p]}
        /\ UNCHANGED <<tasks, table, file, doomed>>
    BY <1>1 DEF DeleteRow
  <2>2. /\ stage' \in [Callers -> {"idle", "row", "dir"}]
        /\ \A r \in Callers : stage'[r] = IF r = p THEN "dir" ELSE stage[r]
    BY <2>1 DEF BackupsInv, StoreTypeOK
  <2>3. StoreTypeOK' /\ RowGoesFirst'
    BY <2>1, <2>2 DEF BackupsInv, StoreTypeOK, RowGoesFirst
  <2>4. QED
    BY <2>1, <2>3 DEF BackupsInv, Begun, OwnDirectory, CopyComesFirst,
                      RowsAreRestorable
<1>2. ASSUME DeleteReturns(p), StoreTypeOK, file' \in [Tasks -> Image]
      PROVE  StoreTypeOK' /\ RowGoesFirst'
  <2>1. /\ stage' \in [Callers -> {"idle", "row", "dir"}]
        /\ doomed' = [r \in Callers |-> doomed'[r]]
        /\ stage'[p] = "idle"
        /\ \A r \in Callers \ {p} : stage'[r] = stage[r] /\ doomed'[r] = doomed[r]
    BY <1>2 DEF DeleteReturns, BackupsInv, StoreTypeOK
  <2>2. QED
    BY <1>2, <2>1 DEF DeleteReturns, BackupsInv, StoreTypeOK, RowGoesFirst
<1>3. CASE DeleteFails(p)
  <2>1. DeleteReturns(p) /\ UNCHANGED file
    BY <1>3 DEF DeleteFails
  <2>2. StoreTypeOK' /\ RowGoesFirst'
    BY <1>2, <2>1 DEF BackupsInv, StoreTypeOK
  <2>3. QED
    BY <2>1, <2>2 DEF DeleteReturns, BackupsInv, Begun, OwnDirectory,
                      CopyComesFirst, RowsAreRestorable
<1>4. CASE RemoveDirectory(p)
  <2>1. /\ stage[p] = "dir" /\ DeleteReturns(p)
        /\ file' = [file EXCEPT ![DirOf(p)] = "none"]
        /\ UNCHANGED <<table, rows, tasks>>
    BY <1>4 DEF RemoveDirectory, DeleteReturns
  <2>2. doomed[p] \in DOMAIN table \ rows
    BY <2>1 DEF BackupsInv, RowGoesFirst
  <2>3. /\ DirOf(p) \in Tasks /\ phase[DirOf(p)] \in Ended \cup {"thaw"}
        /\ \A i \in rows : table[i].dir # DirOf(p)
    <3>1. rows \subseteq DOMAIN table
      BY DEF BackupsInv, StoreTypeOK
    <3>2. QED
      BY <2>2, <3>1, DirsAreTasks DEF DirOf, BackupsInv, OwnDirectory
  <2>4. /\ file' \in [Tasks -> Image]
        /\ \A u \in Tasks : u # DirOf(p) => file'[u] = file[u]
    BY <2>1 DEF BackupsInv, StoreTypeOK, Image
  <2>5. StoreTypeOK' /\ RowGoesFirst'
    BY <1>2, <2>1, <2>4 DEF BackupsInv
  <2>6. CopyComesFirst'
    BY <2>1, <2>3, <2>4 DEF BackupsInv, CopyComesFirst, Ended
  <2>7. RowsAreRestorable'
    BY <2>1, <2>3, <2>4 DEF BackupsInv, RowsAreRestorable, StoreTypeOK
  <2>8. QED
    BY <2>1, <2>5, <2>6, <2>7 DEF BackupsInv, Begun, OwnDirectory
<1>5. QED
  BY <1>1, <1>3, <1>4

-----------------------------------------------------------------------------
LEMMA StepInv ==
    ASSUME BackupsInv, NEW t \in Tasks, Step(t) \/ UnFreezeFails(t)
    PROVE  BackupsInv'
<1>1. CASE Freeze(t) \/ FreezeFails(t) \/ MakeFolder(t) \/ InsertFails(t)
           \/ Define(t) \/ UnFreeze(t) \/ UnFreezeFails(t) \/ CopyFails(t)
  <2>1. /\ phase[t] \in {"freeze", "mkdir", "insert", "define", "thaw", "wait",
                         "copy"}
        /\ UNCHANGED <<job, store, deletes>>
        /\ \E q \in Ended \cup {"wait", "thaw"} :
            Goto(t, q) /\ (phase[t] = "thaw" => q \in Ended)
    BY <1>1 DEF Freeze, FreezeFails, MakeFolder, InsertFails, Define, UnFreeze,
                UnFreezeFails, CopyFails, Ending, Ended
  <2>2. QED
    BY <2>1, Moves DEF Phase, Ended
<1>2. QED
  BY <1>1, CopyInv, InsertInv DEF Step

LEMMA RestartInv ==
    ASSUME BackupsInv, Restart
    PROVE  BackupsInv'
<1>1. \A t \in Tasks : phase'[t] \in Ended \cup {"none"}
                       /\ (phase'[t] = "none" <=> phase[t] = "none")
  BY DEF Restart, Ended
<1>2. \A p \in Callers : stage'[p] = "idle"
  BY DEF Restart
<1>3. UNCHANGED <<table, rows, file, job>>
  BY DEF Restart
<1>4. StoreTypeOK'
  BY <1>3 DEF Restart, BackupsInv, StoreTypeOK, Phase, Ended
<1>5. OwnDirectory'
  BY <1>1, <1>3, DirsAreTasks DEF BackupsInv, OwnDirectory, Ended
<1>6. Begun' /\ RowGoesFirst' /\ CopyComesFirst'
  BY <1>1, <1>2, <1>3 DEF BackupsInv, Begun, RowGoesFirst, CopyComesFirst, Ended
<1>7. RowsAreRestorable'
  BY <1>3 DEF BackupsInv, RowsAreRestorable
<1>8. QED
  BY <1>4, <1>5, <1>6, <1>7 DEF BackupsInv

LEMMA InitInv == Init => BackupsInv
  BY DEF Init, BackupsInv, StoreTypeOK, Begun, OwnDirectory, RowGoesFirst,
         CopyComesFirst, RowsAreRestorable, NoJob, Phase, Image

(* The loop starts tasks and looks rows up; the rest is its own.           *)
LEMMA LoopInv ==
    ASSUME BackupsInv, AutomaticBaks
    PROVE  BackupsInv'
<1>1. ASSUME NEW t \in Tasks, StartBak(t) PROVE BackupsInv'
  <2>1. BackupVM(t, Bak.row.vm, TRUE) /\ UNCHANGED <<store, deletes>>
    BY <1>1 DEF StartBak
  <2>2. QED
    BY <2>1, BackupStarts
<1>2. CASE PruneNext
  <2>1. Loop \in Callers /\ UNCHANGED <<store, tasks>>
    BY <1>2 DEF PruneNext, Callers
  <2>2. UNCHANGED deletes \/ LookUp(Loop, listed[next])
    BY <1>2 DEF PruneNext
  <2>3. CASE UNCHANGED deletes
    BY <2>1, <2>3, Aside
  <2>4. CASE LookUp(Loop, listed[next])
    BY <2>1, <2>4, LookUpInv
  <2>5. QED
    BY <2>2, <2>3, <2>4
<1>3. CASE \/ Wake \/ SkipBak \/ UpdateAutomaticBackupTimes \/ AutoBakFails
           \/ ListOld \/ PruneDone \/ Sleep
  <2>1. UNCHANGED <<store, tasks, deletes>>
    BY <1>3 DEF Wake, SkipBak, UpdateAutomaticBackupTimes, AutoBakFails,
                ListOld, PruneDone, Sleep
  <2>2. QED
    BY <2>1, Aside
<1>4. QED
  BY <1>1, <1>2, <1>3 DEF AutomaticBaks

LEMMA NextInv == BackupsInv /\ [Next]_vars => BackupsInv'
<1> SUFFICES ASSUME BackupsInv, [Next]_vars PROVE BackupsInv'
  OBVIOUS
<1>1. CASE UNCHANGED vars \/ (\E c \in Configs : Schedule(c))
           \/ (\E v \in VMs : Switch(v)) \/ Tick
  <2>1. UNCHANGED <<store, tasks, deletes>>
    BY <1>1 DEF vars, Schedule, Switch, Tick
  <2>2. QED
    BY <2>1, Aside
<1>2. ASSUME NEW t \in Tasks, NEW v \in VMs, RequestBackup(t, v)
      PROVE  BackupsInv'
  <2>1. BackupVM(t, v, FALSE) /\ UNCHANGED <<store, deletes>>
    BY <1>2 DEF RequestBackup
  <2>2. QED
    BY <2>1, BackupStarts
<1>3. ASSUME NEW p \in Deleters, NEW id \in rows, RequestDelete(p, id)
      PROVE  BackupsInv'
  <2>1. p \in Callers /\ LookUp(p, id) /\ UNCHANGED <<store, tasks>>
    BY <1>3 DEF RequestDelete, Callers
  <2>2. QED
    BY <2>1, LookUpInv
<1>4. QED
  BY <1>1, <1>2, <1>3, StepInv, RestoreStarts, DeleteInv, LoopInv, RestartInv
  DEF Next

(* Whatever fails, whenever the master stops and however deletions         *)
(* overlap, a row of virsh_backups stands for an image that was copied to  *)
(* the end and is still there.                                             *)
THEOREM BackupRowsAreRestorable == Spec => []RowsAreRestorable
<1>1. BackupsInv => RowsAreRestorable
  BY DEF BackupsInv
<1>2. QED
  BY <1>1, InitInv, NextInv, PTL DEF Spec

-----------------------------------------------------------------------------
(* Types.  TypeOK is not inductive: what a task or the loop reads of its   *)
(* own record depends on where it stands.                                  *)

MachinesTyped ==
    /\ running \subseteq VMs /\ boots \in [VMs -> 0..MaxBoots]
    /\ frozen \in [VMs -> {0} \cup Tasks]
StoreTyped ==
    /\ table \in Seq([vm: VMs, automatic: BOOLEAN, dir: Tasks])
    /\ rows \subseteq DOMAIN table /\ file \in [Tasks -> Image]
RestoredTyped == disk \in [Names -> Folder] /\ defined \subseteq Names

(* Freezes, inserts and thaws are a backup's, folders and definitions a    *)
(* restore's, and only a backup of a machine that was on freezes or thaws. *)
JobKinds ==
    \A t \in Tasks :
        /\ phase[t] \in {"freeze", "insert", "thaw"} => job[t].kind = "backup"
        /\ phase[t] \in {"freeze", "thaw"} => job[t].live
        /\ phase[t] \in {"mkdir", "define"} => job[t].kind = "restore"
        /\ phase[t] \in {"wait", "copy"} => job[t] # NoJob

OneCopy == \A t, u \in Tasks : phase[t] = "copy" /\ phase[u] = "copy" => t = u

TasksTyped ==
    /\ job \in [Tasks -> {NoJob} \cup BackupJobs \cup RestoreJobs]
    /\ phase \in [Tasks -> Phase] /\ JobKinds /\ OneCopy

CountersTyped == now \in 1..MaxDays /\ faults \in 0..MaxFaults

(* The loop works on rows that exist, and on one unless it sleeps or       *)
(* looks for the next.                                                     *)
ScheduleTyped ==
    /\ auto \in [Configs -> {NoAuto} \cup AutoRows]
    /\ lpc \in {"sleep", "next", "times", "list", "prune"}
    /\ baks \in Seq([id: Configs, row: AutoRows])
    /\ \A i \in DOMAIN baks : auto[baks[i].id] # NoAuto
    /\ lpc \in {"times", "list", "prune"} => baks # <<>>
ListedTyped == listed \in Seq(DOMAIN table) /\ next \in Nat
DeletesTyped ==
    /\ stage \in [Callers -> {"idle", "row", "dir"}]
    /\ doomed \in [Callers -> 0..Len(table)]

TypeInv ==
    /\ MachinesTyped /\ StoreTyped /\ RestoredTyped /\ TasksTyped
    /\ CountersTyped /\ ScheduleTyped /\ ListedTyped /\ DeletesTyped

(* Who writes what.                                                        *)
LEMMA Writers ==
    ASSUME [Next]_vars
    PROVE  /\ \/ UNCHANGED vms
              \/ \E t \in Tasks : Freeze(t) \/ FreezeFails(t) \/ UnFreeze(t)
              \/ \E v \in VMs : Switch(v)
           /\ \/ UNCHANGED store
              \/ \E t \in Tasks : StartCopy(t) \/ CopyDone(t) \/ InsertVirshBackup(t)
              \/ \E p \in Callers : DeleteRow(p) \/ RemoveDirectory(p)
           /\ \/ UNCHANGED restored
              \/ \E t \in Tasks : \/ MakeFolder(t) \/ StartCopy(t) \/ CopyDone(t)
                                  \/ CopyFails(t) \/ Define(t)
           /\ \/ UNCHANGED tasks
              \/ \E t \in Tasks : Step(t) \/ UnFreezeFails(t) \/ StartBak(t)
              \/ \E t \in Tasks, v \in VMs : RequestBackup(t, v)
              \/ \E t \in Tasks, id \in rows, m \in Names : UseBackup(t, id, m)
              \/ Restart
           /\ \/ UNCHANGED <<auto, loop>>
              \/ \E c \in Configs : Schedule(c)
              \/ AutomaticBaks \/ Restart
           /\ \/ UNCHANGED deletes
              \/ \E p \in Deleters, id \in rows : RequestDelete(p, id)
              \/ \E p \in Callers : DeleteRow(p) \/ RemoveDirectory(p) \/ DeleteFails(p)
              \/ PruneNext \/ Restart
<1>1. CASE UNCHANGED vars
  BY <1>1 DEF vars
<1>2. ASSUME NEW t \in Tasks, Step(t) \/ UnFreezeFails(t)
      PROVE  /\ UNCHANGED <<auto, loop, deletes>>
             /\ UNCHANGED vms \/ Freeze(t) \/ FreezeFails(t) \/ UnFreeze(t)
             /\ \/ UNCHANGED store
                \/ StartCopy(t) \/ CopyDone(t) \/ InsertVirshBackup(t)
             /\ \/ UNCHANGED restored
                \/ MakeFolder(t) \/ StartCopy(t) \/ CopyDone(t) \/ CopyFails(t)
                \/ Define(t)
  BY <1>2 DEF Step, Freeze, FreezeFails, MakeFolder, StartCopy, CopyDone,
              CopyFails, InsertVirshBackup, InsertFails, Define, UnFreeze,
              UnFreezeFails
<1>3. CASE \/ \E t \in Tasks, v \in VMs : RequestBackup(t, v)
           \/ \E t \in Tasks, id \in rows, m \in Names : UseBackup(t, id, m)
  BY <1>3 DEF RequestBackup, UseBackup
<1>4. CASE \/ \E p \in Deleters, id \in rows : RequestDelete(p, id)
           \/ \E p \in Callers : DeleteRow(p) \/ RemoveDirectory(p) \/ DeleteFails(p)
  BY <1>4 DEF RequestDelete, DeleteRow, RemoveDirectory, DeleteFails, DeleteReturns
<1>5. CASE AutomaticBaks
  BY <1>5 DEF AutomaticBaks, Wake, SkipBak, StartBak, UpdateAutomaticBackupTimes,
              AutoBakFails, ListOld, PruneNext, PruneDone, Sleep
<1>6. CASE (\E c \in Configs : Schedule(c)) \/ (\E v \in VMs : Switch(v)) \/ Tick
           \/ Restart
  BY <1>6 DEF Schedule, Switch, Tick, Restart
<1>7. QED
  BY <1>1, <1>2, <1>3, <1>4, <1>5, <1>6 DEF Next

LEMMA JobTypes ==
    ASSUME NEW j \in {NoJob} \cup BackupJobs \cup RestoreJobs
    PROVE  /\ j.kind = "backup" =>
                /\ j \in BackupJobs /\ j.vm \in VMs /\ j.automatic \in BOOLEAN
                /\ j.live \in BOOLEAN /\ j.boot \in Nat
           /\ j.kind = "restore" =>
                j \in RestoreJobs /\ j.source \in Nat /\ j.name \in Names
           /\ j # NoJob => j.kind \in {"backup", "restore"}
  BY DEF NoJob, BackupJobs, RestoreJobs

LEMMA HeadOfList ==
    ASSUME NEW S, NEW s \in Seq(S), s # <<>>
    PROVE  /\ Head(s) \in S /\ Head(s) = s[1] /\ 1 \in DOMAIN s
           /\ Tail(s) \in Seq(S)
           /\ \A i \in DOMAIN Tail(s) : i + 1 \in DOMAIN s /\ Tail(s)[i] = s[i + 1]
  OBVIOUS

LEMMA RowTypes ==
    ASSUME StoreTyped, NEW id \in DOMAIN table
    PROVE  /\ table[id].vm \in VMs /\ table[id].automatic \in BOOLEAN
           /\ table[id].dir \in Tasks
<1> DEFINE Row == [vm: VMs, automatic: BOOLEAN, dir: Tasks]
<1>1. table \in Seq(Row)
  BY DEF StoreTyped
<1> HIDE DEF Row
<1>2. table[id] \in Row
  BY <1>1
<1>3. QED
  BY <1>2 DEF Row

LEMMA BakTypes ==
    ASSUME ScheduleTyped, baks # <<>>
    PROVE  /\ Bak.id \in Configs /\ Bak.row \in AutoRows /\ Bak.row.vm \in VMs
           /\ Bak.row.retain \in Nat \ {0} /\ auto[Bak.id] \in AutoRows
<1> DEFINE Copy == [id: Configs, row: AutoRows]
<1>1. baks \in Seq(Copy)
  BY DEF ScheduleTyped
<1> HIDE DEF Copy
<1>2. Bak \in Copy /\ Bak = baks[1] /\ 1 \in DOMAIN baks
  BY <1>1, HeadOfList DEF Bak
<1>3. Bak.id \in Configs /\ Bak.row \in AutoRows
  BY <1>2 DEF Copy
<1>4. Bak.row.vm \in VMs /\ Bak.row.retain \in Nat \ {0}
  BY <1>3, ValuesAssumption DEF AutoRows
<1>5. auto[Bak.id] # NoAuto
  BY <1>2 DEF ScheduleTyped
<1>6. QED
  BY <1>3, <1>4, <1>5 DEF ScheduleTyped

LEMMA MachinesStep ==
    ASSUME TypeInv, [Next]_vars
    PROVE  MachinesTyped'
<1>1. CASE UNCHANGED vms
  BY <1>1 DEF TypeInv, MachinesTyped
<1>2. ASSUME NEW t \in Tasks, Freeze(t) \/ FreezeFails(t) \/ UnFreeze(t)
      PROVE  MachinesTyped'
  <2>1. UNCHANGED <<running, boots>>
    BY <1>2 DEF Freeze, FreezeFails, UnFreeze
  <2>2. \/ frozen' = frozen
        \/ \E v, u : u \in {0} \cup Tasks /\ frozen' = [frozen EXCEPT ![v] = u]
    BY <1>2 DEF Freeze, FreezeFails, UnFreeze
  <2>3. frozen' \in [VMs -> {0} \cup Tasks]
    BY <2>2 DEF TypeInv, MachinesTyped
  <2>4. QED
    BY <2>1, <2>3 DEF TypeInv, MachinesTyped
<1>3. ASSUME NEW v \in VMs, Switch(v) PROVE MachinesTyped'
  <2>1. frozen' \in [VMs -> {0} \cup Tasks]
    BY <1>3 DEF Switch, TypeInv, MachinesTyped
  <2>2. boots' \in [VMs -> 0..MaxBoots]
    <3>1. CASE boots' = boots
      BY <3>1 DEF TypeInv, MachinesTyped
    <3>2. CASE boots[v] < MaxBoots /\ boots' = [boots EXCEPT ![v] = @ + 1]
      <4>1. boots[v] + 1 \in 0..MaxBoots
        BY <3>2, BoundsAssumption DEF TypeInv, MachinesTyped
      <4>2. QED
        BY <3>2, <4>1 DEF TypeInv, MachinesTyped
    <3>3. QED
      BY <1>3, <3>1, <3>2 DEF Switch
  <2>3. running' \subseteq VMs
    BY <1>3 DEF Switch, TypeInv, MachinesTyped
  <2>4. QED
    BY <2>1, <2>2, <2>3 DEF MachinesTyped
<1>4. QED
  BY <1>1, <1>2, <1>3, Writers

(* Rows are only added at the end of the table.                            *)
LEMMA TableGrows ==
    ASSUME TypeInv, [Next]_vars
    PROVE  /\ StoreTyped'
           /\ Len(table) \in Nat /\ Len(table') \in Nat /\ Len(table) <= Len(table')
           /\ DOMAIN table \subseteq DOMAIN table'
           /\ \A i \in DOMAIN table : table'[i] = table[i]
<1> DEFINE Row == [vm: VMs, automatic: BOOLEAN, dir: Tasks]
<1>0. table \in Seq(Row) /\ rows \subseteq DOMAIN table /\ file \in [Tasks -> Image]
  BY DEF TypeInv, StoreTyped
<1> HIDE DEF Row
<1> SUFFICES /\ rows' \subseteq DOMAIN table' /\ file' \in [Tasks -> Image]
             /\ \/ table' = table
                \/ \E r \in Row : table' = Append(table, r)
  <2>1. CASE table' = table
    BY <1>0, <2>1 DEF StoreTyped, Row
  <2>2. ASSUME NEW r \in Row, table' = Append(table, r)
        PROVE  /\ table' \in Seq(Row)
               /\ Len(table) \in Nat /\ Len(table') \in Nat
               /\ Len(table) <= Len(table')
               /\ DOMAIN table \subseteq DOMAIN table'
               /\ \A i \in DOMAIN table : table'[i] = table[i]
    BY <1>0, <2>2
  <2>3. QED
    BY <2>1, <2>2 DEF StoreTyped, Row
<1>1. CASE UNCHANGED store
  BY <1>0, <1>1
<1>2. ASSUME NEW t \in Tasks, StartCopy(t) \/ CopyDone(t)
      PROVE  UNCHANGED <<table, rows>> /\ file' \in [Tasks -> Image]
  <2>1. /\ UNCHANGED <<table, rows>>
        /\ \/ file' = file
           \/ \E image \in Image : file' = [file EXCEPT ![t] = image]
    <3>1. "part" \in Image /\ Written(file[t]) \in Image
      BY <1>0 DEF Image, Written
    <3>2. CASE StartCopy(t)
      BY <3>1, <3>2 DEF StartCopy
    <3>3. CASE CopyDone(t)
      BY <3>1, <3>3 DEF CopyDone
    <3>4. QED
      BY <1>2, <3>2, <3>3
  <2>2. QED
    BY <1>0, <2>1
<1>3. ASSUME NEW t \in Tasks, InsertVirshBackup(t)
      PROVE  /\ \E r \in Row : table' = Append(table, r)
             /\ rows' \subseteq DOMAIN table' /\ file' = file
  <2> DEFINE r == [vm |-> job[t].vm, automatic |-> job[t].automatic, dir |-> t]
  <2>1. job[t].vm \in VMs /\ job[t].automatic \in BOOLEAN
    BY <1>3, JobTypes DEF InsertVirshBackup, TypeInv, TasksTyped, JobKinds
  <2>2. r \in Row
    BY <2>1 DEF Row
  <2>3. /\ table' = Append(table, r) /\ rows' = rows \cup {Len(table) + 1}
        /\ file' = file
    BY <1>3 DEF InsertVirshBackup
  <2> HIDE DEF r
  <2>4. DOMAIN table' = DOMAIN table \cup {Len(table) + 1}
    BY <1>0, <2>2, <2>3
  <2>5. QED
    BY <1>0, <2>2, <2>3, <2>4
<1>4. ASSUME NEW p \in Callers, DeleteRow(p) \/ RemoveDirectory(p)
      PROVE  /\ table' = table /\ rows' \subseteq rows
             /\ file' \in [Tasks -> Image]
  BY <1>0, <1>4 DEF DeleteRow, RemoveDirectory, DeleteReturns, Image
<1>5. QED
  BY <1>0, <1>1, <1>2, <1>3, <1>4, Writers

LEMMA RestoredStep ==
    ASSUME TypeInv, [Next]_vars
    PROVE  RestoredTyped'
<1>1. CASE UNCHANGED restored
  BY <1>1 DEF TypeInv, RestoredTyped
<1>2. ASSUME NEW t \in Tasks, MakeFolder(t) \/ StartCopy(t) \/ CopyDone(t) \/ CopyFails(t)
      PROVE  RestoredTyped'
  <2>1. \A f \in Folder : /\ Written(f) \in Folder
                          /\ {"none", "empty", "part"} \subseteq Folder
    BY DEF Folder, Image, Written
  <2>2. /\ defined' = defined
        /\ \/ disk' = disk
           \/ \E m, f : /\ (m \in Names => f \in Folder)
                        /\ disk' = [disk EXCEPT ![m] = f]
    <3>1. job[t].name \in Names => disk[job[t].name] \in Folder
      BY DEF TypeInv, RestoredTyped
    <3>2. CASE MakeFolder(t)
      BY <2>1, <3>1, <3>2 DEF MakeFolder
    <3>3. CASE StartCopy(t)
      BY <2>1, <3>1, <3>3 DEF StartCopy
    <3>4. CASE CopyDone(t)
      BY <2>1, <3>1, <3>4 DEF CopyDone
    <3>5. CASE CopyFails(t)
      BY <2>1, <3>1, <3>5 DEF CopyFails
    <3>6. QED
      BY <1>2, <3>2, <3>3, <3>4, <3>5
  <2>3. QED
    BY <2>2 DEF TypeInv, RestoredTyped
<1>3. ASSUME NEW t \in Tasks, Define(t) PROVE RestoredTyped'
  <2>1. job[t].name \in Names
    BY <1>3, JobTypes DEF Define, TypeInv, TasksTyped, JobKinds
  <2>2. QED
    BY <1>3, <2>1 DEF Define, TypeInv, RestoredTyped
<1>4. QED
  BY <1>1, <1>2, <1>3, Writers

(* A task that goes to where its job belongs.                              *)
Belongs(k, q) ==
    /\ q \in {"freeze", "insert", "thaw"} => k.kind = "backup"
    /\ q \in {"freeze", "thaw"} => k.live
    /\ q \in {"mkdir", "define"} => k.kind = "restore"
    /\ q \in {"wait", "copy"} => k # NoJob

LEMMA TaskGoes ==
    ASSUME TasksTyped, NEW t \in Tasks, NEW q \in Phase, Goto(t, q),
           NEW k \in {NoJob} \cup BackupJobs \cup RestoreJobs,
           job' = [job EXCEPT ![t] = k], Belongs(k, q),
           q = "copy" => \A u \in Tasks : phase[u] # "copy"
    PROVE  TasksTyped'
<1>1. /\ phase' \in [Tasks -> Phase]
      /\ \A u \in Tasks : phase'[u] = IF u = t THEN q ELSE phase[u]
  BY DEF Goto, TasksTyped
<1>2. /\ job' \in [Tasks -> {NoJob} \cup BackupJobs \cup RestoreJobs]
      /\ \A u \in Tasks : job'[u] = IF u = t THEN k ELSE job[u]
  BY DEF TasksTyped
<1>3. JobKinds'
  BY <1>1, <1>2 DEF TasksTyped, JobKinds, Belongs
<1>4. OneCopy'
  BY <1>1 DEF TasksTyped, OneCopy
<1>5. QED
  BY <1>1, <1>2, <1>3, <1>4 DEF TasksTyped

LEMMA TaskSteps ==
    ASSUME TypeInv, NEW t \in Tasks, Step(t) \/ UnFreezeFails(t)
    PROVE  TasksTyped'
<1> DEFINE k == job[t]
<1>1. /\ TasksTyped /\ k \in {NoJob} \cup BackupJobs \cup RestoreJobs
      /\ job' = [job EXCEPT ![t] = k]
  <2>1. job' = job
    BY DEF Step, Freeze, FreezeFails, MakeFolder, StartCopy, CopyDone, CopyFails,
           InsertVirshBackup, InsertFails, Define, UnFreeze, UnFreezeFails
  <2>2. QED
    BY <2>1 DEF TypeInv, TasksTyped
<1>2. Belongs(k, phase[t])
  BY DEF TypeInv, TasksTyped, JobKinds, Belongs
<1>3. "none" # "done" /\ NoJob.kind = "none"
  BY DEF NoJob
<1> HIDE DEF k
<1>4. \E q \in Phase : /\ Goto(t, q) /\ Belongs(k, q)
                       /\ q = "copy" => \A u \in Tasks : phase[u] # "copy"
  <2>1. ASSUME Freeze(t) \/ FreezeFails(t) \/ MakeFolder(t) \/ Define(t)
               \/ UnFreeze(t) \/ UnFreezeFails(t)
        PROVE  \E q \in {"wait", "done", "lost"} : Goto(t, q) /\ Belongs(k, q)
    <3>1. /\ phase[t] \in {"freeze", "mkdir", "define", "thaw"}
          /\ \/ Goto(t, "wait") /\ phase[t] \in {"freeze", "mkdir"}
             \/ Goto(t, "done") \/ Goto(t, "lost")
      BY <2>1 DEF Freeze, FreezeFails, MakeFolder, Define, UnFreeze, UnFreezeFails
    <3>2. QED
      BY <1>2, <1>3, <3>1 DEF Belongs
  <2>2. ASSUME CopyFails(t) \/ InsertVirshBackup(t) \/ InsertFails(t)
        PROVE  \E q \in {"thaw", "done"} : Goto(t, q) /\ Belongs(k, q)
    <3>1. \/ Goto(t, Ending(t)) /\ k.kind = "backup"
          \/ Goto(t, "done")
      BY <1>2, <2>2 DEF CopyFails, InsertVirshBackup, InsertFails, Belongs, k
    <3>2. Ending(t) \in {"thaw", "done"} /\ (Ending(t) = "thaw" => k.live)
      BY DEF Ending, k
    <3>3. QED
      BY <3>1, <3>2 DEF Belongs
  <2>3. ASSUME StartCopy(t)
        PROVE  Goto(t, "copy") /\ Belongs(k, "copy") /\ \A u \in Tasks : phase[u] # "copy"
    BY <1>2, <2>3 DEF StartCopy, SlotFree, Belongs
  <2>4. ASSUME CopyDone(t)
        PROVE  \E q \in {"insert", "define"} : Goto(t, q) /\ Belongs(k, q)
    BY <2>4 DEF CopyDone, Belongs, k
  <2>5. QED
    BY <2>1, <2>2, <2>3, <2>4 DEF Step, Phase, Ended
<1>5. QED
  BY <1>1, <1>4, TaskGoes

LEMMA TaskBegins ==
    ASSUME TypeInv, NEW t \in Tasks, NEW v \in VMs, NEW automatic \in BOOLEAN,
           BackupVM(t, v, automatic)
    PROVE  TasksTyped'
<1> DEFINE k == [kind |-> "backup", vm |-> v, automatic |-> automatic,
                 live |-> v \in running, boot |-> boots[v]]
           q == IF v \in running THEN "freeze" ELSE "wait"
<1>1. boots[v] \in Nat
  BY BoundsAssumption DEF TypeInv, MachinesTyped
<1>2. k \in BackupJobs
  BY <1>1 DEF BackupJobs
<1>3. q \in Phase /\ Belongs(k, q) /\ q # "copy"
  BY DEF Phase, Belongs, NoJob
<1>4. Goto(t, q) /\ job' = [job EXCEPT ![t] = k]
  BY DEF BackupVM
<1> HIDE DEF k, q
<1>5. QED
  BY <1>2, <1>3, <1>4, TaskGoes DEF TypeInv

LEMMA TasksStep ==
    ASSUME TypeInv, [Next]_vars
    PROVE  TasksTyped'
<1>1. CASE UNCHANGED tasks
  BY <1>1 DEF TypeInv, TasksTyped, JobKinds, OneCopy
<1>2. ASSUME NEW t \in Tasks, NEW v \in VMs, RequestBackup(t, v) PROVE TasksTyped'
  BY <1>2, TaskBegins DEF RequestBackup
<1>3. ASSUME NEW t \in Tasks, StartBak(t) PROVE TasksTyped'
  <2>1. Bak.row.vm \in VMs
    BY <1>3, BakTypes DEF StartBak, TypeInv
  <2>2. QED
    BY <1>3, <2>1, TaskBegins DEF StartBak
<1>4. ASSUME NEW t \in Tasks, NEW id \in rows, NEW m \in Names, UseBackup(t, id, m)
      PROVE  TasksTyped'
  <2> DEFINE k == [kind |-> "restore", source |-> table[id].dir, name |-> m]
  <2>1. id \in DOMAIN table
    BY DEF TypeInv, StoreTyped
  <2>2. table[id].dir \in Nat
    BY <2>1, RowTypes, BoundsAssumption DEF TypeInv, Tasks
  <2>3. k \in RestoreJobs
    BY <2>2 DEF RestoreJobs
  <2>4. "mkdir" \in Phase /\ Belongs(k, "mkdir")
    BY DEF Phase, Belongs
  <2>5. Goto(t, "mkdir") /\ job' = [job EXCEPT ![t] = k]
    BY <1>4 DEF UseBackup
  <2> HIDE DEF k
  <2>6. QED
    BY <2>3, <2>4, <2>5, TaskGoes DEF TypeInv
<1>5. CASE Restart
  <2>1. \A t \in Tasks : phase'[t] \in Ended \cup {"none"}
    BY <1>5 DEF Restart, Ended
  <2>2. phase' \in [Tasks -> Phase] /\ job' = job
    BY <1>5, <2>1 DEF Restart, Phase
  <2>3. QED
    BY <2>1, <2>2 DEF TypeInv, TasksTyped, JobKinds, OneCopy, Ended
<1>6. QED
  BY <1>1, <1>2, <1>3, <1>4, <1>5, TaskSteps, Writers

LEMMA InOrderTypes ==
    ASSUME NEW S, S \subseteq Nat, IsFiniteSet(S)
    PROVE  /\ InOrder(S) \in [1..Cardinality(S) -> S] /\ Cardinality(S) \in Nat
           /\ \A i, j \in 1..Cardinality(S) : i < j => InOrder(S)[i] < InOrder(S)[j]
  BY Ascends, FS_CardinalityType DEF InOrder

LEMMA NewestFirstTypes ==
    ASSUME NEW S, S \subseteq Nat, IsFiniteSet(S)
    PROVE  /\ NewestFirst(S) \in [1..Cardinality(S) -> S] /\ Cardinality(S) \in Nat
           /\ \A i, j \in 1..Cardinality(S) :
                i < j => NewestFirst(S)[i] > NewestFirst(S)[j]
  BY Descends, FS_CardinalityType DEF NewestFirst

LEMMA EnabledRows ==
    ASSUME ScheduleTyped, NEW c \in Configs, auto[c].state # "unborn"
    PROVE  auto[c] # NoAuto /\ auto[c] \in AutoRows
<1>1. NoAuto.state = "unborn"
  BY DEF NoAuto
<1>2. auto[c] \in {NoAuto} \cup AutoRows
  BY DEF ScheduleTyped
<1>3. QED
  BY <1>1, <1>2

(* A change of one schedule that exists, or comes to exist.                *)
LEMMA AutoChanges ==
    ASSUME ScheduleTyped, NEW c, NEW r \in AutoRows, auto' = [auto EXCEPT ![c] = r]
    PROVE  /\ auto' \in [Configs -> {NoAuto} \cup AutoRows]
           /\ \A i \in DOMAIN baks : auto'[baks[i].id] # NoAuto
<1>1. \A s \in AutoRows : s.state # "unborn"
  BY DEF AutoRows
<1>2. r # NoAuto
  BY <1>1 DEF NoAuto
<1>3. \A i \in DOMAIN baks : baks[i].id \in Configs
  <2> DEFINE Copy == [id: Configs, row: AutoRows]
  <2>1. baks \in Seq(Copy)
    BY DEF ScheduleTyped
  <2> HIDE DEF Copy
  <2>2. \A i \in DOMAIN baks : baks[i] \in Copy
    BY <2>1
  <2>3. QED
    BY <2>2 DEF Copy
<1>4. QED
  BY <1>2, <1>3 DEF ScheduleTyped

LEMMA ScheduleInv ==
    ASSUME TypeInv, NEW c \in Configs, Schedule(c)
    PROVE  ScheduleTyped'
<1>1. ScheduleTyped /\ UNCHANGED <<lpc, baks>>
  BY DEF TypeInv, Schedule
<1>2. PICK r \in AutoRows : auto' = [auto EXCEPT ![c] = r]
  <2>1. CASE CreateAutoBak(c)
    <3>1. PICK v \in VMs, f \in Frequencies, n \in Retains :
            auto' = [auto EXCEPT ![c] = [state |-> "enabled", vm |-> v, freq |-> f,
                                         retain |-> n, last |-> 0]]
      BY <2>1 DEF CreateAutoBak
    <3>2. [state |-> "enabled", vm |-> v, freq |-> f, retain |-> n, last |-> 0]
            \in AutoRows
      BY DEF AutoRows
    <3>3. QED
      BY <3>1, <3>2
  <2>2. CASE UpdateAutoBak(c) \/ DeleteAutoBak(c)
    <3>1. auto[c].state \in {"enabled", "disabled"}
      BY <2>2 DEF UpdateAutoBak, DeleteAutoBak
    <3>2. auto[c] \in AutoRows /\ auto \in [Configs -> {NoAuto} \cup AutoRows]
      BY <1>1, <3>1, EnabledRows DEF ScheduleTyped
    <3>3. CASE UpdateAutoBak(c)
      <4>1. PICK s \in {"enabled", "disabled"}, f \in Frequencies, n \in Retains :
              auto' = [auto EXCEPT ![c].state = s, ![c].freq = f, ![c].retain = n]
        BY <3>3 DEF UpdateAutoBak
      <4>2. auto' = [auto EXCEPT ![c] =
                        [[[auto[c] EXCEPT !.state = s] EXCEPT !.freq = f]
                            EXCEPT !.retain = n]]
        BY <3>2, <4>1
      <4>3. [[[auto[c] EXCEPT !.state = s] EXCEPT !.freq = f] EXCEPT !.retain = n]
              \in AutoRows
        BY <3>2 DEF AutoRows
      <4>4. QED
        BY <4>2, <4>3
    <3>4. CASE DeleteAutoBak(c)
      <4>1. auto' = [auto EXCEPT ![c] = [auto[c] EXCEPT !.state = "deleted"]]
        BY <3>2, <3>4 DEF DeleteAutoBak
      <4>2. [auto[c] EXCEPT !.state = "deleted"] \in AutoRows
        BY <3>2 DEF AutoRows
      <4>3. QED
        BY <4>1, <4>2
    <3>5. QED
      BY <2>2, <3>3, <3>4
  <2>3. QED
    BY <2>1, <2>2 DEF Schedule
<1>3. QED
  BY <1>1, <1>2, AutoChanges DEF ScheduleTyped

LEMMA WakeInv ==
    ASSUME TypeInv, Wake
    PROVE  ScheduleTyped'
<1> DEFINE Copy == [id: Configs, row: AutoRows]
<1>1. PICK S \in SUBSET {c \in Configs : auto[c].state = "enabled"} :
        baks' = [i \in 1..Cardinality(S) |->
                    [id |-> InOrder(S)[i], row |-> auto[InOrder(S)[i]]]]
  BY DEF Wake
<1>2. /\ InOrder(S) \in [1..Cardinality(S) -> S]
      /\ Cardinality(S) \in Nat
  BY ConfigsAssumption, FS_Subset, InOrderTypes
<1>3. \A c \in S : c \in Configs /\ auto[c] # NoAuto /\ auto[c] \in AutoRows
  BY EnabledRows DEF TypeInv
<1> DEFINE copy(i) == [id |-> InOrder(S)[i], row |-> auto[InOrder(S)[i]]]
<1>4. ASSUME NEW i \in 1..Cardinality(S)
      PROVE  copy(i) \in Copy /\ auto[copy(i).id] # NoAuto
  BY <1>2, <1>3
<1> HIDE DEF Copy, copy
<1>5. baks' = [i \in 1..Cardinality(S) |-> copy(i)]
  BY <1>1 DEF copy
<1>6. baks' \in Seq(Copy) /\ \A i \in DOMAIN baks' : auto[baks'[i].id] # NoAuto
  BY <1>2, <1>4, <1>5
<1>7. auto' = auto /\ lpc' = "next"
  BY DEF Wake
<1>8. QED
  BY <1>6, <1>7 DEF TypeInv, ScheduleTyped, Copy

(* The loop drops the row it is done with.                                 *)
LEMMA NextBakInv ==
    ASSUME TypeInv, NextBak, baks # <<>>, auto' = auto
    PROVE  ScheduleTyped'
<1> DEFINE Copy == [id: Configs, row: AutoRows]
<1>1. ScheduleTyped /\ baks \in Seq(Copy)
  BY DEF TypeInv, ScheduleTyped
<1> HIDE DEF Copy
<1>2. baks' = Tail(baks) /\ lpc' = "next"
  BY DEF NextBak
<1>3. /\ baks' \in Seq(Copy)
      /\ \A i \in DOMAIN baks' : i + 1 \in DOMAIN baks /\ baks'[i] = baks[i + 1]
  BY <1>1, <1>2, HeadOfList
<1>4. QED
  BY <1>1, <1>2, <1>3 DEF ScheduleTyped, Copy

LEMMA ScheduleStep ==
    ASSUME TypeInv, [Next]_vars
    PROVE  ScheduleTyped'
<1>0. ScheduleTyped
  BY DEF TypeInv
<1>1. CASE UNCHANGED <<auto, loop>>
  BY <1>0, <1>1 DEF ScheduleTyped
<1>2. CASE Restart
  <2>1. auto' = auto /\ lpc' = "sleep" /\ baks' = <<>>
    BY <1>2 DEF Restart
  <2>2. QED
    BY <1>0, <2>1 DEF ScheduleTyped
<1>3. CASE SkipBak \/ AutoBakFails \/ PruneDone
  <2>1. NextBak /\ auto' = auto /\ baks # <<>>
    BY <1>0, <1>3 DEF SkipBak, AutoBakFails, PruneDone, ScheduleTyped
  <2>2. QED
    BY <2>1, NextBakInv
<1>4. CASE (\E t \in Tasks : StartBak(t)) \/ ListOld \/ PruneNext \/ Sleep
  <2>1. /\ UNCHANGED <<auto, baks>> /\ lpc' \in {"sleep", "next", "times", "list", "prune"}
        /\ lpc' \in {"times", "list", "prune"} => baks # <<>>
    BY <1>0, <1>4 DEF StartBak, ListOld, PruneNext, Sleep, ScheduleTyped
  <2>2. QED
    BY <1>0, <2>1 DEF ScheduleTyped
<1>5. CASE UpdateAutomaticBackupTimes
  <2>1. lpc' = "list" /\ baks' = baks /\ baks # <<>>
    BY <1>0, <1>5 DEF UpdateAutomaticBackupTimes, ScheduleTyped
  <2>2. Bak.id \in Configs /\ auto[Bak.id] \in AutoRows
    BY <1>0, <2>1, BakTypes
  <2>3. CASE auto' = auto
    BY <1>0, <2>1, <2>3 DEF ScheduleTyped
  <2>4. CASE auto' = [auto EXCEPT ![Bak.id].last = now]
    <3> DEFINE r == [auto[Bak.id] EXCEPT !.last = now]
    <3>1. now \in Nat
      BY BoundsAssumption DEF TypeInv, CountersTyped
    <3>2. r \in AutoRows
      BY <2>2, <3>1 DEF AutoRows
    <3>3. auto' = [auto EXCEPT ![Bak.id] = r]
      BY <1>0, <2>2, <2>4 DEF ScheduleTyped
    <3> HIDE DEF r
    <3>4. /\ auto' \in [Configs -> {NoAuto} \cup AutoRows]
          /\ \A i \in DOMAIN baks : auto'[baks[i].id] # NoAuto
      BY <1>0, <3>2, <3>3, AutoChanges
    <3>5. QED
      BY <1>0, <2>1, <3>4 DEF ScheduleTyped
  <2>5. QED
    BY <1>5, <2>3, <2>4 DEF UpdateAutomaticBackupTimes
<1>6. CASE AutomaticBaks
  BY <1>3, <1>4, <1>5, <1>6, WakeInv DEF AutomaticBaks
<1>7. QED
  BY <1>1, <1>2, <1>6, ScheduleInv, Writers

LEMMA AutomaticTypes ==
    ASSUME StoreTyped, NEW v
    PROVE  /\ AutomaticOf(v) \subseteq DOMAIN table /\ AutomaticOf(v) \subseteq Nat
           /\ IsFiniteSet(AutomaticOf(v))
<1>1. DOMAIN table = 1..Len(table) /\ Len(table) \in Nat
  <2>1. \E S : table \in Seq(S)
    BY DEF StoreTyped
  <2>2. QED
    BY <2>1
<1>2. AutomaticOf(v) \subseteq DOMAIN table
  BY DEF StoreTyped, AutomaticOf
<1>3. IsFiniteSet(1..Len(table)) /\ AutomaticOf(v) \subseteq 1..Len(table)
  BY <1>1, <1>2, FS_Interval
<1>4. IsFiniteSet(AutomaticOf(v))
  BY <1>3, FS_Subset
<1>5. AutomaticOf(v) \subseteq Nat
  BY <1>1, <1>3
<1>6. QED
  BY <1>2, <1>4, <1>5

LEMMA ListedStep ==
    ASSUME TypeInv, [Next]_vars
    PROVE  ListedTyped'
<1>1. /\ listed \in Seq(DOMAIN table) /\ next \in Nat
      /\ DOMAIN table \subseteq DOMAIN table'
  BY TableGrows DEF TypeInv, ListedTyped
<1>2. ASSUME NEW s \in Seq(DOMAIN table) PROVE s \in Seq(DOMAIN table')
  <2> DEFINE D == DOMAIN table
             E == DOMAIN table'
  <2>1. s \in Seq(D) /\ D \subseteq E
    BY <1>1, <1>2
  <2> HIDE DEF D, E
  <2>2. s \in Seq(E)
    BY <2>1
  <2>3. QED
    BY <2>2 DEF E
<1>3. CASE listed' \in {listed, <<>>} /\ next' \in {next, 0, next + 1}
  <2>1. <<>> \in Seq(DOMAIN table)
    BY EmptySeq
  <2>2. listed' \in Seq(DOMAIN table)
    <3> DEFINE D == Seq(DOMAIN table)
    <3>1. listed \in D /\ <<>> \in D
      BY <1>1, <2>1
    <3> HIDE DEF D
    <3>2. listed' \in D
      BY <1>3, <3>1
    <3>3. QED
      BY <3>2 DEF D
  <2>3. next' \in Nat
    BY <1>1, <1>3
  <2>4. QED
    BY <1>2, <2>2, <2>3 DEF ListedTyped
<1>4. CASE ListOld
  <2> DEFINE S == AutomaticOf(Bak.row.vm)
             newest == NewestFirst(S)
  <2>1. /\ newest \in [1..Cardinality(S) -> S] /\ S \subseteq DOMAIN table
        /\ Cardinality(S) \in Nat
    BY AutomaticTypes, NewestFirstTypes DEF TypeInv
  <2>2. Bak.row.retain \in Nat
    BY <1>4, BakTypes DEF ListOld, TypeInv, ScheduleTyped
  <2>3. listed' = newest /\ next' = Bak.row.retain + 1
    BY <1>4 DEF ListOld
  <2> HIDE DEF S, newest
  <2>4. newest \in Seq(DOMAIN table)
    BY <2>1
  <2>5. QED
    BY <1>2, <2>2, <2>3, <2>4 DEF ListedTyped
<1>5. UNCHANGED <<auto, loop>> \/ (\E c \in Configs : Schedule(c)) \/ AutomaticBaks \/ Restart
  BY Writers
<1>6. CASE AutomaticBaks
  BY <1>3, <1>4, <1>6 DEF AutomaticBaks, Wake, SkipBak, StartBak, NextBak,
     UpdateAutomaticBackupTimes, AutoBakFails, PruneNext, PruneDone, Sleep
<1>7. QED
  BY <1>3, <1>5, <1>6 DEF Schedule, Restart

LEMMA LookUpTypes ==
    ASSUME TypeInv, [Next]_vars, NEW p \in Callers, NEW id, LookUp(p, id)
    PROVE  DeletesTyped'
<1>1. id \in 0..Len(table') /\ 0..Len(table) \subseteq 0..Len(table')
  <2>1. id \in DOMAIN table'
    BY TableGrows DEF LookUp, TypeInv, StoreTyped
  <2>2. PICK R : table' \in Seq(R)
    BY TableGrows DEF StoreTyped
  <2>3. QED
    BY <2>1, <2>2, TableGrows
<1>2. QED
  BY <1>1 DEF LookUp, TypeInv, DeletesTyped

LEMMA DeletesStep ==
    ASSUME TypeInv, [Next]_vars
    PROVE  DeletesTyped'
<1>1. 0..Len(table) \subseteq 0..Len(table') /\ 0 \in 0..Len(table')
  BY TableGrows
<1>2. CASE UNCHANGED deletes
  BY <1>1, <1>2 DEF TypeInv, DeletesTyped
<1>3. ASSUME NEW p \in Callers, DeleteRow(p) \/ RemoveDirectory(p) \/ DeleteFails(p)
      PROVE  DeletesTyped'
  <2>1. \/ stage' = [stage EXCEPT ![p] = "dir"] /\ doomed' = doomed
        \/ stage' = [stage EXCEPT ![p] = "idle"] /\ doomed' = [doomed EXCEPT ![p] = 0]
    BY <1>3 DEF DeleteRow, RemoveDirectory, DeleteFails, DeleteReturns
  <2>2. QED
    BY <1>1, <2>1 DEF TypeInv, DeletesTyped
<1>4. CASE Restart
  BY <1>1, <1>4 DEF Restart, DeletesTyped
<1>5. ASSUME NEW p \in Deleters, NEW id \in rows, RequestDelete(p, id)
      PROVE  DeletesTyped'
  BY <1>5, LookUpTypes DEF RequestDelete, Callers
<1>6. CASE PruneNext
  BY <1>2, <1>6, LookUpTypes DEF PruneNext, Callers
<1>7. QED
  BY <1>2, <1>3, <1>4, <1>5, <1>6, Writers

LEMMA CountersStep ==
    ASSUME TypeInv, [Next]_vars
    PROVE  CountersTyped'
<1>1. /\ now' = now \/ (now < MaxDays /\ now' = now + 1)
      /\ faults' = faults \/ (faults < MaxFaults /\ faults' = faults + 1)
  <2>1. CASE AutomaticBaks
    BY <2>1 DEF AutomaticBaks, Wake, SkipBak, StartBak, UpdateAutomaticBackupTimes,
         AutoBakFails, ListOld, PruneNext, PruneDone, Sleep
  <2>2. ASSUME NEW t \in Tasks, Step(t) \/ UnFreezeFails(t)
        PROVE  /\ now' = now
               /\ faults' = faults \/ (faults < MaxFaults /\ faults' = faults + 1)
    BY <2>2 DEF Step, Freeze, FreezeFails, MakeFolder, StartCopy, CopyDone, CopyFails,
         InsertVirshBackup, InsertFails, Define, UnFreeze, UnFreezeFails
  <2>3. CASE UNCHANGED vars
    BY <2>3 DEF vars
  <2>4. QED
    BY <2>1, <2>2, <2>3 DEF Next, RequestBackup, UseBackup, RequestDelete, DeleteRow,
         RemoveDirectory, DeleteFails, DeleteReturns, Schedule, Switch, Tick, Restart
<1>2. QED
  BY <1>1, BoundsAssumption DEF TypeInv, CountersTyped

LEMMA InitTypes == Init => TypeInv
<1> SUFFICES ASSUME Init PROVE TypeInv
  OBVIOUS
<1>1. MachinesTyped /\ RestoredTyped /\ CountersTyped
  BY BoundsAssumption DEF Init, MachinesTyped, RestoredTyped, CountersTyped, Folder, Image
<1>2. StoreTyped /\ ListedTyped /\ DeletesTyped
  BY DEF Init, StoreTyped, ListedTyped, DeletesTyped, Image
<1>3. TasksTyped
  BY DEF Init, TasksTyped, JobKinds, OneCopy, Phase, Ended
<1>4. ScheduleTyped
  BY DEF Init, ScheduleTyped
<1>5. QED
  BY <1>1, <1>2, <1>3, <1>4 DEF TypeInv

LEMMA TypeInvStep == TypeInv /\ [Next]_vars => TypeInv'
  BY MachinesStep, TableGrows, RestoredStep, TasksStep, CountersStep, ScheduleStep,
     ListedStep, DeletesStep DEF TypeInv

LEMMA TypeInvTypes == TypeInv => TypeOK
<1> SUFFICES ASSUME TypeInv PROVE TypeOK
  OBVIOUS
<1> DEFINE C == {t \in Tasks : phase[t] = "copy"}
<1>1. Cardinality(C) <= 1
  <2>1. \A t, u \in C : t = u
    BY DEF TypeInv, TasksTyped, OneCopy
  <2>2. C = {} \/ \E t : C = {t}
    BY <2>1
  <2> HIDE DEF C
  <2>3. Cardinality(C) = 0 \/ Cardinality(C) = 1
    BY <2>2, FS_EmptySet, FS_Singleton
  <2>4. QED
    BY <2>3
<1>2. QED
  BY <1>1 DEF TypeInv, TypeOK, MachinesTyped, StoreTyped, RestoredTyped, TasksTyped,
              CountersTyped, ScheduleTyped, ListedTyped, DeletesTyped

(* Every variable keeps its type, and one copy runs at a time, whatever    *)
(* tasks, requests and the loop do and whenever the master stops.          *)
THEOREM BackupsTypeOK == Spec => []TypeOK
  BY InitTypes, TypeInvStep, TypeInvTypes, PTL DEF Spec

-----------------------------------------------------------------------------
(* Retention.  The list goes from the newest to the oldest, the loop looks *)
(* at what lies beyond the first MaxBackupsRetain, and the list and the    *)
(* number stay as they are until the loop is done with it.                 *)

Spared(id) ==
    Cardinality({i \in DOMAIN listed : listed[i] > id}) >= Bak.row.retain

PruneInv ==
    /\ lpc = "prune" =>
        /\ next > Bak.row.retain
        /\ \A i, j \in DOMAIN listed : i < j => listed[i] > listed[j]
    /\ stage[Loop] # "idle" => lpc = "prune" /\ Spared(doomed[Loop])

(* Behind the first n of the list there are n newer ones.                  *)
LEMMA NextIsSpared ==
    ASSUME TypeInv, PruneInv, PruneNext
    PROVE  Spared(listed[next])
<1> DEFINE n == Bak.row.retain
           N == {i \in DOMAIN listed : listed[i] > listed[next]}
<1>1. n \in Nat /\ n < next
  BY BakTypes DEF PruneNext, PruneInv, TypeInv, ScheduleTyped
<1>2. /\ DOMAIN listed = 1..Len(listed) /\ Len(listed) \in Nat
      /\ next \in DOMAIN listed
  <2>1. (\E D : listed \in Seq(D)) /\ next \in Nat /\ next <= Len(listed)
    BY DEF TypeInv, ListedTyped, PruneNext
  <2>2. QED
    BY <1>1, <2>1
<1>3. \A i, j \in DOMAIN listed : i < j => listed[i] > listed[j]
  BY DEF PruneInv, PruneNext
<1> HIDE DEF n
<1>4. 1..n \subseteq N /\ N \subseteq 1..Len(listed)
  BY <1>1, <1>2, <1>3
<1>5. IsFiniteSet(N)
  <2>1. IsFiniteSet(1..Len(listed))
    BY <1>2, FS_Interval
  <2> HIDE DEF N
  <2>2. QED
    BY <1>4, <2>1, FS_Subset
<1>6. Cardinality(1..n) = n
  BY <1>1, FS_Interval
<1> HIDE DEF N
<1>7. Cardinality(1..n) <= Cardinality(N) /\ Cardinality(N) \in Nat
  BY <1>4, <1>5, FS_Subset, FS_CardinalityType
<1>8. QED
  BY <1>1, <1>6, <1>7 DEF Spared, N, n

LEMMA ListOldSpares ==
    ASSUME TypeInv, ListOld
    PROVE  /\ next' > Bak.row.retain
           /\ \A i, j \in DOMAIN listed' : i < j => listed'[i] > listed'[j]
<1> DEFINE S == AutomaticOf(Bak.row.vm)
<1>1. S \subseteq Nat /\ IsFiniteSet(S)
  BY AutomaticTypes DEF TypeInv
<1>2. listed' = NewestFirst(S) /\ next' = Bak.row.retain + 1
  BY DEF ListOld
<1>3. Bak.row.retain \in Nat
  BY BakTypes DEF ListOld, TypeInv, ScheduleTyped
<1> HIDE DEF S
<1>4. next' > Bak.row.retain
  BY <1>2, <1>3
<1>5. DOMAIN listed' = 1..Cardinality(S)
  BY <1>1, <1>2, NewestFirstTypes
<1>6. QED
  BY <1>1, <1>2, <1>4, <1>5, NewestFirstTypes

(* How the loop and its deletion go on.                                    *)
LEMMA PruneSteps ==
    ASSUME [Next]_vars, lpc' = "prune", ~ListOld
    PROVE  /\ lpc = "prune" /\ baks' = baks
           /\ listed' = listed /\ next' \in {next, next + 1}
<1>1. CASE UNCHANGED <<auto, loop>>
  BY <1>1
<1>2. CASE (\E c \in Configs : Schedule(c)) \/ Restart \/ AutomaticBaks
  BY <1>2 DEF Schedule, Restart, AutomaticBaks, Wake, SkipBak, StartBak, NextBak,
     UpdateAutomaticBackupTimes, AutoBakFails, PruneNext, PruneDone, Sleep
<1>3. QED
  BY <1>1, <1>2, Writers

LEMMA DeleteSteps ==
    ASSUME TypeInv, [Next]_vars, stage'[Loop] # "idle"
    PROVE  \/ stage[Loop] # "idle" /\ doomed'[Loop] = doomed[Loop]
           \/ PruneNext /\ doomed'[Loop] = listed[next]
<1>0. /\ Loop \in Callers /\ DeletesTyped
      /\ \A p \in Deleters : p # Loop
  BY LoopAssumption DEF Callers, TypeInv
<1>1. CASE UNCHANGED deletes
  BY <1>1
<1>2. ASSUME NEW p \in Deleters, NEW id \in rows, RequestDelete(p, id)
      PROVE  stage[Loop] # "idle" /\ doomed'[Loop] = doomed[Loop]
  BY <1>0, <1>2 DEF RequestDelete, LookUp, DeletesTyped
<1>3. ASSUME NEW p \in Callers, DeleteRow(p) \/ RemoveDirectory(p) \/ DeleteFails(p)
      PROVE  stage[Loop] # "idle" /\ doomed'[Loop] = doomed[Loop]
  <2>1. \/ stage[p] = "row" /\ stage' = [stage EXCEPT ![p] = "dir"] /\ doomed' = doomed
        \/ stage' = [stage EXCEPT ![p] = "idle"] /\ doomed' = [doomed EXCEPT ![p] = 0]
    BY <1>3 DEF DeleteRow, RemoveDirectory, DeleteFails, DeleteReturns
  <2>2. QED
    BY <1>0, <2>1 DEF DeletesTyped
<1>4. CASE PruneNext
  <2>1. CASE UNCHANGED deletes
    BY <2>1
  <2>2. CASE LookUp(Loop, listed[next])
    BY <1>0, <1>4, <2>2 DEF PruneNext, LookUp, DeletesTyped
  <2>3. QED
    BY <1>4, <2>1, <2>2 DEF PruneNext
<1>5. CASE Restart
  BY <1>0, <1>5 DEF Restart
<1>6. QED
  BY <1>1, <1>2, <1>3, <1>4, <1>5, Writers

LEMMA LoopPrunes ==
    ASSUME [Next]_vars, lpc = "prune", lpc' # "prune"
    PROVE  PruneDone \/ Restart
<1>1. CASE UNCHANGED <<auto, loop>>
  BY <1>1
<1>2. CASE AutomaticBaks
  BY <1>2 DEF AutomaticBaks, Wake, SkipBak, StartBak, UpdateAutomaticBackupTimes,
     AutoBakFails, ListOld, PruneNext, Sleep
<1>3. CASE \E c \in Configs : Schedule(c)
  BY <1>3 DEF Schedule
<1>4. QED
  BY <1>1, <1>2, <1>3, Writers

LEMMA PruneStep ==
    ASSUME TypeInv, PruneInv, [Next]_vars
    PROVE  PruneInv'
<1>1. ASSUME lpc' = "prune"
      PROVE  /\ next' > Bak'.row.retain
             /\ \A i, j \in DOMAIN listed' : i < j => listed'[i] > listed'[j]
  <2>1. CASE ListOld
    BY <2>1, ListOldSpares DEF ListOld, Bak
  <2>2. CASE ~ListOld
    <3>1. /\ lpc = "prune" /\ Bak' = Bak /\ listed' = listed
          /\ next' \in {next, next + 1}
      BY <1>1, <2>2, PruneSteps DEF Bak
    <3>2. next \in Nat /\ Bak.row.retain \in Nat
      BY <3>1, BakTypes DEF TypeInv, ListedTyped, ScheduleTyped
    <3>3. QED
      BY <3>1, <3>2 DEF PruneInv
  <2>3. QED
    BY <2>1, <2>2
<1>2. ASSUME stage'[Loop] # "idle" PROVE lpc' = "prune" /\ Spared(doomed[Loop])'
  <2>1. lpc = "prune" /\ Spared(doomed'[Loop])
    BY <1>2, DeleteSteps, NextIsSpared DEF PruneInv, PruneNext
  <2>2. lpc' = "prune"
    <3>1. ~Restart
      BY <1>2 DEF Restart, Callers
    <3>2. ASSUME PruneDone PROVE FALSE
      <4>1. stage[Loop] = "idle" /\ lpc' = "next"
        BY <3>2 DEF PruneDone, NextBak
      <4>2. PruneNext => lpc' = "prune"
        BY DEF PruneNext
      <4>3. QED
        BY <1>2, <4>1, <4>2, DeleteSteps
    <3>3. QED
      BY <2>1, <3>1, <3>2, LoopPrunes
  <2>3. ~ListOld
    BY <2>1 DEF ListOld
  <2>4. Bak' = Bak /\ listed' = listed
    BY <2>2, <2>3, PruneSteps DEF Bak
  <2>5. QED
    BY <2>1, <2>2, <2>4 DEF Spared
<1>3. QED
  BY <1>1, <1>2 DEF PruneInv

LEMMA InitPrune == Init => PruneInv
  BY DEF Init, PruneInv, Callers

(* Whenever the loop deletes a row, at least MaxBackupsRetain of the       *)
(* backups it had listed are newer than that one, with the MaxBackupsRetain*)
(* it read when it woke, whatever tasks insert and requests delete and     *)
(* reconfigure after it listed them.                                       *)
THEOREM PruningSparesTheNewest == Spec => PruneSparesTheNewest
<1> DEFINE Deleted ==
        stage[Loop] = "row" /\ stage'[Loop] = "dir" =>
            Cardinality({i \in DOMAIN listed : listed[i] > doomed[Loop]})
                >= Bak.row.retain
<1>1. PruneInv => Deleted
  BY DEF PruneInv, Spared
<1>2. TypeInv /\ PruneInv /\ [Next]_vars => (TypeInv /\ PruneInv)'
  BY TypeInvStep, PruneStep
<1>3. PruneInv /\ [Next]_vars => [Deleted]_vars
  BY <1>1
<1>4. QED
  BY <1>2, <1>3, InitTypes, InitPrune, PTL DEF Spec, PruneSparesTheNewest

-----------------------------------------------------------------------------
(* Freezing.  While a machine runs, a task that has frozen it is the only  *)
(* one that will thaw it, unless one of its tasks was asked for before it  *)
(* was last switched on.                                                   *)

HoldersOf(v) == {t \in Tasks : /\ job[t].kind = "backup" /\ job[t].vm = v
                               /\ job[t].live
                               /\ phase[t] \in {"wait", "copy", "insert", "thaw"}}
StaleOf(v) == {t \in Tasks : Stale(t) /\ job[t].vm = v}

FreezeInv ==
    /\ \A t \in Tasks : job[t].kind = "backup" => job[t].boot <= boots[job[t].vm]
    /\ \A v \in VMs : frozen[v] # 0 => v \in running
    /\ \A v \in running : StaleOf(v) = {} => \A t \in HoldersOf(v) : frozen[v] = t

(* A step of a task, and the start of one.                                 *)
LEMMA TaskMoves ==
    ASSUME TypeInv, NEW t \in Tasks, Step(t) \/ UnFreezeFails(t)
    PROVE  /\ job' = job /\ \A u \in Tasks \ {t} : phase'[u] = phase[u]
           /\ \/ Freeze(t) /\ job[t].kind = "backup" /\ phase'[t] = "wait"
              \/ phase[t] \in {"wait", "copy", "insert"}
              \/ phase'[t] \in Ended \/ job[t].kind = "restore"
<1>1. phase \in [Tasks -> Phase] /\ JobKinds
  BY DEF TypeInv, TasksTyped
<1>2. job' = job /\ \E q : Goto(t, q)
  BY DEF Step, Freeze, FreezeFails, MakeFolder, StartCopy, CopyDone, CopyFails,
         InsertVirshBackup, InsertFails, Define, UnFreeze, UnFreezeFails
<1>3. \A u \in Tasks \ {t} : phase'[u] = phase[u]
  BY <1>1, <1>2 DEF Goto
<1>4. \A q : Goto(t, q) => phase'[t] = q
  BY <1>1 DEF Goto
<1>5. \/ Freeze(t) /\ phase[t] = "freeze" /\ Goto(t, "wait")
      \/ phase[t] \in {"wait", "copy", "insert", "mkdir"}
      \/ \E q \in Ended : Goto(t, q)
  BY DEF Ended, Step, Freeze, FreezeFails, MakeFolder, StartCopy, SlotFree, CopyDone, CopyFails,
         InsertVirshBackup, InsertFails, Define, UnFreeze, UnFreezeFails
<1>6. QED
  BY <1>1, <1>2, <1>3, <1>4, <1>5 DEF JobKinds

LEMMA TaskStarts ==
    ASSUME TypeInv, NEW t \in Tasks, NEW v \in VMs, NEW automatic, BackupVM(t, v, automatic)
    PROVE  /\ job[t] = NoJob
           /\ job'[t].vm = v /\ job'[t].boot = boots[v]
           /\ phase'[t] = "freeze" \/ ~job'[t].live
           /\ \A u \in Tasks \ {t} : job'[u] = job[u] /\ phase'[u] = phase[u]
  BY DEF BackupVM, Fresh, Goto, TypeInv, TasksTyped

LEMMA RestoreTaskStarts ==
    ASSUME TypeInv, NEW t \in Tasks, NEW id, NEW m, UseBackup(t, id, m)
    PROVE  /\ job[t] = NoJob /\ job'[t].kind = "restore"
           /\ \A u \in Tasks \ {t} : job'[u] = job[u] /\ phase'[u] = phase[u]
  BY DEF UseBackup, Fresh, Goto, TypeInv, TasksTyped

(* A task keeps its job, and one that starts knows the boot of its machine.*)
LEMMA JobStays ==
    ASSUME TypeInv, [Next]_vars, NEW u \in Tasks
    PROVE  /\ job[u].kind = "backup" => job'[u] = job[u]
           /\ job'[u].kind = "backup" =>
                \/ job'[u] = job[u]
                \/ job'[u].vm \in VMs /\ job'[u].boot = boots[job'[u].vm] /\ boots' = boots
<1>1. NoJob.kind = "none"
  BY DEF NoJob
<1>2. CASE UNCHANGED tasks \/ Restart
  BY <1>2 DEF Restart
<1>3. ASSUME NEW t \in Tasks, Step(t) \/ UnFreezeFails(t) PROVE job' = job
  BY <1>3, TaskMoves
<1>4. ASSUME NEW t \in Tasks, NEW v \in VMs, RequestBackup(t, v)
      PROVE  /\ job[u].kind = "backup" => job'[u] = job[u]
             /\ \/ job'[u] = job[u]
                \/ job'[u].vm = v /\ job'[u].boot = boots[v] /\ boots' = boots
  BY <1>1, <1>4, TaskStarts DEF RequestBackup
<1>5. ASSUME NEW t \in Tasks, StartBak(t)
      PROVE  /\ job[u].kind = "backup" => job'[u] = job[u]
             /\ \/ job'[u] = job[u]
                \/ job'[u].vm \in VMs /\ job'[u].boot = boots[job'[u].vm] /\ boots' = boots
  <2>1. Bak.row.vm \in VMs
    BY <1>5, BakTypes DEF StartBak, TypeInv
  <2>2. QED
    BY <1>1, <1>5, <2>1, TaskStarts DEF StartBak
<1>6. ASSUME NEW t \in Tasks, NEW id \in rows, NEW m \in Names, UseBackup(t, id, m)
      PROVE  /\ job[u].kind = "backup" => job'[u] = job[u]
             /\ job'[u].kind = "backup" => job'[u] = job[u]
  BY <1>1, <1>6, RestoreTaskStarts
<1>7. QED
  BY <1>2, <1>3, <1>4, <1>5, <1>6, Writers

(* Only a freeze makes a task one that holds its machine.                  *)
LEMMA HoldersBefore ==
    ASSUME TypeInv, [Next]_vars, NEW v, NEW u \in HoldersOf(v)'
    PROVE  u \in HoldersOf(v) \/ (Freeze(u) /\ job[u].kind = "backup" /\ job[u].vm = v)
<1>1. /\ u \in Tasks /\ job'[u].kind = "backup" /\ job'[u].vm = v /\ job'[u].live
      /\ phase'[u] \in {"wait", "copy", "insert", "thaw"}
  BY DEF HoldersOf
<1>2. CASE UNCHANGED tasks
  BY <1>1, <1>2 DEF HoldersOf
<1>3. ASSUME NEW t \in Tasks, Step(t) \/ UnFreezeFails(t)
      PROVE  u \in HoldersOf(v) \/ (Freeze(u) /\ job[u].kind = "backup" /\ job[u].vm = v)
  <2>1. CASE u = t
    BY <1>1, <1>3, <2>1, TaskMoves DEF HoldersOf, Ended
  <2>2. CASE u # t
    BY <1>1, <1>3, <2>2, TaskMoves DEF HoldersOf
  <2>3. QED
    BY <2>1, <2>2
<1>4. ASSUME NEW t \in Tasks, NEW x \in VMs, RequestBackup(t, x) PROVE u \in HoldersOf(v)
  <2>1. u # t
    BY <1>1, <1>4, TaskStarts DEF RequestBackup
  <2>2. QED
    BY <1>1, <1>4, <2>1, TaskStarts DEF RequestBackup, HoldersOf
<1>5. ASSUME NEW t \in Tasks, StartBak(t) PROVE u \in HoldersOf(v)
  <2>1. BackupVM(t, Bak.row.vm, TRUE) /\ Bak.row.vm \in VMs
    BY <1>5, BakTypes DEF StartBak, TypeInv
  <2>2. u # t
    BY <1>1, <2>1, TaskStarts
  <2>3. QED
    BY <1>1, <2>1, <2>2, TaskStarts DEF HoldersOf
<1>6. ASSUME NEW t \in Tasks, NEW id \in rows, NEW m \in Names, UseBackup(t, id, m)
      PROVE  u \in HoldersOf(v)
  <2>1. u # t
    BY <1>1, <1>6, RestoreTaskStarts
  <2>2. QED
    BY <1>1, <1>6, <2>1, RestoreTaskStarts DEF HoldersOf
<1>7. ~Restart
  BY <1>1 DEF Restart
<1>8. QED
  BY <1>2, <1>3, <1>4, <1>5, <1>6, <1>7, Writers

(* What a step makes of one machine.                                       *)
LEMMA MachineSteps ==
    ASSUME TypeInv, [Next]_vars, NEW v \in VMs
    PROVE  \/ /\ boots'[v] = boots[v] /\ frozen'[v] = frozen[v]
              /\ v \in running' <=> v \in running
           \/ boots'[v] = boots[v] /\ v \notin running' /\ frozen'[v] = 0
           \/ boots'[v] = boots[v] + 1 /\ v \notin running /\ frozen'[v] = 0
           \/ /\ UNCHANGED <<boots, running>>
              /\ \E t \in Tasks : /\ job[t].vm = v
                                  /\ \/ /\ Freeze(t) \/ FreezeFails(t)
                                        /\ frozen[v] = 0 /\ v \in running
                                     \/ UnFreeze(t) /\ frozen'[v] = 0
<1>1. MachinesTyped
  BY DEF TypeInv
<1>2. CASE UNCHANGED vms
  BY <1>2
<1>3. ASSUME NEW t \in Tasks, Freeze(t) \/ FreezeFails(t)
      PROVE  /\ UNCHANGED <<boots, running>>
             /\ \/ frozen'[v] = frozen[v]
                \/ job[t].vm = v /\ frozen[v] = 0 /\ v \in running
  BY <1>1, <1>3 DEF Freeze, FreezeFails, MachinesTyped
<1>4. ASSUME NEW t \in Tasks, UnFreeze(t)
      PROVE  /\ UNCHANGED <<boots, running>>
             /\ \/ frozen'[v] = frozen[v]
                \/ job[t].vm = v /\ UnFreeze(t) /\ frozen'[v] = 0
  BY <1>1, <1>4 DEF UnFreeze, MachinesTyped
<1>5. ASSUME NEW x \in VMs, Switch(x)
      PROVE  \/ /\ boots'[v] = boots[v] /\ frozen'[v] = frozen[v]
                /\ v \in running' <=> v \in running
             \/ boots'[v] = boots[v] /\ v \notin running' /\ frozen'[v] = 0
             \/ boots'[v] = boots[v] + 1 /\ v \notin running /\ frozen'[v] = 0
  BY <1>1, <1>5 DEF Switch, MachinesTyped
<1>6. QED
  BY <1>2, <1>3, <1>4, <1>5, Writers


(* The boot a task knows is no later one than its machine's.               *)
LEMMA BootsStep ==
    ASSUME TypeInv, FreezeInv, [Next]_vars, NEW u \in Tasks, job'[u].kind = "backup"
    PROVE  job'[u].boot <= boots'[job'[u].vm]
<1>1. /\ job'[u] \in {NoJob} \cup BackupJobs \cup RestoreJobs
      /\ boots \in [VMs -> 0..MaxBoots] /\ boots' \in [VMs -> 0..MaxBoots]
  BY TypeInvStep DEF TypeInv, TasksTyped, MachinesTyped
<1>2. job'[u].vm \in VMs /\ job'[u].boot \in Nat
  BY <1>1, JobTypes
<1>3. \A v \in VMs : /\ boots[v] \in Nat /\ boots'[v] \in Nat
                     /\ boots'[v] = boots[v] \/ boots'[v] = boots[v] + 1
  <2>1. \A v \in VMs : boots'[v] = boots[v] \/ boots'[v] = boots[v] + 1
    BY MachineSteps
  <2>2. QED
    BY <1>1, <2>1, BoundsAssumption
<1>4. job'[u].boot <= boots[job'[u].vm]
  BY <1>1, <1>2, <1>3, JobStays DEF FreezeInv
<1>5. QED
  BY <1>2, <1>3, <1>4

(* A task of a machine that is switched on was asked for before.           *)
LEMMA HolderStays ==
    ASSUME TypeInv, FreezeInv, [Next]_vars, NEW v \in VMs, v \in running',
           StaleOf(v)' = {}, NEW u \in HoldersOf(v)'
    PROVE  frozen'[v] = u
<1>0. /\ MachinesTyped /\ TasksTyped /\ MachinesTyped' /\ u \in Tasks
  BY TypeInvStep DEF TypeInv, HoldersOf
<1>1. \/ u \in HoldersOf(v)
      \/ Freeze(u) /\ job[u].kind = "backup" /\ job[u].vm = v
  BY HoldersBefore
<1>2. job[u].kind = "backup" /\ job[u].vm = v /\ job'[u] = job[u]
  BY <1>1, JobStays DEF HoldersOf
<1>3. boots'[v] = boots[v]
  <2>1. job[u].boot <= boots[v] /\ job[u].boot \in Nat
    BY <1>0, <1>2, JobTypes DEF FreezeInv, TasksTyped
  <2>2. boots[v] \in Nat /\ boots'[v] \in Nat
    BY <1>0, BoundsAssumption DEF MachinesTyped
  <2>3. job'[u].boot = boots'[v]
    BY <1>0, <1>2 DEF StaleOf, Stale
  <2>4. boots'[v] = boots[v] \/ boots'[v] = boots[v] + 1
    BY MachineSteps
  <2>5. QED
    BY <1>2, <2>1, <2>2, <2>3, <2>4
<1>4. StaleOf(v) = {}
  <2>1. ASSUME NEW t \in StaleOf(v) PROVE t \in StaleOf(v)'
    <3>1. /\ t \in Tasks /\ job[t].kind = "backup" /\ job[t].vm = v
          /\ job[t].boot # boots[v]
      BY <2>1 DEF StaleOf, Stale
    <3>2. job'[t] = job[t]
      BY <3>1, JobStays
    <3>3. QED
      BY <1>3, <3>1, <3>2 DEF StaleOf, Stale
  <2>2. QED
    BY <2>1
<1>5. CASE Freeze(u)
  BY <1>0, <1>2, <1>5 DEF Freeze, MachinesTyped
<1>6. CASE u \in HoldersOf(v)
  <2>1. v \in running => frozen[v] = u /\ u # 0
    BY <1>0, <1>4, <1>6, BoundsAssumption DEF FreezeInv, Tasks
  <2>2. ASSUME NEW t \in Tasks, job[t].vm = v, UnFreeze(t), v \in running PROVE FALSE
    <3>1. phase[t] = "thaw" /\ phase'[t] = "done"
      BY <1>0, <2>2 DEF UnFreeze, Goto, TasksTyped
    <3>2. t \in HoldersOf(v)
      BY <1>0, <2>2, <3>1 DEF HoldersOf, TasksTyped, JobKinds
    <3>3. t = u
      BY <1>4, <2>1, <2>2, <3>2 DEF FreezeInv
    <3>4. QED
      BY <3>1, <3>3 DEF HoldersOf
  <2>3. v \notin running \/ frozen[v] # 0
    BY <2>1
  <2>4. QED
    BY <1>0, <1>3, <2>1, <2>2, MachineSteps, BoundsAssumption DEF MachinesTyped
<1>7. QED
  BY <1>1, <1>5, <1>6

LEMMA FreezeStep ==
    ASSUME TypeInv, FreezeInv, [Next]_vars
    PROVE  FreezeInv'
<1>0. MachinesTyped /\ MachinesTyped'
  BY TypeInvStep DEF TypeInv
<1>1. \A t \in Tasks : job'[t].kind = "backup" => job'[t].boot <= boots'[job'[t].vm]
  BY BootsStep
<1>2. ASSUME NEW v \in VMs, frozen'[v] # 0 PROVE v \in running'
  BY <1>2, MachineSteps DEF FreezeInv
<1>3. ASSUME NEW v \in running', StaleOf(v)' = {}, NEW u \in HoldersOf(v)'
      PROVE  frozen'[v] = u
  <2>1. v \in VMs
    BY <1>0 DEF MachinesTyped
  <2>2. QED
    BY <1>3, <2>1, HolderStays
<1>4. \A v \in running' : StaleOf(v)' = {} => \A t \in HoldersOf(v)' : frozen'[v] = t
  BY <1>3
<1>5. QED
  BY <1>1, <1>2, <1>4 DEF FreezeInv

LEMMA InitFreeze == Init => FreezeInv
  BY DEF Init, FreezeInv, HoldersOf, NoJob

(* A running machine that a task has frozen is thawed by that task and by  *)
(* no other that reads the same disk, whatever machines are switched on    *)
(* and off meanwhile, unless one of its tasks was asked for before it was  *)
(* last switched on.                                                       *)
THEOREM FreezersThaw == Spec => OwnThaw
<1> DEFINE Thaws ==
        \A v \in running' : frozen[v] # 0 /\ frozen'[v] = 0 =>
            \/ phase[frozen[v]] = "thaw" /\ phase'[frozen[v]] = "done"
            \/ \E t \in Tasks : Stale(t) /\ job[t].vm = v
<1>1. ASSUME TypeInv, FreezeInv, [Next]_vars PROVE Thaws
  <2> SUFFICES ASSUME NEW v \in running', frozen[v] # 0, frozen'[v] = 0, StaleOf(v) = {}
               PROVE  phase[frozen[v]] = "thaw" /\ phase'[frozen[v]] = "done"
    BY DEF StaleOf
  <2>1. v \in VMs /\ TasksTyped
    BY <1>1, TypeInvStep DEF TypeInv, MachinesTyped
  <2>2. v \in running
    BY <1>1, <2>1 DEF FreezeInv
  <2>3. PICK t \in Tasks : job[t].vm = v /\ UnFreeze(t)
    BY <1>1, <2>1, <2>2, MachineSteps
  <2>4. phase[t] = "thaw" /\ phase'[t] = "done"
    BY <2>1, <2>3 DEF UnFreeze, Goto, TasksTyped
  <2>5. t \in HoldersOf(v)
    BY <2>1, <2>3, <2>4 DEF HoldersOf, TasksTyped, JobKinds
  <2>6. frozen[v] = t
    BY <1>1, <2>2, <2>5 DEF FreezeInv
  <2>7. QED
    BY <2>4, <2>6
<1> HIDE DEF Thaws
<1>2. TypeInv /\ FreezeInv /\ [Next]_vars => (TypeInv /\ FreezeInv)'
  BY TypeInvStep, FreezeStep
<1>3. TypeInv /\ FreezeInv /\ [Next]_vars => [Thaws]_vars
  BY <1>1
<1>4. Spec => [][Thaws]_vars
  BY <1>2, <1>3, InitTypes, InitFreeze, PTL DEF Spec
<1>5. QED
  BY <1>4 DEF OwnThaw, Thaws

=============================================================================

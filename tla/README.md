# HyperHive in TLA+

TLA+ models of HyperHive's control plane, with the configurations TLC checks
them with and the theorems TLAPS checks. The reference is the Go code; every
definition that stands for code is listed with its lines in `PROJECT.json`
under `map`.

## The system

HyperHive runs virtual machines on a few hosts. A **master** holds the state of
the cluster (an SQLite database), serves the HTTP API and calls the **slaves**
over gRPC; a **slave** drives libvirt, NFS, Btrfs, Docker and the rest of one
host. Slaves announce themselves to the master (`SetConnection` on port 50051)
and the master dials them back (port 50052); each side pings the other.

There is no work queue and no transaction: an HTTP request, an RPC handler, a
ticker or a background task is a goroutine that reads some rows, calls some
slaves and runs some commands. What they share is a slice of connections, the
rows, the file systems, the kernel's tables and libvirt's domains, and most of it
has no lock. That is where the hard behaviours are.

### Components

| Component | State it keeps | Operations | Interacts with |
|---|---|---|---|
| Slave registry (`master/protocol`) | `connections`, a slice under a mutex | `SetConnection`, `NewSlaveConnection`, `PingAllSlaves`, `CheckConnectionStateRemove`, `tryRestoreConnection`, lookups | slaves over gRPC; every service looks its slave up here; starts `newSlave` |
| Slave start-up (`master/main.go`) | two sets of machine names in flight | `newSlave`, `scheduleDelayedSlaveStartup` | called by the registry; mounts Btrfs and NFS, then starts machines and containers |
| Slave client (`slave/protocol`) | one connection to the master | `ConnectGRPC`, `PingMaster`, `monitorConnection`, restart of the process | the registry |
| SPA ports (`services/spa.go`, `spa/spa.go`, `db/spa.go`) | rows, iptables rules, ipsets | `Create`, `Delete`, `Allow`, `Reapply`, `Maintain` | shell commands; HTTP requests |
| Backups (`services/virshBackups.go`, `db/virshBackups.go`) | rows of backups and of schedules, directories, the copy slot | `BackupVM`, `DeleteBackup`, `UseBackup`, automatic backups | slaves (freeze, thaw, define), shared storage |
| NFS shares (`services/nfs.go`, `db/nfs.go`) and mounts (`slave/nfs`) | rows, exports, mounts | create, mount, delete, `MaintainNFS`, mount monitor | machines, backups and ISOs live on the shares |
| Virtual machines (`services/virsh.go`, `slave/virsh`) | libvirt domains, rows for live and autostart | create, start, stop, migrate, move and clone disks, autostart | NFS, backups, VM disks |
| CPU pinning and core isolation (`slave/virsh`) | pinnings in domain XML, isolated cores | pin, unpin, isolate | machines |
| VM disks (`services/vm_disk.go`) | rows, image files, attachments | create, attach, detach, delete | machines, NFS |
| WebSocket broker | slice of clients under a mutex | register, broadcast | every task's progress messages |
| SQLite backup | rotated files | periodic backup, prune | the database |
| Disk reallocation (`slave/smartdisk/forcerealloc.go`) | map of jobs under a mutex | start, cancel, clean up | API |
| The rest | tables with one statement per function, parsers, wrappers of commands, clients of other services | | |

`PROJECT.json` lists every component with its files and says why those without
a model have none.

### Hard behaviours, and what makes each component correct

*Registry.* Dials, pings and closes happen with the lock released, on copies of
entries that other goroutines replace or remove in the meantime. It is correct
if no connection is leaked or closed twice, what is registered is open, a lookup
returns the latest registration, a late check does not remove a slave's new
connection, and a dead slave is forgotten.

*SPA.* One `EnableSPA` is up to twenty-odd commands, some of them placing rules by
position, and several may run at once, fail, or be cut short by a restart.
`Maintain` re-applies every row each round. It is correct if that always brings
the configured ports back to their two rules in order and costs nobody the
access he was given.

*Backups.* `BackupVM` and `UseBackup` answer before the work is done; copies
queue for one slot with the guest's file systems frozen; pruning works on a list
of rows that requests delete from; the master may stop anywhere. It is correct
if a row always stands for an image that can be restored, pruning spares the
newest, a freeze lasts as long as the copy it was made for and no longer, and a
machine made from a backup has its disk to itself.

*Virtual machines.* The master keeps no record of where a machine is: each call asks
the hosts that answer. Migrations, moves and clones check the state when they are
asked and work in the background by what they saw then, on machines that others start,
delete and migrate meanwhile; each call of a slave may fail half-way. It is correct if
no migration takes a machine's last definition, and a move deletes only what it has
copied, defined anew and found switched off.

*NFS shares.* The rows are the master's, the exports the source slave's, the mounts every
slave's. Requests, `newSlave` and `MaintainNFS` change all three by RPCs with no lock
between them, slaves restart and forget, and on each slave a monitor and timers mount anew
what was lost. It is correct if, once things calm down, every share with a row is exported
and mounted everywhere, if no retry is left without anyone who runs it, and if what a
slave watches comes back.

*CPU pinning and core isolation.* A pinning is stored nowhere but in the domain's XML,
which other handlers edit as well, and what was asked for is inferred from it; core isolation
is stored as a list of CPUs. It is correct if libvirt accepts what the handlers define, if
what is read back is what was asked for, if two vCPUs share a core only as its
hyperthreads, and if half of each socket stays free.

*The others* are listed under "Not modelled".

## Modules

| Module | Models | State ↔ code |
|---|---|---|
| `Connections` | `master/protocol` | `connections` is the slice; the goroutines' local variables are functions from goroutines: `pc`, `request` (arguments of `SetConnection`), `held` (the connection only this goroutine has), `todo` (the snapshot of `PingAllSlaves`), `suspect` (the copy that `CheckConnectionStateRemove` works on), `tries`. A `grpc.ClientConn` is the number of its dial, `EntryTime` the number of the registration. |
| `Registry` | the abstract registry: what services may rely on | `entries` the registrations in force, `byAddr` and `byName` what each lookup finds, `retired` the connections given up; a step registers a slave, gives one up or discards a connection, and lookups follow at once. |
| `ConnectionsProofs` | theorems about `Connections` | |
| `ConnectionsRefinement` | proof that `Connections` implements `Registry` | |
| `Spa` | SPA ports | `db` the rows, `chain` the iptables chains in order, `sets` and `granted` the ipsets and members; `task`, `step`, `port`, `n`, `todo` say which operation each goroutine runs, its next shell command, and on which rule of which port. |
| `Backups` | backups | `table`, `rows` the backups' rows (dead ones kept to be spoken of), `file`, `disk` the images in the backups' directories and the new machines' folders, `defined` the domains made, `job`, `phase` the background tasks, `auto` the schedules, `lpc`, `baks`, `listed`, `next` the loop's local variables, `stage`, `doomed` those of each `DeleteBackup`, `running`, `boots`, `frozen` the guests. |
| `Machines` | virtual machines: creation, power, deletion, cold and live migration, moves, clones | `domain[h][n]` is libvirt's definition of `n` on host `h`, given by the share its disk is on; `running` the domains that run; `disk[s][n]` folder `n` of share `s`; `task` the background goroutines with what they captured (and, as history, whether a copy was the only one to open its file: `sole`); `fate` remembers whether a name was ever defined or deleted. |
| `Shares` | NFS shares and mounts, and `newSlave`'s part in them | `rows` the shares in the database, `connected` the slaves the registry has; `file` and `exported` each slave's exports file and what its server exports, `mounts` each slave's mounts (none, good, stale), `tracked` is `CurrentMounts`, `retry` is `retryStates`, `stray` a timer that no state refers to, `run` an active `runMountRetry`, `monitor` where `MonitorMounts` stands; `task` where each of the master's goroutines stands and the rows it has still to work on. |
| `Cores` | CPU pinning, the handlers that rewrite what it has written (the vCPU part of `EditVm`, `UpdateVMCPUXml`, `UpdateVMXml`), host core isolation | `cpus` the host's topology, `def` the machine's definition (vCPUs, topology, pins, emulator pins, and the ghosts `asked`, the configuration the pins come from, and `since`, the handlers that have rewritten it since), `configured` and `active` the isolated list in the boot configuration and in the running kernel, `selected` the selection behind it (a ghost), `task` what each RPC handler is about to do. |
| `SpaProofs`, `BackupsProofs`, `MachinesProofs`, `SharesProofs`, `CoresProofs` | theorems about the module each is named for | |
| `OrderTheorems` | lemmas that `BackupsProofs` and `CoresProofs` share: a finite set of naturals has a least and a greatest element, and one sequence lists it in ascending (descending) order and misses none | |
| `MCConnections`, `MCSpa`, `MCBackups`, `MCMachines`, `MCShares`, `MCCores` | model values for TLC; `MCCores` also has the hosts | |

An action is what a goroutine does between two points where another can run:
one critical section, one query, one RPC, one shell command, one phase of a copy.
Names of operators are those of the functions, or say which part of one they are.

What is abstracted: names, addresses and ports are model values; `LastSeen`,
passwords, SMTP and WebSocket notifications and log lines are left out; an image
is absent, partial or complete; a clock is a day count; the minute window of a schedule is a
free choice of the due rows. In `Backups`, `ColdMigrateVm` is one step that defines the new
machine or fails. Other users of the copy slot (`MoveDisk`, `CloneVM`,
imports) are not in the model: they can only make a task wait longer, and a wait may time out at any moment.
In `Machines`, that a host does not answer is the set `up` chosen at each lookup, and a
call that fails without effect, a time-out and a restart of the master are all `TaskFails`. The definition
of a machine and its start are one step, after which a machine that does not start stays defined. libvirt
refuses to define a name it has (the XML carries no UUID), and qemu locks an image it has open; a copy of
a running disk counts as complete. Left out: the rows of `vm_live` and `auto_start`, the autostart loop, XML
templates (a restart after the definition), edits of resources, imports and exports.
In `Shares` a folder is a member of a small set and a mount or an export is there or not. `mountSharedFolderOnce`
and an unmount, each with its bookkeeping, are one step; the monitor's arming of a timer and its untracking
of the mount are two, as another goroutine between them matters. `newSlave` is one goroutine for each slave,
and is skipped while an earlier one of that slave runs. A failed mount first removes the stale one; a stale mount
stays stale until it is mounted anew. An RPC may fail before or after its effect; one that is timed out by the master
and takes effect still later is left out, and so is a second run at one time of one target's retry. `MaintainNFS` asks
the source, then every connected slave. `SyncNFSAllSlaves` changes nothing the properties speak of. Bind mounts of
the source (`HostNormalMount`), the checks that refuse a deletion while the share is in use, and the downloads of ISOs are left out.
In `Cores` one machine stands for all, as no handler looks at two (nothing keeps two machines from being pinned to the
same cores). Of a definition the vCPU count, the topology and the pins are kept, which is what pinning reads and writes; a list of CPUs is a set of ranges.
A `<cpu>` block stands for its `<topology>`, or for none: `CreateVMCustomCPU` keeps one the client sends, `UpdateVMCPUXml` puts the client's block in the
place of the one it reads, and every machine has a block, as libvirt fills one in. `UpdateVMXml` defines what a client sends: a definition of its own, not pinned,
or the one there was when it, or a handler that changes other parts (`hyperv.go`, `kvm_hidden.go`, `machine_type.go` and the like), read it. A client that keeps a
definition for longer than a request is in flight, pins written by hand, `irqbalance` and the command-line tool are left out.
libvirt refuses a definition whose sockets, cores and threads do not multiply to its vCPUs (`Fits`), as its parser does.
In `Spa` the exit codes of `iptables` and `ipset` follow their use in
`spa.go`: a check of a rule whose set is missing, a deletion of an absent rule, an
insertion past the end and a `destroy` of a set in use all fail.

## Runs

| Run | Module, cfg | Question | Bounds |
|---|---|---|---|
| `connections` | `MCConnections`, `Connections.cfg` | safety of the registry, and that it implements the abstract one | a handler, the ping loop and a checker; two addresses, two names, three of the pairs (a slave that changes address, an address that changes slave); two attempts; three dials |
| `dead_slaves` | `MCConnections`, `ConnectionsLive.cfg` | a dead slave is forgotten for good | the same with two dials |
| `spa` | `MCSpa`, `Spa.cfg` | ports are repaired, members keep their access | two ports, two requests at a time and three in all, `Maintain`, one fault (failed command, failed query, restart of the master or of the host) |
| `spa_order` | `MCSpa`, `SpaOrder.cfg` | does a configured port let its members through? (violated) | no fault, no `Delete` needed |
| `backups` | `MCBackups`, `Backups.cfg` | rows are restorable, pruning spares the newest it listed, freezes and thaws | one machine switched on once, one schedule, one deleter, two tasks (backups or a restore), three days, one fault |
| `backups_retention` | `MCBackups`, `BackupsRetention.cfg` | are there at most `MaxBackupsRetain` automatic backups? (violated) | |
| `backups_restore` | `MCBackups`, `BackupsRestore.cfg` | are machines made from backups whole? (violated) | |
| `machines` | `MCMachines`, `Machines.cfg` | migrations lose no machine, moves delete only what was moved | three hosts, two shares, two names, two tasks at a time and four in all, whatever they are, one call that fails half-way |
| `machines_copies` | `MCMachines`, `MachinesCopies.cfg` | is the folder a move copies to its own? (violated) | one host, two tasks at a time |
| `machines_off` | `MCMachines`, `MachinesOff.cfg` | do moves and migrations take only machines that are off? (violated) | one host |
| `shares` | `MCShares`, `Shares.cfg` | are shares with a row served in the end, is no retry and no watched mount given up? | the source slave and its share, one request (create, either deletion, sync, remount), `newSlave`, `MaintainNFS`, one restart or disconnection, two attempts of the monitor |
| `cores` | `MCCores`, `Cores.cfg` | libvirt accepts what pinning, unpinning and edits define, pinning and isolation read back, cores are not shared, half of each socket stays free | two handlers, three requests, any restart; one socket of five two-threaded cores, two sockets numbered across, a socket with two two-threaded and three single-threaded cores, and one with two four-threaded cores; clients send `<cpu>` blocks without a topology and with two sockets of one two-threaded core |

Why the bounds suffice for the cases that matter: the registry's races need one
goroutine with an old copy and another that replaces the entry, and its duplicate
entries need a slave seen under two addresses; three dials let a connection be
registered, replaced and restored. Two ports are needed for one port's rule to
push another's down, and three requests for a create, a delete and an allow to overlap. Two
backups, due on the first and the third day, are what a retention of one prunes, and two tasks are what competes for the slot
or for one guest, or a backup and a restore from it; a deletion by a request may take any of their rows. Attempts are two where the code
says three, which leaves the loop its three cases: first, again, last.

In `Machines` four tasks are a creation and three migrations or moves of the machine, two of them
overlapping; the third host lets two migrations of one machine differ in their destination.
Moves and clones overlap as they like. Two that copy to one name and one share can both pass the check of the folder, and the second then truncates
what the first has copied; `machines_copies` shows a move that deletes the machine it came from after that. What `MovedBeforeDeleted` says of the copied
disk is therefore said of a move whose file no other copy has opened since (`sole`); that the new name is defined it says of every move.

`MovedBeforeDeleted` does not say on which share the new name is defined. With five tasks TLC finds that it need not be the one moved to: a
machine `v`, for which a cold migration away from `h1` is in flight, is migrated live from `h1` to `h3`; `h3` does not answer when `w` is moved to
the name `v`, which `MoveDisk` defines on `h1`; the cold migration then defines the old `v` on `h2` and, by name, undefines
the new one on `h1`; the move deletes `w`. The new disk stays, with no definition.

In `Shares` one request beside `newSlave`, `MaintainNFS`, the monitor and the timers gives five goroutines on one share,
any two of which race; a second slave adds mounts whose source restarts without them, and a second share an export that is
rewritten with another's; `SharesAreServed` and `WatchedIsMounted` are checked without either, as liveness with two slaves takes TLC longer than the runs are kept to. With two slaves, no request and one fault TLC
also finds no error in `TypeOK` and `RetryIsArmed` (4.2 million states), which are theorems for any slaves and shares. Two attempts of the
monitor are one that is repeated and one that is the last.
In `Cores` two handlers suffice to lose an update of a definition, and three requests for a pinning, an edit and another pinning
or an isolation; odd sockets make halves round, scattered sibling numbers make lists of several ranges, single-threaded
cores refuse hyperthreading, and four-threaded ones get it. A client's block with two sockets makes an edit keep, or give up, sockets and threads.

Further instances checked by hand, with no error: `Machines` with three hosts, one name, four slots and nine tasks (376,546 states,
`MigrationLosesNoMachine`), `dead_slaves` with three dials (2,507,980 states), and `OwnThaw` and `GuestsAreThawed` with
three tasks, no schedule and a machine switched on twice (430,196 states), so that a task may outlive the boot it was asked for in.

Deadlock is checked in `Connections`, `Spa` and `Cores`, where a loop or a restart is always possible, and not in
`Backups` and `Machines`, which rest when no task is left and the bounds on requests are used up, nor in `Shares`, where nothing remains to do
once no share has a row and every slave is connected.

### Fairness

`Connections` gives each goroutine weak fairness on what it does by itself: the
scheduler runs it, and each dial and ping has a deadline, so each wait ends one way or
the other. Nothing is assumed of which way: a ping may fail for ever, a slave may
never call. No fairness is given to calls from outside (`SetConnection`,
`FoundUnhealthy`) or to a slave's death.

`Spa` assumes that goroutines run, commands return and the ticker ticks.
`ConfiguredPortsAreRepaired` then speaks of the behaviours in which requests
stop; faults are bounded, so they stop too.

`Backups` assumes each background task goes on: its RPCs return and the copy,
with its wait for the slot, has a timeout. Requests, schedules, guests and faults are
free.

`Shares` assumes that `MaintainNFS` ticks and its calls return (they have deadlines), that a slave that is up
connects again, that the monitor and a timer that was armed run (`time.AfterFunc`, a ticker), and, by strong fairness, that a call which
is possible again and again does not fail every time: `MaintainNFS` must at some time look while the share is broken, have its export
take effect and its mount succeed, and so must a retry's mount. Without that a command could fail at every attempt and nothing the code
does would help. Requests and `newSlave` get no fairness and may hang anywhere.

`Cores` and `Registry` state no fairness: their properties are safety properties.

## What the runs show

* The registry holds up. The comparison of `EntryTime` in `removeConnection` is
  what makes late checks harmless, and taking an entry out under the lock is
  what makes each `Close` the only one.
* `Maintain` repairs everything requests, faults and restarts leave behind for the
  ports that have a row. Rules of a port without a row (a `Reapply` that works on an old list
  while the port is deleted) are repaired by nobody.
* Between two rounds of `Maintain` a configured port can be closed to everybody (`spa_order`):
  two creates interleave so that an ACCEPT lands below its DROP.
* Rows of backups are only inserted after a complete copy and deleted before their
  file, so they are restorable at all times, crashes included.
* A task's freeze is not lifted by another task, as the guest agent refuses a
  second freeze and a failed freeze ends the task before its thaw is deferred. The
  exception is stated in `OwnThaw`: a task asked for while the machine was on in an
  earlier boot finds a machine that is off, "freezes" nothing, and may later thaw
  another task's freeze.
* A guest stays frozen only if its freeze took effect but reported an error, its thaw failed, or the master stopped
  in between (the tasks that end as `lost` in the model, whatever else fails); the code recovers from none of these, and the guest
  stays frozen until it is switched off or another task's thaw comes by.
* Retention keeps one backup too many (`backups_retention`): the loop prunes when
  the new backup has only been started.
* The loop prunes by the list it has made, and never a backup that was among the newest of that list; when a request has deleted one of those
  meanwhile the loop does not look again, and fewer than `MaxBackupsRetain` are left.
* Two restores to one name can both pass the check of the folder
  (`backups_restore`).

* Cold migrations define before they undefine, so they lose no machine, however many overlap and wherever they
  fail; the price is a machine defined on two hosts when the last call fails, which nothing repairs. (The
  comment at `services/virsh.go:1875` has the order the other way round; in that order a
  failed definition would lose the machine, as the mutant of the run does.)
* Moves and clones go by a folder that is checked first and made later, as restores do: the disk a move has copied may be truncated by
  a clone to the same name before the move deletes the old one (`machines_copies`).
* A machine that is started after a move was asked for is destroyed with its disk at the end
  (`machines_off`); with two hosts the same happens to the origin of a cold migration.

* For its callers the registry is atomic: every registration, replacement and removal takes effect in one critical
  section, and lookups by address and by name find the newest registration although the slice may hold older ones of the same slave
  (`ImplementsRegistry`).
* Shares with a row are served in the end, thanks to `MaintainNFS` alone: a `newSlave` that is skipped or runs out of time, a deletion
  cut short and a failed retry all leave something for it. It works on rows it read earlier, so a share that is deleted meanwhile is
  exported again with no row, which nothing removes; a deleted share's armed timer tries for ever to mount it. The first `CreateSharedFolder` after a
  slave's restart writes the emptied exports file and so takes the machine's other shares away until `MaintainNFS` comes by.
* A retry state always has a timer or a run (`RetryIsArmed`). A mount that the monitor untracks after another goroutine has mounted it is
  watched by nobody (excluded in `Watched`).
* Two handlers may lose one another's edit of a definition, a pinning included, but GetCPUPinning reads from every outcome the range and the socket
  that the definition that won was asked for. An edit of the vCPUs leaves some unpinned and may hide that hyperthreads were asked for; a client's `<cpu>` block, which
  `UpdateVMCPUXml` puts in place of the topology that pinning wrote, may hide or invent it, as long as it multiplies to the same count (`PinningReadsBack` says which).
* What pinning, unpinning and edits compute libvirt accepts, whatever sockets and threads a client's block has left behind (`GuestTopologyFits`), but for
  one case: where a core has more than two threads, all are pinned and two are written to the topology, so a plan with hyperthreading is always refused, which the property says too. The machine then
  stays as it was. If the kernel arguments are cleared and then cannot be set, no isolation is left, as
  `IsolationReadsBack` states.

## Proofs

`ConnectionsProofs` proves of the registry, for all slaves, goroutines, attempts
and dials:

| Theorem | States |
|---|---|
| `TypeCorrect` | `TypeOK` |
| `RegisteredStaysOpen` | `RegisteredIsOpen` |
| `ClosedOnce` | `OneOwner` |
| `LookupsReturnTheNewest` | `NewestFirst` |
| `NothingLeaks` | `NoLeak` |
| `StaleChecksAreHarmless` | `OnlyTheCheckedEntryLeaves` |

They assume only the named assumptions in `Connections`: slaves are pairs of an
address and a name, attempts are positive, and the three kinds of goroutines are distinct.

The argument. `TypeOK` is not inductive: that `Target` and `suspect[p][1]` exist depends
on the label. `Control` adds which local variables are in use at which label, and
`TypeControl` is the conjunction. Neither `RegisteredIsOpen` nor `OneOwner` is
inductive: a step that takes an entry out hands its connection to a goroutine, so
one needs that no two entries share a connection and no goroutine holds a registered one;
and a dial needs that its number is new. `Numbering` says that connections in use are numbered
up to `dialled`, that entries have connections of their own, and that the times of
entries are below `registered`; `Ownership` is `Numbering`, `RegisteredIsOpen` and
`OneOwner`, and is preserved together. `NewestFirst` and `NoLeak` are preserved
relative to these. To keep the case analysis short, `StepKinds` groups the actions by what they
do to the registry and to connections (nothing, dial, register, close, remove), and the later theorems split on the kinds.

The refinement. `ConnectionsRefinement` proves `Spec => Abstract!Spec` from that invariant, `NewestFirst` and one addition, `Presented`: what is registered,
copied or being restored was presented by some slave. `Register` maps to the abstract registration (its connection is fresh because nobody else
has it, by `Ownership`), `Remove` to `GiveUp`, `FirstPingFails` to `Discard`; every other step leaves entries, lookups and the set
of given-up connections alone. The mapping counts a connection as given up from the moment its entry leaves the slice, not when it is
closed. The lookup's least index is the newest entry by `NewestFirst`; that a least index exists is the well-foundedness of the naturals.

The other components:

| Module | Theorem | States | Argument |
|---|---|---|---|
| `ConnectionsRefinement` | `ConnectionsImplementsRegistry` | `ImplementsRegistry` | above |
| `SharesProofs` | `SharesTypeOK` | `TypeOK` | with `WritesOwnShares` (a goroutine exports only the machine's own shares) and `Served` (a good mount has its export) |
| `SharesProofs` | `RetriesGoOn` | `RetryIsArmed` | whoever sets a state to fired starts the run, and a run ends only by arming or deleting the state |
| `MachinesProofs` | `MachinesTypeOK` | `TypeOK` | |
| `MachinesProofs` | `MigrationsLoseNoMachine` | `MigrationLosesNoMachine` | counting: of a machine that was kept, more hosts define it than cold migrations are about to undefine it (`Counted`), since each has added a definition before it takes one away; live migrations move one; with `ColdTasks`, `Unborn` and `DisksKept` |
| `MachinesProofs` | `MovesAreWhole` | `MovedBeforeDeleted` | a task that alone has opened the file it copies to (`Holds`) is the only one that copies to it (`Alone`), so nobody else writes an image of a name that is not deleted (`ImagesStay`): from its opening the new file stays, and from the end of the copy it holds what was read (`Copied`); a second copy that opens it ends `sole`; that the name is defined is `MigrationsLoseNoMachine` |
| `BackupsProofs` | `BackupRowsAreRestorable` | `RowsAreRestorable` | a row is inserted by the task whose copy is complete (`CopyComesFirst`), every directory has one task and at most one row (`OwnDirectory`), and who removes a directory has removed its row (`RowGoesFirst`) |
| `BackupsProofs` | `BackupsTypeOK` | `TypeOK` | `TypeInv` adds what the loop's lists hold and which variables are in use in which phase; the slot has one holder because a task enters the copy only when none is in it |
| `BackupsProofs` | `PruningSparesTheNewest` | `PruneSparesTheNewest` | the row that is being deleted has as many newer ones in the list as are retained (`PruneInv`): the list is descending (`OrderTheorems`), the loop begins behind the first so many, and the list is not changed while the loop works on it |
| `BackupsProofs` | `FreezersThaw` | `OwnThaw` | a frozen guest runs, and on a machine none of whose tasks is stale the holder of its disk is who froze it (`FreezeInv`); a task is stale if the machine was switched on after it was asked for |
| `SpaProofs` | `SpaTypeOK` | `TypeOK` | with lemmas on inserting into and removing from a chain |
| `SpaProofs` | `ReapplyKeepsMembers` | `MembersSurviveReapply` | only goroutines that disable a port reach the step that destroys its set (`OnlyDisablingDestroys`) |
| `CoresProofs` | `ListRoundTrip` | `expandCPUList(formatCPUSet(S)) = S` for finite sets `S` | every element is between the ends of a maximal range |
| `CoresProofs` | `IsolationLeavesHalf` | `HalfStaysFree` | the lists come from valid selections (`IsolationInv`); a core has one place among its socket's cores, so the cores taken map one to one into the selection |
| `CoresProofs` | `IsolationIsReadBack` | `IsolationReadsBack` | the same, and `ListRoundTrip` |
| `CoresProofs` | `CoresTypeOK` | `TypeOK` | `PinningInv`, with `IsolationInv` |
| `CoresProofs` | `TopologyFits` | `GuestTopologyFits` | `PinningInv` |
| `CoresProofs` | `PinningIsReadBack` | `PinningReadsBack` | `PinningInv`; the first pin is on the first selected core, a thread of QEMU's on the last (`PinnedRange`), and each CPU has one core and the core one place (`CorePlace`) |
| `CoresProofs` | `NoSharedCores` | `CoresAreNotShared` | `PinningInv`; the pins go through the cores in order, one or two to each (`BuiltPins`), and other places are other cores (`OtherCore`) |

`PinningInv` of `Cores`: every definition that is written, or that a handler is about to write, is either not pinned at all or pinned by one valid
configuration (`PinnedBy`): its emulator list is the one made from it, its pins are a non-empty beginning of the list made from it,
and it has two threads or more per core only if hyperthreads were asked for, unless a client's `<cpu>` block has come since; what pinning, unpinning or an edit is
about to hand to libvirt multiplies to its vCPUs (`Fits`), or is a plan that libvirt refuses (`Refused`, `RefusedDef`), which therefore never becomes the machine's
definition. Each handler makes such a definition from such a definition whatever has happened to the machine's own in between, so lost updates do no harm. The
list of pins flattens a sequence of lists; that it is what one expects (`FlattenOnes`, `FlattenPairs`) needs no induction
over the lists, as these have all one element or all two; that it is too long when one of them has more (`FlattenLonger`) is shown of
the least prefix for which it would fail.

Assumptions. `Machines`: hosts and slots are finite, and the values that stand for no definition and no task are neither. `Backups`: schedules are finitely many numbers, the ids of their rows; bounds are naturals and there is
a day. `Spa`: there are ports, finitely many, and the list of flows is a finite sequence. `Shares`: every share has
a source slave, and the kinds of goroutines are distinct. `Cores`: CPU numbers are naturals, finitely many; a CPU is in its own
sibling list, and siblings agree on their list and their socket, as the kernel's `topology` directory has it; selections and ranges hold
integers; the topologies clients send are positive numbers of sockets, cores and threads, or none. A core may have any number of threads. Every run evaluates
them. With them the theorems about `Cores` hold on every such host, not only on the four TLC has.

Every invariant and action property that a passing run checks is a theorem. Only model-checked are the liveness properties
(`DeadSlaveForgotten`, `ConfiguredPortsAreRepaired`, `GuestsAreThawed`, `SharesAreServed`, `WatchedIsMounted`), which are out of the prover's
reach, and the five violations.

## Not modelled

* *VM disks.* Create, grow, attach, detach and delete race on a row, a file named by the row and a domain's XML. `VMDiskService.Delete` does not look again at
  the attachment it read, and a failed attach clears whatever reservation the row has by then, so the invariants one would
  state (one machine per disk, an attached disk has its file) hold only of disks nobody else works on; the code promises no more.
* *Usage checks of shares, `HostNormalMount`, downloads of ISOs.* The checks are calls one after the other before a removal, which nothing makes hold at the removal.
* *The rest of a slave's start-up* (`AutoMountRaid`, containers, the delayed start of machines) calls components without a model, once each.
* *The rows of `vm_live` and `auto_start`, the autostart loop, imports, exports, edits of resources other than vCPUs.* They would multiply the states of `Machines`
  without touching its properties: the loop only starts machines, which a request may do at any time.
* *SQLite backup, WebSocket broker, disk reallocation.* One goroutine, or one mutex around each decision.
* *Domain features, templates, Btrfs, PCI, SMART, Docker, Kubernetes, WireGuard, host information, stream analytics, the HTTP API, the proxy's administration.* Sequential wrappers of commands, parsers
  and forwarders with no state of their own; more than half of the code is of this kind or generated.

------------------------------- MODULE Cores -------------------------------
(***************************************************************************)
(* Which cores of a host machines and kernel use: CPU pinning              *)
(* (slave/virsh/cpu_pinning.go, and the handlers that rewrite what pinning *)
(* has written: EditVm of common.go, UpdateVMCPUXml of custom_cpu.go and   *)
(* UpdateVMXml of vm_xml.go) and host core isolation (core_isolation.go).  *)
(*                                                                         *)
(* A handler of an RPC reads the definition of a machine, rewrites it and  *)
(* defines the machine anew, with nothing that stops another handler from  *)
(* doing the same in between; likewise the kernel arguments are cleared    *)
(* and set by two commands.  The slave, or the host, may restart at any    *)
(* moment.                                                                 *)
(*                                                                         *)
(* One machine stands for all: no handler looks at two.  A request that is *)
(* refused (the machine is not shut off, or not found) has no effect and   *)
(* is left out.  The three kernel arguments are always cleared together    *)
(* and set together to one list, so they are one variable.  A domain has   *)
(* one die and one cluster to a socket, as libvirt fills them in.          *)
(***************************************************************************)
EXTENDS Integers, SequencesExt

CONSTANTS
    Topologies,   \* hosts: functions from logical CPUs to [socket, siblings]
    Configs,      \* the CPUPinningConfigs asked for
    Selections,   \* the isolation requests: sockets to sets of core indices
    VcpuCounts,   \* the vCPU counts a client may ask for
    Blocks,       \* the topologies of the <cpu> blocks a client may send
    Handlers,     \* the goroutines that serve RPCs
    MaxRequests   \* bound on the requests in a behaviour

(* Siblings agree on their socket and on who the siblings are.             *)
ASSUME TopologyAssumption ==
    \A host \in Topologies :
        /\ DOMAIN host \subseteq Nat /\ IsFiniteSet(DOMAIN host)
        /\ \A c \in DOMAIN host :
            /\ c \in host[c].siblings /\ host[c].siblings \subseteq DOMAIN host
            /\ \A d \in host[c].siblings : host[d] = host[c]
ASSUME ConfigsAssumption ==
    \A config \in Configs :
        config.start \in Int /\ config.end \in Int /\ config.ht \in BOOLEAN
ASSUME SelectionsAssumption ==
    \A sel \in Selections : \A s \in DOMAIN sel : sel[s] \subseteq Int
ASSUME RequestsAssumption == MaxRequests \in Nat
ASSUME VcpusAssumption == VcpuCounts \subseteq Nat \ {0}

(* A <cpu> block is its <topology> element, or no such element.            *)
NoTopology == [sockets |-> 0, cores |-> 0, threads |-> 0]
GuestTopologies ==
    [sockets: Nat \ {0}, cores: Nat \ {0}, threads: Nat \ {0}]
        \cup {NoTopology}
ASSUME BlocksAssumption == Blocks \subseteq GuestTopologies

VARIABLES
    cpus,         \* the host's topology, as sysfs shows it
    def,          \* the definition of the machine
    configured,   \* the CPU list in the boot configuration, {} if none
    active,       \* the CPU list the kernel was booted with
    selected,     \* the selection behind the configured list (a ghost)
    task,         \* what each handler is about to do
    requests      \* how many requests were accepted

vars == <<cpus, def, configured, active, selected, task, requests>>

-----------------------------------------------------------------------------
(* CPU lists: "0-3,8" is the set of ranges {<<0, 3>>, <<8, 8>>}.           *)

formatCPUSet(S) ==
    {r \in S \X S : /\ r[1] .. r[2] \subseteq S /\ r[1] <= r[2]
                    /\ r[1] - 1 \notin S /\ r[2] + 1 \notin S}

expandCPUList(list) == UNION {r[1] .. r[2] : r \in list}

-----------------------------------------------------------------------------
(* The topology.                                                           *)

SocketIDs(host) == {host[c].socket : c \in DOMAIN host}

Sockets == SocketIDs(cpus)

(* The groups of siblings of a socket, by their lowest CPU; the core with  *)
(* CoreIndex i is the element i + 1.                                       *)
PhysicalCores(host, s) ==
    LET cores == {host[c].siblings : c \in {d \in DOMAIN host :
                                                host[d].socket = s}}
    IN  [i \in 1..Cardinality(cores) |->
            CHOOSE core \in cores :
                Cardinality({b \in cores : Min(b) < Min(core)}) = i - 1]

(* (A table, so that TLC computes the cores of each host once.)            *)
CoresOf ==
    [host \in Topologies |->
        [s \in SocketIDs(host) |-> PhysicalCores(host, s)]]

GetPhysicalCores(s) == CoresOf[cpus][s]

CoreIndex(c) ==
    (CHOOSE i \in DOMAIN GetPhysicalCores(cpus[c].socket) :
        c \in GetPhysicalCores(cpus[c].socket)[i]) - 1

-----------------------------------------------------------------------------
(* CPU pinning.                                                            *)

ValidateCPUPinningConfig(config) ==
    /\ 0 <= config.start /\ config.start <= config.end
    /\ config.socket \in Sockets
    /\ config.end < Len(GetPhysicalCores(config.socket))
    /\ config.ht =>
        \A i \in config.start .. config.end :
            Cardinality(GetPhysicalCores(config.socket)[i + 1]) >= 2

SelectedCores(config) ==
    SubSeq(GetPhysicalCores(config.socket), config.start + 1, config.end + 1)

emulatorReservedPhysicalCoreCount(n) == IF n < 4 THEN 0 ELSE 1

GuestCores(config) ==
    LET n == Len(SelectedCores(config))
    IN  SubSeq(SelectedCores(config), 1,
               n - emulatorReservedPhysicalCoreCount(n))

(* Bug: the core before the reserved one.                                  *)
EmulatorOnLastGuestCore(config) ==
    LET n == Len(SelectedCores(config))
    IN  SubSeq(SelectedCores(config),
               n - emulatorReservedPhysicalCoreCount(n),
               n - emulatorReservedPhysicalCoreCount(n))

EmulatorCores(config) ==
    SubSeq(SelectedCores(config), Len(GuestCores(config)) + 1,
           Len(SelectedCores(config)))

InOrder(S) ==
    CHOOSE s \in [1..Cardinality(S) -> S] :
        \A i, j \in 1..Cardinality(S) : i < j => s[i] < s[j]

(* The CPUs of a core that a machine uses.                                 *)
Used(core, ht) == IF ht THEN InOrder(core) ELSE <<Min(core)>>

buildPinsFromPhysicalCores(cores, ht) ==
    FlattenSeq([i \in DOMAIN cores |-> Used(cores[i], ht)])

(* Small selections reserve no core; the emulator then shares the guest's. *)
EmulatorCPUs(config) ==
    LET on(cores) == Range(buildPinsFromPhysicalCores(cores, config.ht))
    IN  IF EmulatorCores(config) # <<>> THEN on(EmulatorCores(config))
        ELSE on(GuestCores(config))

Topology(cores, threads) ==
    [sockets |-> 1, cores |-> cores, threads |-> threads]

(* libvirt refuses a definition whose topology does not multiply to the    *)
(* vCPU count; without a topology each vCPU is a socket.                   *)
Fits(d) ==
    \/ d.topology = NoTopology
    \/ d.vcpus = d.topology.sockets * d.topology.cores * d.topology.threads

(* ApplyCPUPinning writes vCPU count, topology and pins and keeps nothing  *)
(* of the old ones.  "asked" and "since" are ghosts: the configuration the *)
(* pins come from, and the handlers that have rewritten the XML since.     *)
Pinned(config) ==
    LET pins == buildPinsFromPhysicalCores(GuestCores(config), config.ht)
    IN  [vcpus |-> Len(pins),
         topology |-> Topology(Len(GuestCores(config)),
                               IF config.ht THEN 2 ELSE 1),
         pins |-> pins, emulator |-> formatCPUSet(EmulatorCPUs(config)),
         asked |-> <<config>>, since |-> {}]

(* A machine that is not pinned.                                           *)
Machine(n, topology) ==
    [vcpus |-> n, topology |-> topology, pins |-> <<>>, emulator |-> {},
     asked |-> <<>>, since |-> {}]

(* Bug: the topology keeps its number of cores.                            *)
UnpinnedThreadsOnly(d) == Machine(d.vcpus, Topology(d.topology.cores, 1))

(* RemoveCPUPinning keeps the vCPU count; each vCPU is a core of its own.  *)
Unpinned(d) == Machine(d.vcpus, Topology(d.vcpus, 1))

(* updateTopologyAttrs: sockets and threads stay if they divide the count. *)
EditedTopology(t, n) ==
    IF t # NoTopology /\ n % (t.sockets * t.threads) = 0
    THEN [t EXCEPT !.cores = n \div (t.sockets * t.threads)]
    ELSE Topology(n, 1)

Rewritten(d, handler) ==
    IF d.pins = <<>> THEN d ELSE [d EXCEPT !.since = @ \cup {handler}]

(* Bug: the pins of vCPUs that are gone stay.                              *)
EditedKeepsPins(d, n) ==
    [Rewritten(d, "EditVm") EXCEPT
        !.vcpus = n, !.topology = EditedTopology(@, n)]

(* EditVm does not touch the cputune block, and libvirt ignores the pins   *)
(* of vCPUs that do not exist.                                             *)
Edited(d, n) ==
    [Rewritten(d, "EditVm") EXCEPT
        !.vcpus = n, !.topology = EditedTopology(@, n),
        !.pins = SubSeq(@, 1, Min({n, Len(@)}))]

(* Bug: the range is that of the vCPU pins alone.                          *)
GetCPUPinningOfGuest(d) ==
    LET indices == {CoreIndex(c) : c \in Range(d.pins)}
    IN  [start |-> Min(indices), end |-> Max(indices),
         ht |-> d.topology.threads >= 2, socket |-> cpus[Max(Range(d.pins))].socket]

(* The configuration inferred from a pinned machine's definition.          *)
GetCPUPinning(d) ==
    LET all == Range(d.pins) \cup expandCPUList(d.emulator)
        indices == {CoreIndex(c) : c \in all}
    IN  [start |-> Min(indices), end |-> Max(indices),
         ht |-> d.topology.threads >= 2, socket |-> cpus[Max(all)].socket]

-----------------------------------------------------------------------------
(* Core isolation.                                                         *)

(* Bug: half of an odd number of cores is rounded up.                      *)
RoundedUp(s) == (Len(GetPhysicalCores(s)) + 1) \div 2

MaxIsolatableCores(s) == Len(GetPhysicalCores(s)) \div 2

(* What buildValidatedHostIsolationCPUSet accepts.                         *)
ValidSelection(sel) ==
    /\ DOMAIN sel # {} /\ DOMAIN sel \subseteq Sockets
    /\ \A s \in DOMAIN sel :
        /\ sel[s] # {} /\ Cardinality(sel[s]) <= MaxIsolatableCores(s)
        /\ \A i \in sel[s] : i >= 0 /\ i < Len(GetPhysicalCores(s))

(* Bug: only the lowest CPU of each core.                                  *)
LowestCPUs(sel) ==
    UNION {{Min(GetPhysicalCores(s)[i + 1]) : i \in sel[s]} : s \in DOMAIN sel}

(* Whole cores: all siblings of each selected core.                        *)
SelectedCPUs(sel) ==
    UNION {UNION {GetPhysicalCores(s)[i + 1] : i \in sel[s]} :
                s \in DOMAIN sel}

(* The IsolatedCoreIndices that GetHostCoreIsolation reports for a socket. *)
IsolatedCoreIndices(list, s) ==
    {i \in 0 .. Len(GetPhysicalCores(s)) - 1 :
        GetPhysicalCores(s)[i + 1] \subseteq expandCPUList(list)}

-----------------------------------------------------------------------------
(* The handlers.                                                           *)

Idle == [step |-> "idle"]

Accept(h, next) ==
    /\ task[h] = Idle
    /\ requests < MaxRequests
    /\ requests' = requests + 1
    /\ task' = [task EXCEPT ![h] = next]

Done(h) == task' = [task EXCEPT ![h] = Idle]

UnchangedHost == UNCHANGED <<cpus, configured, active, selected>>

(* The pin plan is made, and the XML read, that will be defined.           *)
ApplyCPUPinning(h) ==
    /\ \E config \in Configs :
        /\ ValidateCPUPinningConfig(config)
        /\ Accept(h, [step |-> "define", xml |-> Pinned(config)])
    /\ UNCHANGED def /\ UnchangedHost

RemoveCPUPinning(h) ==
    /\ def.pins # <<>>
    /\ Accept(h, [step |-> "define", xml |-> Unpinned(def)])
    /\ UNCHANGED def /\ UnchangedHost

(* The master asks the slave for the machine before it sends the edit, and *)
(* an edit that leaves the vCPUs alone sends the count it was told.        *)
EditVM(h) ==
    /\ \E n \in VcpuCounts \cup {def.vcpus} :
        Accept(h, [step |-> "edit", vcpus |-> n])
    /\ UNCHANGED def /\ UnchangedHost

EditVm(h) ==
    /\ task[h].step = "edit"
    /\ task' = [task EXCEPT ![h] = [step |-> "define",
                                    xml |-> Edited(def, @.vcpus)]]
    /\ UNCHANGED <<def, requests>> /\ UnchangedHost

(* UpdateVMCPUXml reads the XML, and then its <cpu> block a second time; a *)
(* block that changed in between is not found, and nothing is replaced.    *)
UpdateVMCPUXml(h) ==
    /\ \E block \in Blocks :
        Accept(h, [step |-> "replace", xml |-> def, block |-> block])
    /\ UNCHANGED def /\ UnchangedHost

GetVmCPUXML(h) ==
    /\ task[h].step = "replace"
    /\ LET xml == task[h].xml
           new == [Rewritten(xml, "UpdateVMCPUXml") EXCEPT
                        !.topology = task[h].block]
       IN  task' = [task EXCEPT ![h] =
                [step |-> "redefine",
                 xml |-> IF def.topology = xml.topology THEN new ELSE xml]]
    /\ UNCHANGED <<def, requests>> /\ UnchangedHost

Composed == {Machine(n, t) : n \in VcpuCounts, t \in Blocks}

(* A definition the client has composed, or one read and sent back with    *)
(* other parts changed (as by hyperv.go, kvm_hidden.go, machine_type.go).  *)
UpdateVMXml(h) ==
    /\ \E xml \in Composed \cup {def} :
        Accept(h, [step |-> "redefine", xml |-> xml])
    /\ UNCHANGED def /\ UnchangedHost

DomainDefineXML(h) ==
    /\ task[h].step \in {"define", "redefine"}
    /\ Fits(task[h].xml)
    /\ def' = task[h].xml
    /\ Done(h)
    /\ UNCHANGED requests /\ UnchangedHost

SetHostCoreIsolation(h) ==
    /\ \E sel \in Selections :
        /\ ValidSelection(sel)
        /\ Accept(h, [step |-> "clear", then |-> <<sel>>])
    /\ UNCHANGED def /\ UnchangedHost

RemoveHostCoreIsolation(h) ==
    /\ Accept(h, [step |-> "clear", then |-> <<>>])
    /\ UNCHANGED def /\ UnchangedHost

clearHostCoreIsolationKernelArgs(h) ==
    /\ task[h].step = "clear"
    /\ configured' = {}
    /\ selected' = <<>>
    /\ \/ task[h].then = <<>> /\ Done(h)
       \/ /\ task[h].then # <<>>
          /\ task' = [task EXCEPT ![h] = [step |-> "set",
                                          sel |-> @.then[1]]]
    /\ UNCHANGED <<cpus, def, active, requests>>

SetKernelArgs(h) ==
    /\ task[h].step = "set"
    /\ configured' = formatCPUSet(SelectedCPUs(task[h].sel))
    /\ selected' = <<task[h].sel>>
    /\ Done(h)
    /\ UNCHANGED <<cpus, def, active, requests>>

(* libvirt or grubby report an error, and the handler returns it.          *)
Fails(h) ==
    /\ task[h] # Idle
    /\ Done(h)
    /\ UNCHANGED <<def, requests>> /\ UnchangedHost

(* The host restarts, and the slave with it.                               *)
Reboot ==
    /\ active' = configured
    /\ task' = [h \in Handlers |-> Idle]
    /\ UNCHANGED <<cpus, def, configured, selected, requests>>

-----------------------------------------------------------------------------
(* The machine as CreateVMCustomCPU defines it: the topology is the one in *)
(* the client's <cpu> block, or else a core for each vCPU.                 *)
Fresh(n, block) ==
    Machine(n, IF block = NoTopology THEN Topology(n, 1) ELSE block)

Init ==
    /\ cpus \in Topologies
    /\ def \in {d \in {Fresh(n, t) : n \in VcpuCounts, t \in Blocks} : Fits(d)}
    /\ configured = {} /\ active = {} /\ selected = <<>>
    /\ task = [h \in Handlers |-> Idle]
    /\ requests = 0

Next ==
    \/ \E h \in Handlers :
        \/ ApplyCPUPinning(h) \/ RemoveCPUPinning(h)
        \/ EditVM(h) \/ EditVm(h) \/ UpdateVMCPUXml(h) \/ GetVmCPUXML(h)
        \/ UpdateVMXml(h) \/ DomainDefineXML(h)
        \/ SetHostCoreIsolation(h) \/ RemoveHostCoreIsolation(h)
        \/ clearHostCoreIsolationKernelArgs(h) \/ SetKernelArgs(h)
        \/ Fails(h)
    \/ Reboot

Spec == Init /\ [][Next]_vars

-----------------------------------------------------------------------------
(* Every variable keeps its type, and every definition written or about to *)
(* be written pins only vCPUs that exist, to CPUs of the host.             *)
IsList(list) ==
    /\ \A r \in list : r[1] <= r[2]
    /\ expandCPUList(list) \subseteq DOMAIN cpus

IsDefinition(d) ==
    /\ d.vcpus \in Nat \ {0} /\ d.topology \in GuestTopologies
    /\ Len(d.pins) <= d.vcpus /\ Range(d.pins) \subseteq DOMAIN cpus
    /\ IsList(d.emulator)
    /\ d.pins = <<>> <=> d.asked = <<>>
    /\ d.since \subseteq {"EditVm", "UpdateVMCPUXml"}

TypeOK ==
    /\ cpus \in Topologies
    /\ IsDefinition(def)
    /\ IsList(configured) /\ IsList(active)
    /\ requests \in 0..MaxRequests
    /\ \A h \in Handlers :
        /\ task[h].step \in
                {"idle", "edit", "replace", "define", "redefine", "clear", "set"}
        /\ task[h].step \in {"replace", "define", "redefine"} =>
                IsDefinition(task[h].xml)

(* A pinning plan with hyperthreading has two threads to a core, whatever  *)
(* the host has: ValidateCPUPinningConfig asks for two or more.            *)
TooWide(config) ==
    config.ht /\ \E core \in Range(GuestCores(config)) : Cardinality(core) > 2

(* libvirt refuses no definition of the handlers that compute a topology   *)
(* themselves: pinning, unpinning and an edit, of a machine to which other *)
(* handlers give other counts, sockets and threads, and from counts that   *)
(* may be out of date.  The one exception is a machine to be pinned to all *)
(* threads of a core that has more than two: two are written, against the  *)
(* comment of rewriteCPUPinningPlanInDomainXML ("Update vcpu count to      *)
(* match pins (with HT: cores*2 ...)"), and libvirt always refuses it.     *)
GuestTopologyFits ==
    \A h \in Handlers :
        LET xml == task[h].xml
        IN  task[h].step = "define" =>
                (Fits(xml) <=> ~(xml.asked # <<>> /\ TooWide(xml.asked[1])))

(* What GetCPUPinning infers from the XML is what ApplyCPUPinning was      *)
(* asked for.  Nothing stores the request: range and socket survive edits  *)
(* that drop pins and definitions written back out of date.  HyperThreading*)
(* is read from the guest's topology: an edit of the vCPUs may lose it but *)
(* not invent it, and only a client's own <cpu> block can do that.         *)
PinningReadsBack ==
    def.asked # <<>> =>
        LET got == GetCPUPinning(def)
            asked == def.asked[1]
        IN  /\ <<got.start, got.end, got.socket>> =
                    <<asked.start, asked.end, asked.socket>>
            /\ "UpdateVMCPUXml" \notin def.since => (got.ht => asked.ht)
            /\ def.since = {} => got.ht = asked.ht

(* Two vCPUs are on one physical core only if they are its hyperthreads,   *)
(* 2k and 2k+1, asked for; and QEMU's own threads are on a core of a vCPU  *)
(* only when too few cores were selected to reserve one.                   *)
Core(c) == cpus[c].siblings

CoresAreNotShared ==
    def.asked # <<>> =>
        LET asked == def.asked[1]
            emulator == expandCPUList(def.emulator)
        IN  /\ \A v, w \in DOMAIN def.pins :
                    v < w =>
                        ((Core(def.pins[v]) = Core(def.pins[w])) <=>
                            (asked.ht /\ v % 2 = 1 /\ w = v + 1))
            /\ \A v \in DOMAIN def.pins, e \in emulator :
                    Core(def.pins[v]) = Core(e) =>
                        asked.end - asked.start + 1 < 4

(* Isolation takes whole cores, and never more than half of a socket's, in *)
(* the boot configuration and in the running kernel.                       *)
HalfStaysFree ==
    \A list \in {configured, active} : \A s \in Sockets :
        LET taken == {i \in DOMAIN GetPhysicalCores(s) :
                GetPhysicalCores(s)[i] \cap expandCPUList(list) # {}}
        IN  /\ 2 * Cardinality(taken) <= Len(GetPhysicalCores(s))
            /\ \A i \in taken :
                    GetPhysicalCores(s)[i] \subseteq expandCPUList(list)

(* GetHostCoreIsolation reports the very cores that the last request to    *)
(* reach grubby selected, no core if the arguments were cleared since.     *)
IsolationReadsBack ==
    \A s \in Sockets :
        IsolatedCoreIndices(configured, s) =
            IF selected = <<>> \/ s \notin DOMAIN selected[1] THEN {}
            ELSE selected[1][s]

=============================================================================

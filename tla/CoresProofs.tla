----------------------------- MODULE CoresProofs -----------------------------
(***************************************************************************)
(* Proofs about host core isolation and CPU pinning, for every topology of *)
(* CPUs in which the sibling lists are consistent, whatever the number of  *)
(* threads of a core, and any requests and handlers.                       *)
(***************************************************************************)
EXTENDS Cores, OrderTheorems, SequenceTheorems

-----------------------------------------------------------------------------
(* CPU lists.                                                              *)

(* A finite set of numbers does not go on for ever after one of them.      *)
LEMMA RangeEnds ==
    ASSUME NEW S, S \subseteq Nat, IsFiniteSet(S), NEW c \in Nat
    PROVE  \E k \in Nat : c + k + 1 \notin S
<1> SUFFICES ASSUME \A k \in Nat : c + k + 1 \in S PROVE FALSE
  OBVIOUS
<1>1. Cardinality(S) \in Nat
  BY FS_CardinalityType
<1> DEFINE n == Cardinality(S)
           I == (c + 1)..(c + 1 + n)
<1>2. I \subseteq S
  <2> SUFFICES ASSUME NEW x \in I PROVE x \in S
    OBVIOUS
  <2>1. x - c - 1 \in Nat /\ c + (x - c - 1) + 1 = x
    BY <1>1
  <2>2. QED
    BY <2>1
<1>3. Cardinality(I) = n + 1
  BY <1>1, FS_Interval
<1>4. Cardinality(I) <= n
  BY <1>2, FS_Subset
<1>5. QED
  BY <1>1, <1>3, <1>4

(* What formatCPUSet writes is read back by expandCPUList.                 *)
THEOREM ListRoundTrip ==
    ASSUME NEW S, S \subseteq Nat, IsFiniteSet(S)
    PROVE  expandCPUList(formatCPUSet(S)) = S
<1>1. expandCPUList(formatCPUSet(S)) \subseteq S
  BY DEF expandCPUList, formatCPUSet
<1>2. ASSUME NEW c \in S PROVE c \in expandCPUList(formatCPUSet(S))
  <2> DEFINE Below == {k \in Nat : c - k - 1 \notin S}
             Above == {k \in Nat : c + k + 1 \notin S}
  <2>1. c \in Nat
    OBVIOUS
  <2>2. Below # {} /\ Below \subseteq Nat
    <3>1. c - c - 1 \notin S
      BY <2>1
    <3>2. QED
      BY <2>1, <3>1
  <2>3. Above # {} /\ Above \subseteq Nat
    BY <2>1, RangeEnds
  <2>4. PICK a \in Below : \A y \in Below : a <= y
    BY <2>2, Least
  <2>5. PICK b \in Above : \A y \in Above : b <= y
    BY <2>3, Least
  <2>6. a \in Nat /\ b \in Nat /\ (c - a) - 1 \notin S /\ (c + b) + 1 \notin S
    BY <2>4, <2>5
  <2>7. \A k \in Nat : k < a => c - k - 1 \in S
    BY <2>4
  <2>8. \A k \in Nat : k < b => c + k + 1 \in S
    <3> SUFFICES ASSUME NEW k \in Nat, k < b, c + k + 1 \notin S PROVE FALSE
      OBVIOUS
    <3>1. k \in Above
      OBVIOUS
    <3>2. b <= k
      BY <2>5, <3>1
    <3>3. QED
      BY <2>6, <3>2
  <2> HIDE DEF Below, Above
  <2>9. (c - a)..(c + b) \subseteq S
    <3> SUFFICES ASSUME NEW x \in (c - a)..(c + b) PROVE x \in S
      OBVIOUS
    <3>1. CASE x < c
      <4>1. c - x - 1 \in Nat /\ c - x - 1 < a /\ c - (c - x - 1) - 1 = x
        BY <2>1, <2>6, <3>1
      <4>2. QED
        BY <2>7, <4>1
    <3>2. CASE x > c
      <4>1. x - c - 1 \in Nat /\ x - c - 1 < b /\ c + (x - c - 1) + 1 = x
        BY <2>1, <2>6, <3>2
      <4>2. QED
        BY <2>8, <4>1
    <3>3. CASE x = c
      BY <3>3
    <3>4. QED
      BY <2>1, <2>6, <3>1, <3>2, <3>3
  <2>10. c - a \in S /\ c + b \in S /\ c - a <= c + b /\ c \in (c - a)..(c + b)
    BY <2>1, <2>6, <2>9
  <2> DEFINE r == <<c - a, c + b>>
  <2>11. r \in formatCPUSet(S)
    BY <2>6, <2>9, <2>10 DEF formatCPUSet
  <2>12. c \in r[1]..r[2]
    BY <2>10
  <2> HIDE DEF r
  <2>13. QED
    BY <2>11, <2>12 DEF expandCPUList
<1>3. QED
  BY <1>1, <1>2

-----------------------------------------------------------------------------
(* The cores of a socket.                                                  *)

CoresIn(host, s) ==
    {host[c].siblings : c \in {d \in DOMAIN host : host[d].socket = s}}

LEMMA CoreTypes ==
    ASSUME NEW host \in Topologies, NEW s
    PROVE  /\ IsFiniteSet(CoresIn(host, s))
           /\ \A core \in CoresIn(host, s) :
                /\ core # {} /\ core \subseteq DOMAIN host
                /\ \A c \in core : host[c].siblings = core /\ host[c].socket = s
<1>1. \A core \in CoresIn(host, s) :
        /\ core # {} /\ core \subseteq DOMAIN host
        /\ \A c \in core : host[c].siblings = core /\ host[c].socket = s
  BY TopologyAssumption DEF CoresIn
<1>2. IsFiniteSet(SUBSET (DOMAIN host))
  BY TopologyAssumption, FS_SUBSET
<1>3. CoresIn(host, s) \subseteq SUBSET (DOMAIN host)
  BY <1>1
<1>4. QED
  BY <1>1, <1>2, <1>3, FS_Subset

(* Each core of the socket has one place in the list.                      *)
LEMMA CoreList ==
    ASSUME NEW host \in Topologies, NEW s
    PROVE  /\ Cardinality(CoresIn(host, s)) \in Nat
           /\ PhysicalCores(host, s) \in
                [1..Cardinality(CoresIn(host, s)) -> CoresIn(host, s)]
           /\ \A i, j \in 1..Cardinality(CoresIn(host, s)) :
                PhysicalCores(host, s)[i] = PhysicalCores(host, s)[j] => i = j
<1> DEFINE C == CoresIn(host, s)
           n == Cardinality(C)
           Lower(core) == {b \in C : Min(b) < Min(core)}
           rank == [core \in C |-> Cardinality(Lower(core))]
<1>1. IsFiniteSet(C) /\ n \in Nat
  BY CoreTypes, FS_CardinalityType
<1>2. \A core \in C : Min(core) \in core /\ Min(core) \in Nat
  <2> SUFFICES ASSUME NEW core \in C PROVE Min(core) \in core /\ Min(core) \in Nat
    OBVIOUS
  <2>1. core \subseteq Nat /\ core # {}
    BY CoreTypes, TopologyAssumption
  <2>2. \E x \in core : \A y \in core : x <= y
    BY <2>1, Least
  <2>3. QED
    BY <2>1, <2>2 DEF Min
<1>3. \A a, b \in C : Min(a) = Min(b) => a = b
  BY <1>2, CoreTypes
<1> HIDE DEF C
<1>4. \A core \in C : IsFiniteSet(Lower(core)) /\ Cardinality(Lower(core)) \in 0..(n - 1)
  <2> SUFFICES ASSUME NEW core \in C
               PROVE  /\ IsFiniteSet(Lower(core))
                      /\ Cardinality(Lower(core)) \in 0..(n - 1)
    OBVIOUS
  <2>1. Lower(core) \subseteq C \ {core}
    BY <1>2
  <2>2. IsFiniteSet(C \ {core}) /\ Cardinality(C \ {core}) = n - 1
    BY <1>1, FS_RemoveElement
  <2> HIDE DEF Lower, n
  <2>3. /\ IsFiniteSet(Lower(core)) /\ Cardinality(Lower(core)) <= n - 1
        /\ Cardinality(Lower(core)) \in Nat
    BY <2>1, <2>2, FS_Subset, FS_CardinalityType
  <2>4. QED
    BY <1>1, <2>3
<1>5. \A a, b \in C : Min(a) < Min(b) => Cardinality(Lower(a)) < Cardinality(Lower(b))
  <2> SUFFICES ASSUME NEW a \in C, NEW b \in C, Min(a) < Min(b)
               PROVE  Cardinality(Lower(a)) < Cardinality(Lower(b))
    OBVIOUS
  <2>1. Lower(a) \subseteq Lower(b) \ {a} /\ a \in Lower(b)
    BY <1>2
  <2> HIDE DEF Lower, n
  <2>2. /\ IsFiniteSet(Lower(b) \ {a})
        /\ Cardinality(Lower(b) \ {a}) = Cardinality(Lower(b)) - 1
    BY <1>4, <2>1, FS_RemoveElement
  <2>3. Cardinality(Lower(a)) <= Cardinality(Lower(b)) - 1
    BY <2>1, <2>2, FS_Subset
  <2>4. QED
    BY <1>1, <1>4, <2>3
<1> HIDE DEF Lower, n
<1>6. rank \in Injection(C, 0..(n - 1))
  <2>1. rank \in [C -> 0..(n - 1)]
    BY <1>4
  <2>2. ASSUME NEW a \in C, NEW b \in C, rank[a] = rank[b] PROVE a = b
    <3>1. Cardinality(Lower(a)) = Cardinality(Lower(b))
      BY <2>2
    <3>2. ~(Min(a) < Min(b)) /\ ~(Min(b) < Min(a))
      BY <1>1, <1>4, <1>5, <3>1
    <3>3. QED
      BY <1>2, <1>3, <3>2
  <2>3. QED
    BY <2>1, <2>2 DEF Injection, IsInjective
<1>7. rank \in Surjection(C, 0..(n - 1))
  <2>1. IsFiniteSet(0..(n - 1)) /\ Cardinality(0..(n - 1)) = n
    BY <1>1, FS_Interval
  <2> HIDE DEF rank
  <2>2. Cardinality(C) = Cardinality(0..(n - 1)) <=> rank \in Surjection(C, 0..(n - 1))
    BY <1>6, <2>1, FS_Injection
  <2>3. QED
    BY <2>1, <2>2 DEF n
<1>8. \A i \in 1..n : \E core \in C : Cardinality(Lower(core)) = i - 1
  <2> SUFFICES ASSUME NEW i \in 1..n
               PROVE  \E core \in C : Cardinality(Lower(core)) = i - 1
    OBVIOUS
  <2>1. i - 1 \in 0..(n - 1)
    BY <1>1
  <2>2. PICK core \in C : rank[core] = i - 1
    BY <1>7, <2>1 DEF Surjection
  <2>3. QED
    BY <2>2
<1>9. PhysicalCores(host, s) =
        [i \in 1..n |-> CHOOSE core \in C : Cardinality(Lower(core)) = i - 1]
  BY DEF PhysicalCores, C, CoresIn, n, Lower
<1>10. \A i \in 1..n : /\ PhysicalCores(host, s)[i] \in C
                       /\ Cardinality(Lower(PhysicalCores(host, s)[i])) = i - 1
  BY <1>8, <1>9
<1>11. PhysicalCores(host, s) \in [1..n -> C]
  BY <1>9, <1>10
<1>12. \A i, j \in 1..n : PhysicalCores(host, s)[i] = PhysicalCores(host, s)[j] => i = j
  BY <1>1, <1>10
<1>13. QED
  BY <1>1, <1>11, <1>12 DEF C, n

LEMMA SocketCores ==
    ASSUME cpus \in Topologies, NEW s \in Sockets
    PROVE  /\ Len(GetPhysicalCores(s)) \in Nat
           /\ \A i \in 1..Len(GetPhysicalCores(s)) :
                GetPhysicalCores(s)[i] \in CoresIn(cpus, s)
           /\ \A i, j \in 1..Len(GetPhysicalCores(s)) :
                GetPhysicalCores(s)[i] = GetPhysicalCores(s)[j] => i = j
           /\ DOMAIN GetPhysicalCores(s) = 1..Len(GetPhysicalCores(s))
<1> DEFINE f == PhysicalCores(cpus, s)
           n == Cardinality(CoresIn(cpus, s))
<1>1. GetPhysicalCores(s) = f
  BY DEF GetPhysicalCores, CoresOf, Sockets
<1>2. /\ n \in Nat /\ f \in [1..n -> CoresIn(cpus, s)]
      /\ \A i, j \in 1..n : f[i] = f[j] => i = j
  BY CoreList
<1> HIDE DEF f, n
<1>3. f \in Seq(CoresIn(cpus, s)) /\ Len(f) = n /\ DOMAIN f = 1..n
  BY <1>2
<1>4. QED
  BY <1>1, <1>2, <1>3

-----------------------------------------------------------------------------
(* What a valid selection takes.                                           *)

(* The selected CPUs are some of the host's.                               *)
LEMMA SelectedTypes ==
    ASSUME cpus \in Topologies, NEW sel \in Selections, ValidSelection(sel)
    PROVE  /\ SelectedCPUs(sel) \subseteq DOMAIN cpus
           /\ SelectedCPUs(sel) \subseteq Nat
           /\ IsFiniteSet(SelectedCPUs(sel))
<1>1. ASSUME NEW s \in DOMAIN sel, NEW i \in sel[s]
      PROVE  GetPhysicalCores(s)[i + 1] \subseteq DOMAIN cpus
  <2>1. s \in Sockets /\ i \in Int /\ i >= 0 /\ i < Len(GetPhysicalCores(s))
    BY SelectionsAssumption DEF ValidSelection
  <2>2. i + 1 \in 1..Len(GetPhysicalCores(s))
    BY <2>1, SocketCores
  <2>3. QED
    BY <2>1, <2>2, SocketCores, CoreTypes
<1>2. SelectedCPUs(sel) \subseteq DOMAIN cpus
  BY <1>1 DEF SelectedCPUs
<1>3. QED
  BY <1>2, TopologyAssumption, FS_Subset

(* A core is in the list that is written for a selection, and in it as a   *)
(* whole, if and only if its index is selected.                            *)
LEMMA TakenCores ==
    ASSUME cpus \in Topologies, NEW sel \in Selections, ValidSelection(sel),
           NEW s \in Sockets, NEW i \in 1..Len(GetPhysicalCores(s))
    PROVE  LET core == GetPhysicalCores(s)[i]
               list == expandCPUList(formatCPUSet(SelectedCPUs(sel)))
           IN  /\ core \cap list # {} => s \in DOMAIN sel /\ i - 1 \in sel[s]
               /\ s \in DOMAIN sel /\ i - 1 \in sel[s] => core \subseteq list
               /\ core # {}
<1> DEFINE core == GetPhysicalCores(s)[i]
<1>0. /\ core \in CoresIn(cpus, s) /\ core # {}
      /\ expandCPUList(formatCPUSet(SelectedCPUs(sel))) = SelectedCPUs(sel)
  BY SocketCores, CoreTypes, SelectedTypes, ListRoundTrip
<1> HIDE DEF core
<1>1. ASSUME core \cap SelectedCPUs(sel) # {}
      PROVE  s \in DOMAIN sel /\ i - 1 \in sel[s]
  <2>1. PICK t \in DOMAIN sel : \E k \in sel[t] :
            core \cap GetPhysicalCores(t)[k + 1] # {}
    BY <1>1 DEF SelectedCPUs
  <2>2. PICK k \in sel[t] : core \cap GetPhysicalCores(t)[k + 1] # {}
    BY <2>1
  <2>3. t \in Sockets /\ k \in Int /\ k + 1 \in 1..Len(GetPhysicalCores(t))
    <3>1. t \in Sockets /\ k \in Int /\ k >= 0 /\ k < Len(GetPhysicalCores(t))
      BY SelectionsAssumption DEF ValidSelection
    <3>2. QED
      BY <3>1, SocketCores
  <2>4. GetPhysicalCores(t)[k + 1] \in CoresIn(cpus, t)
    BY <2>3, SocketCores
  <2>5. PICK c : c \in core /\ c \in GetPhysicalCores(t)[k + 1]
    BY <2>2
  <2>6. core = GetPhysicalCores(t)[k + 1] /\ s = t
    BY <1>0, <2>4, <2>5, CoreTypes
  <2>7. i = k + 1
    BY <2>3, <2>6, SocketCores DEF core
  <2>8. QED
    BY <2>3, <2>6, <2>7
<1>2. ASSUME s \in DOMAIN sel, i - 1 \in sel[s] PROVE core \subseteq SelectedCPUs(sel)
  <2>1. core = GetPhysicalCores(s)[(i - 1) + 1]
    BY SocketCores DEF core
  <2>2. QED
    BY <1>2, <2>1 DEF SelectedCPUs
<1>3. QED
  BY <1>0, <1>1, <1>2 DEF core

-----------------------------------------------------------------------------
(* A list that leaves half of every socket, in whole cores.                *)
HalfFree(list) ==
    \A s \in Sockets :
        LET taken == {i \in DOMAIN GetPhysicalCores(s) :
                GetPhysicalCores(s)[i] \cap expandCPUList(list) # {}}
        IN  /\ 2 * Cardinality(taken) <= Len(GetPhysicalCores(s))
            /\ \A i \in taken :
                    GetPhysicalCores(s)[i] \subseteq expandCPUList(list)

LEMMA NoneTaken ==
    ASSUME cpus \in Topologies
    PROVE  HalfFree({})
<1> SUFFICES ASSUME NEW s \in Sockets
             PROVE  /\ 2 * Cardinality({}) <= Len(GetPhysicalCores(s))
                    /\ {i \in DOMAIN GetPhysicalCores(s) :
                          GetPhysicalCores(s)[i] \cap expandCPUList({}) # {}} = {}
  BY DEF HalfFree
<1>1. expandCPUList({}) = {}
  BY DEF expandCPUList
<1>2. QED
  BY <1>1, SocketCores, FS_EmptySet

LEMMA SelectedHalfFree ==
    ASSUME cpus \in Topologies, NEW sel \in Selections, ValidSelection(sel)
    PROVE  HalfFree(formatCPUSet(SelectedCPUs(sel)))
<1> DEFINE list == expandCPUList(formatCPUSet(SelectedCPUs(sel)))
<1> SUFFICES ASSUME NEW s \in Sockets
             PROVE  LET taken == {i \in DOMAIN GetPhysicalCores(s) :
                                    GetPhysicalCores(s)[i] \cap list # {}}
                    IN  /\ 2 * Cardinality(taken) <= Len(GetPhysicalCores(s))
                        /\ \A i \in taken : GetPhysicalCores(s)[i] \subseteq list
  BY DEF HalfFree
<1> DEFINE n == Len(GetPhysicalCores(s))
           taken == {i \in DOMAIN GetPhysicalCores(s) :
                        GetPhysicalCores(s)[i] \cap list # {}}
<1>0. n \in Nat /\ DOMAIN GetPhysicalCores(s) = 1..n
  BY SocketCores
<1>1. \A i \in taken : /\ i \in 1..n /\ s \in DOMAIN sel /\ i - 1 \in sel[s]
                       /\ GetPhysicalCores(s)[i] \subseteq list
  BY <1>0, TakenCores
<1> HIDE DEF taken, list, n
<1>2. CASE taken = {}
  BY <1>0, <1>2, FS_EmptySet DEF list, taken, n
<1>3. CASE taken # {}
  <2>1. s \in DOMAIN sel
    BY <1>1, <1>3
  <2>2. /\ sel[s] \subseteq 0..(n - 1) /\ Cardinality(sel[s]) <= n \div 2
    <3>1. sel[s] \subseteq Int
      BY <2>1, SelectionsAssumption
    <3>2. QED
      BY <1>0, <2>1, <3>1 DEF ValidSelection, MaxIsolatableCores, n
  <2>3. IsFiniteSet(sel[s]) /\ Cardinality(sel[s]) \in Nat
    <3>1. IsFiniteSet(0..(n - 1))
      BY <1>0, FS_Interval
    <3>2. QED
      BY <2>2, <3>1, FS_Subset, FS_CardinalityType
  <2> DEFINE f == [i \in taken |-> i - 1]
  <2>4. f \in Injection(taken, sel[s])
    BY <1>0, <1>1 DEF Injection, IsInjective
  <2> HIDE DEF f
  <2>5. Cardinality(taken) <= Cardinality(sel[s]) /\ Cardinality(taken) \in Nat
    BY <2>3, <2>4, FS_Injection, FS_CardinalityType
  <2>6. ASSUME NEW c \in Nat, NEW d \in Nat, c <= d, d <= n \div 2
        PROVE  2 * c <= n
    BY <1>0, <2>6
  <2>7. 2 * Cardinality(taken) <= n
    BY <2>2, <2>3, <2>5, <2>6
  <2>8. QED
    BY <1>1, <2>7 DEF list, taken, n
<1>4. QED
  BY <1>2, <1>3

-----------------------------------------------------------------------------
(* The invariant: what is configured, booted or about to be set comes from *)
(* valid selections.                                                       *)

Valid(sel) == sel \in Selections /\ ValidSelection(sel)
ListOf(sel) == formatCPUSet(SelectedCPUs(sel))

IsolationInv ==
    /\ cpus \in Topologies
    /\ task = [h \in Handlers |-> task[h]]
    /\ \A h \in Handlers :
        /\ task[h].step = "clear" /\ task[h].then # <<>> => Valid(task[h].then[1])
        /\ task[h].step = "set" => Valid(task[h].sel)
    /\ \/ selected = <<>> /\ configured = {}
       \/ \E sel \in Selections : /\ Valid(sel) /\ selected = <<sel>>
                                  /\ configured = ListOf(sel)
    /\ active = {} \/ \E sel \in Selections : Valid(sel) /\ active = ListOf(sel)

(* Another handler's step, or one that only goes on.                       *)
LEMMA TaskInv ==
    ASSUME IsolationInv, UNCHANGED <<cpus, configured, active, selected>>,
           NEW h \in Handlers, NEW k, task' = [task EXCEPT ![h] = k],
           k.step = "clear" /\ k.then # <<>> => Valid(k.then[1]),
           k.step = "set" => Valid(k.sel)
    PROVE  IsolationInv'
<1>1. /\ task' = [g \in Handlers |-> task'[g]]
      /\ \A g \in Handlers : task'[g] = IF g = h THEN k ELSE task[g]
  BY DEF IsolationInv
<1>2. \A sel : (Valid(sel)' <=> Valid(sel)) /\ ListOf(sel)' = ListOf(sel)
  BY DEF Valid, ValidSelection, ListOf, SelectedCPUs, GetPhysicalCores, Sockets,
         MaxIsolatableCores
<1>3. QED
  BY <1>1, <1>2 DEF IsolationInv

LEMMA NextInv == IsolationInv /\ [Next]_vars => IsolationInv'
<1> SUFFICES ASSUME IsolationInv, [Next]_vars PROVE IsolationInv'
  OBVIOUS
<1>0. cpus' = cpus
  BY DEF vars, Next, ApplyCPUPinning, RemoveCPUPinning, EditVM, EditVm,
         UpdateVMCPUXml, GetVmCPUXML, UpdateVMXml,
         DomainDefineXML, SetHostCoreIsolation, RemoveHostCoreIsolation,
         clearHostCoreIsolationKernelArgs, SetKernelArgs, Fails, Reboot,
         UnchangedHost
<1>a. \A sel : (Valid(sel)' <=> Valid(sel)) /\ ListOf(sel)' = ListOf(sel)
  BY <1>0 DEF Valid, ValidSelection, ListOf, SelectedCPUs, GetPhysicalCores,
              Sockets, MaxIsolatableCores
<1>1. CASE UNCHANGED vars
  BY <1>1, <1>a DEF vars, IsolationInv
<1>2. ASSUME NEW h \in Handlers,
             \/ ApplyCPUPinning(h) \/ RemoveCPUPinning(h) \/ EditVM(h)
             \/ EditVm(h) \/ UpdateVMCPUXml(h) \/ GetVmCPUXML(h) \/ UpdateVMXml(h)
             \/ DomainDefineXML(h) \/ RemoveHostCoreIsolation(h) \/ Fails(h)
      PROVE  IsolationInv'
  <2>1. /\ UNCHANGED <<cpus, configured, active, selected>>
        /\ \E k : /\ task' = [task EXCEPT ![h] = k]
                  /\ k.step # "set" /\ (k.step = "clear" => k.then = <<>>)
    BY <1>2 DEF ApplyCPUPinning, RemoveCPUPinning, EditVM, EditVm,
                UpdateVMCPUXml, GetVmCPUXML, UpdateVMXml,
                DomainDefineXML, RemoveHostCoreIsolation, Fails, Accept, Done,
                Idle, UnchangedHost
  <2>2. QED
    BY <2>1, TaskInv
<1>3. ASSUME NEW h \in Handlers, SetHostCoreIsolation(h) PROVE IsolationInv'
  <2>1. PICK sel \in Selections :
            ValidSelection(sel) /\ Accept(h, [step |-> "clear", then |-> <<sel>>])
    BY <1>3 DEF SetHostCoreIsolation
  <2> DEFINE k == [step |-> "clear", then |-> <<sel>>]
  <2>2. /\ task' = [task EXCEPT ![h] = k]
        /\ UNCHANGED <<cpus, configured, active, selected>>
    BY <1>3, <2>1 DEF SetHostCoreIsolation, Accept, UnchangedHost
  <2>3. k.step = "clear" /\ k.then[1] = sel /\ Valid(sel)
    BY <2>1 DEF Valid
  <2> HIDE DEF k
  <2>4. QED
    BY <2>2, <2>3, TaskInv
<1>4. ASSUME NEW h \in Handlers, clearHostCoreIsolationKernelArgs(h)
      PROVE  IsolationInv'
  <2>1. /\ configured' = {} /\ selected' = <<>> /\ active' = active
        /\ task[h].step = "clear"
    BY <1>4 DEF clearHostCoreIsolationKernelArgs
  <2>2. PICK k : /\ task' = [task EXCEPT ![h] = k]
                 /\ k.step # "clear" /\ (k.step = "set" => Valid(k.sel))
    <3>1. CASE task[h].then = <<>>
      BY <1>4, <3>1 DEF clearHostCoreIsolationKernelArgs, Done, Idle
    <3>2. CASE task[h].then # <<>>
      <4> DEFINE k == [step |-> "set", sel |-> task[h].then[1]]
      <4>1. task' = [task EXCEPT ![h] = k]
        BY <1>4, <3>2 DEF clearHostCoreIsolationKernelArgs, IsolationInv
      <4>2. k.step = "set" /\ Valid(k.sel)
        BY <2>1, <3>2 DEF IsolationInv
      <4> HIDE DEF k
      <4>3. QED
        BY <4>1, <4>2
    <3>3. QED
      BY <3>1, <3>2
  <2>3. /\ task' = [g \in Handlers |-> task'[g]]
        /\ \A g \in Handlers : task'[g] = IF g = h THEN k ELSE task[g]
    BY <2>2 DEF IsolationInv
  <2>4. QED
    BY <1>0, <1>a, <2>1, <2>2, <2>3 DEF IsolationInv
<1>5. ASSUME NEW h \in Handlers, SetKernelArgs(h) PROVE IsolationInv'
  <2>1. /\ task[h].step = "set" /\ active' = active
        /\ configured' = ListOf(task[h].sel) /\ selected' = <<task[h].sel>>
        /\ task' = [task EXCEPT ![h] = Idle]
    BY <1>5 DEF SetKernelArgs, ListOf, Done
  <2>2. Valid(task[h].sel)
    BY <2>1 DEF IsolationInv
  <2>3. /\ task' = [g \in Handlers |-> task'[g]]
        /\ \A g \in Handlers : task'[g] = IF g = h THEN Idle ELSE task[g]
    BY <2>1 DEF IsolationInv
  <2>4. Idle.step = "idle"
    BY DEF Idle
  <2>5. PICK sel \in Selections : sel = task[h].sel
    BY <2>2 DEF Valid
  <2>6. QED
    BY <1>0, <1>a, <2>1, <2>2, <2>3, <2>4, <2>5 DEF IsolationInv
<1>6. CASE Reboot
  <2>1. /\ task' = [h \in Handlers |-> Idle] /\ Idle.step = "idle"
        /\ active' = configured /\ UNCHANGED <<configured, selected>>
    BY <1>6 DEF Reboot, Idle
  <2>2. QED
    BY <1>0, <1>a, <2>1 DEF IsolationInv
<1>7. QED
  BY <1>1, <1>2, <1>3, <1>4, <1>5, <1>6 DEF Next

LEMMA InitInv == Init => IsolationInv
<1>1. Idle.step = "idle"
  BY DEF Idle
<1>2. QED
  BY <1>1 DEF Init, IsolationInv

LEMMA InvHalf == IsolationInv => HalfStaysFree
<1> SUFFICES ASSUME IsolationInv, NEW list \in {configured, active}
             PROVE  HalfFree(list)
  BY DEF HalfStaysFree, HalfFree
<1>1. list = {} \/ \E sel \in Selections : Valid(sel) /\ list = ListOf(sel)
  BY DEF IsolationInv
<1>2. QED
  BY <1>1, NoneTaken, SelectedHalfFree DEF IsolationInv, Valid, ListOf

LEMMA InvReadsBack == IsolationInv => IsolationReadsBack
<1> SUFFICES ASSUME IsolationInv, NEW s \in Sockets
             PROVE  IsolatedCoreIndices(configured, s) =
                      IF selected = <<>> \/ s \notin DOMAIN selected[1] THEN {}
                      ELSE selected[1][s]
  BY DEF IsolationReadsBack
<1>0. cpus \in Topologies /\ Len(GetPhysicalCores(s)) \in Nat
  BY SocketCores DEF IsolationInv
<1>1. CASE selected = <<>> /\ configured = {}
  <2>1. expandCPUList({}) = {}
    BY DEF expandCPUList
  <2>2. \A i \in 0 .. Len(GetPhysicalCores(s)) - 1 : GetPhysicalCores(s)[i + 1] # {}
    <3> SUFFICES ASSUME NEW i \in 0 .. Len(GetPhysicalCores(s)) - 1
                 PROVE  GetPhysicalCores(s)[i + 1] # {}
      OBVIOUS
    <3>1. i + 1 \in 1..Len(GetPhysicalCores(s))
      BY <1>0
    <3>2. QED
      BY <1>0, <3>1, SocketCores, CoreTypes
  <2>3. QED
    BY <1>1, <2>1, <2>2 DEF IsolatedCoreIndices
<1>2. ASSUME NEW sel \in Selections, Valid(sel), selected = <<sel>>,
             configured = ListOf(sel)
      PROVE  IsolatedCoreIndices(configured, s) =
               IF s \notin DOMAIN sel THEN {} ELSE sel[s]
  <2> DEFINE list == expandCPUList(formatCPUSet(SelectedCPUs(sel)))
  <2>1. ASSUME NEW i \in 0 .. Len(GetPhysicalCores(s)) - 1
        PROVE  GetPhysicalCores(s)[i + 1] \subseteq list
                    <=> s \in DOMAIN sel /\ i \in sel[s]
    <3>1. i + 1 \in 1..Len(GetPhysicalCores(s)) /\ (i + 1) - 1 = i
      BY <1>0
    <3>2. /\ GetPhysicalCores(s)[i + 1] \cap list # {} =>
                s \in DOMAIN sel /\ (i + 1) - 1 \in sel[s]
          /\ s \in DOMAIN sel /\ (i + 1) - 1 \in sel[s] =>
                GetPhysicalCores(s)[i + 1] \subseteq list
          /\ GetPhysicalCores(s)[i + 1] # {}
      BY <1>0, <1>2, <3>1, TakenCores DEF Valid
    <3>3. QED
      BY <3>1, <3>2
  <2>2. s \in DOMAIN sel => sel[s] \subseteq 0 .. Len(GetPhysicalCores(s)) - 1
    BY <1>0, <1>2, SelectionsAssumption DEF Valid, ValidSelection
  <2>3. IsolatedCoreIndices(configured, s) =
            {i \in 0 .. Len(GetPhysicalCores(s)) - 1 :
                s \in DOMAIN sel /\ i \in sel[s]}
    BY <1>2, <2>1 DEF IsolatedCoreIndices, ListOf
  <2>4. QED
    BY <2>2, <2>3
<1>3. QED
  BY <1>1, <1>2 DEF IsolationInv

(* On every host, whatever requests, failures and reboots come in between, *)
(* isolation takes whole cores and at most half of a socket's.             *)
THEOREM IsolationLeavesHalf == Spec => []HalfStaysFree
  BY InitInv, NextInv, InvHalf, PTL DEF Spec

(* On every host, the cores that are reported are the selected ones.       *)
THEOREM IsolationIsReadBack == Spec => []IsolationReadsBack
  BY InitInv, NextInv, InvReadsBack, PTL DEF Spec

-----------------------------------------------------------------------------
(* Flattening.                                                             *)

(* One list after the other.                                               *)
Joined(s, t) == s \o t

LEMMA JoinedTypes ==
    ASSUME NEW S, NEW s \in Seq(S), NEW t \in Seq(S)
    PROVE  /\ Joined(s, t) \in Seq(S) /\ Len(Joined(s, t)) = Len(s) + Len(t)
           /\ \A p \in 1..(Len(s) + Len(t)) :
                Joined(s, t)[p] = IF p <= Len(s) THEN s[p] ELSE t[p - Len(s)]
  BY ConcatProperties, Zenon DEF Joined

LEMMA ListTypes ==
    ASSUME NEW S, NEW n \in Nat, NEW s \in [1..n -> S]
    PROVE  s \in Seq(S) /\ Len(s) = n
  OBVIOUS

(* What flattening comes to, list by list.                                 *)
Unfolds(n, lists, g) ==
    /\ Len(lists) = n /\ g = [i \in 1..n |-> g[i]]
    /\ \A i \in 1..n : g[i] = IF i = 1 THEN lists[i] ELSE Joined(g[i - 1], lists[i])

LEMMA Flattening ==
    ASSUME NEW n \in Nat \ {0}, NEW lists, NEW g, Unfolds(n, lists, g)
    PROVE  FlattenSeq(lists) = g[n]
<1>0. /\ Len(lists) = n /\ g = [i \in 1..n |-> g[i]]
      /\ \A i \in 1..n : g[i] = IF i = 1 THEN lists[i] ELSE Joined(g[i - 1], lists[i])
  BY DEF Unfolds
<1> DEFINE Flat(f) == f = [i \in 1..n |-> IF i = 1 THEN lists[i]
                                           ELSE f[i - 1] \o lists[i]]
           h == CHOOSE f : Flat(f)
<1>1. FlattenSeq(lists) = h[n]
  BY <1>0 DEF FlattenSeq
<1>2. Flat(h)
  <2>1. Flat(g)
    BY <1>0 DEF Joined
  <2> HIDE DEF Flat
  <2>2. QED
    BY <2>1
<1> HIDE DEF h
<1>3. ASSUME h[n] # g[n] PROVE FALSE
  <2> DEFINE T == {i \in 1..n : h[i] # g[i]}
  <2>1. T \subseteq Nat /\ n \in T
    BY <1>3
  <2>2. PICK k \in T : \A y \in T : k <= y
    BY <2>1, Least
  <2>3. k \in 1..n /\ h[k] # g[k]
    BY <2>2
  <2>4. k # 1
    BY <1>0, <1>2, <2>3
  <2>5. k - 1 \in 1..n /\ k - 1 \notin T
    BY <2>2, <2>3, <2>4
  <2>6. h[k - 1] = g[k - 1]
    BY <2>5
  <2>7. g[k] = Joined(g[k - 1], lists[k])
    BY <1>0, <2>3, <2>4
  <2>8. h[k] = Joined(h[k - 1], lists[k])
    BY <1>2, <2>3, <2>4 DEF Joined
  <2>9. QED
    BY <2>3, <2>6, <2>7, <2>8
<1>4. QED
  BY <1>1, <1>3

LEMMA FlattenOnes ==
    ASSUME NEW n \in Nat \ {0}, NEW S, NEW f \in [1..n -> S]
    PROVE  FlattenSeq([i \in 1..n |-> <<f[i]>>]) = f
<1> DEFINE lists == [i \in 1..n |-> <<f[i]>>]
           upTo(i) == [p \in 1..i |-> f[p]]
           g == [i \in 1..n |-> upTo(i)]
<1>1. ASSUME NEW i \in 1..n
      PROVE  upTo(i) = IF i = 1 THEN lists[i] ELSE Joined(g[i - 1], lists[i])
  <2>1. /\ upTo(i) \in Seq(S) /\ Len(upTo(i)) = i /\ lists[i] = <<f[i]>>
        /\ <<f[i]>> \in Seq(S) /\ Len(<<f[i]>>) = 1 /\ <<f[i]>>[1] = f[i]
    OBVIOUS
  <2>2. CASE i = 1
    <3>1. \A p \in 1..1 : upTo(i)[p] = <<f[i]>>[p]
      BY <2>2
    <3> HIDE DEF upTo, lists
    <3>2. upTo(i) = <<f[i]>>
      BY <2>1, <2>2, <3>1, SeqEqual
    <3>3. QED
      BY <2>1, <2>2, <3>2
  <2>3. CASE i # 1
    <3>1. i - 1 \in 1..n /\ i - 1 \in Nat
      BY <2>3
    <3>2. upTo(i - 1) \in Seq(S) /\ Len(upTo(i - 1)) = i - 1
      BY <3>1
    <3> DEFINE c == Joined(upTo(i - 1), <<f[i]>>)
    <3>3. \A p \in 1..i : upTo(i)[p] = IF p <= i - 1 THEN upTo(i - 1)[p]
                                       ELSE <<f[i]>>[p - (i - 1)]
      BY <2>1, <3>1
    <3>4. g[i - 1] = upTo(i - 1)
      BY <3>1
    <3> HIDE DEF upTo, lists, g
    <3> DEFINE u == upTo(i - 1)
               e == <<f[i]>>
    <3>5. /\ c \in Seq(S) /\ Len(c) = Len(u) + Len(e)
          /\ \A p \in 1..(Len(u) + Len(e)) :
                c[p] = IF p <= Len(u) THEN u[p] ELSE e[p - Len(u)]
      <4>1. u \in Seq(S) /\ e \in Seq(S)
        BY <2>1, <3>2
      <4> HIDE DEF u, e
      <4>2. QED
        BY <4>1, JoinedTypes DEF c, u, e
    <3>6. Len(u) = i - 1 /\ Len(u) + Len(e) = i
      BY <2>1, <3>2
    <3> HIDE DEF c
    <3>7. c = upTo(i)
      <4>1. Len(u) = i - 1 /\ Len(c) = i /\ c \in Seq(S)
        BY <3>5, <3>6
      <4> HIDE DEF u, e
      <4>2. \A p \in 1..i : c[p] = IF p <= i - 1 THEN u[p] ELSE e[p - (i - 1)]
        BY <3>5, <3>6
      <4>3. \A p \in 1..i : c[p] = upTo(i)[p]
        BY <3>3, <4>2 DEF u, e
      <4>4. QED
        BY <2>1, <4>1, <4>3, SeqEqual
    <3>8. QED
      BY <2>1, <2>3, <3>4, <3>7 DEF c, e
  <2>4. QED
    BY <2>2, <2>3
<1>2. \A i \in 1..n : g[i] = IF i = 1 THEN lists[i] ELSE Joined(g[i - 1], lists[i])
  BY <1>1
<1>3. Len(lists) = n /\ g[n] = f /\ g = [i \in 1..n |-> g[i]]
  OBVIOUS
<1> HIDE DEF lists, g
<1>4. FlattenSeq(lists) = g[n]
  <2>1. Unfolds(n, lists, g)
    BY <1>2, <1>3 DEF Unfolds
  <2>2. QED
    BY <2>1, Flattening
<1>5. QED
  BY <1>3, <1>4 DEF lists

LEMMA FlattenPairs ==
    ASSUME NEW n \in Nat \ {0}, NEW S, NEW f \in [1..n -> [1..2 -> S]]
    PROVE  FlattenSeq(f) =
               [p \in 1..(2 * n) |-> f[(p + 1) \div 2][2 - (p % 2)]]
<1> DEFINE upTo(i) == [p \in 1..(2 * i) |-> f[(p + 1) \div 2][2 - (p % 2)]]
           g == [i \in 1..n |-> upTo(i)]
<1>0. ASSUME NEW i \in 1..n PROVE f[i] \in Seq(S) /\ Len(f[i]) = 2
  BY ListTypes
<1>1. ASSUME NEW i \in 1..n
      PROVE  upTo(i) \in Seq(S) /\ Len(upTo(i)) = 2 * i
  <2>1. ASSUME NEW p \in 1..(2 * i)
        PROVE  f[(p + 1) \div 2][2 - (p % 2)] \in S
    <3>1. (p + 1) \div 2 \in 1..n /\ 2 - (p % 2) \in 1..2
      OBVIOUS
    <3>2. QED
      BY <3>1
  <2>2. QED
    BY <2>1
<1>2. ASSUME NEW i \in 1..n
      PROVE  upTo(i) = IF i = 1 THEN f[i] ELSE Joined(g[i - 1], f[i])
  <2>1. CASE i = 1
    <3>1. \A p \in 1..2 : (p + 1) \div 2 = 1 /\ 2 - (p % 2) = p
      OBVIOUS
    <3>2. \A p \in 1..2 : upTo(1)[p] = f[1][p]
      BY <3>1
    <3>3. upTo(1) \in Seq(S) /\ Len(upTo(1)) = 2 /\ f[1] \in Seq(S) /\ Len(f[1]) = 2
      BY <1>0, <1>1, <2>1
    <3> HIDE DEF upTo
    <3>4. upTo(1) = f[1]
      BY <3>2, <3>3, SeqEqual
    <3>5. QED
      BY <2>1, <3>4
  <2>2. CASE i # 1
    <3>1. i - 1 \in 1..n /\ g[i - 1] = upTo(i - 1)
      BY <2>2
    <3>2. /\ upTo(i - 1) \in Seq(S) /\ Len(upTo(i - 1)) = 2 * (i - 1)
          /\ upTo(i) \in Seq(S) /\ Len(upTo(i)) = 2 * i
          /\ f[i] \in Seq(S) /\ Len(f[i]) = 2
      BY <1>0, <1>1, <3>1
    <3> DEFINE c == Joined(upTo(i - 1), f[i])
    <3>3. \A p \in 1..(2 * (i - 1)) : upTo(i)[p] = upTo(i - 1)[p]
      OBVIOUS
    <3>4. upTo(i)[2 * i - 1] = f[i][1] /\ upTo(i)[2 * i] = f[i][2]
      <4>1. /\ (2 * i - 1 + 1) \div 2 = i /\ 2 - ((2 * i - 1) % 2) = 1
            /\ (2 * i + 1) \div 2 = i /\ 2 - ((2 * i) % 2) = 2
            /\ 2 * i - 1 \in 1..(2 * i) /\ 2 * i \in 1..(2 * i)
        OBVIOUS
      <4>2. QED
        BY <4>1
    <3> HIDE DEF upTo, g
    <3>5. /\ c \in Seq(S) /\ Len(c) = 2 * i
          /\ \A p \in 1..(2 * (i - 1)) : c[p] = upTo(i - 1)[p]
          /\ c[2 * i - 1] = f[i][1] /\ c[2 * i] = f[i][2]
      <4>1. /\ c \in Seq(S) /\ Len(c) = 2 * (i - 1) + 2
            /\ \A p \in 1..(2 * (i - 1) + 2) :
                c[p] = IF p <= 2 * (i - 1) THEN upTo(i - 1)[p]
                       ELSE f[i][p - 2 * (i - 1)]
        <5> DEFINE u == upTo(i - 1)
                   e == f[i]
        <5>1. /\ u \in Seq(S) /\ e \in Seq(S)
              /\ Len(u) = 2 * (i - 1) /\ Len(e) = 2
          BY <3>2
        <5> HIDE DEF u, e
        <5>2. /\ c \in Seq(S) /\ Len(c) = Len(u) + Len(e)
              /\ \A p \in 1..(Len(u) + Len(e)) :
                    c[p] = IF p <= Len(u) THEN u[p] ELSE e[p - Len(u)]
          BY <5>1, JoinedTypes DEF c, u, e
        <5> HIDE DEF c
        <5>3. QED
          BY <5>1, <5>2 DEF u, e
      <4>2. /\ 2 * i - 1 \in 1..(2 * (i - 1) + 2) /\ 2 * i \in 1..(2 * (i - 1) + 2)
            /\ ~(2 * i - 1 <= 2 * (i - 1)) /\ ~(2 * i <= 2 * (i - 1))
            /\ 2 * i - 1 - 2 * (i - 1) = 1 /\ 2 * i - 2 * (i - 1) = 2
            /\ 2 * (i - 1) + 2 = 2 * i
            /\ \A p \in 1..(2 * (i - 1)) : p \in 1..(2 * (i - 1) + 2) /\ p <= 2 * (i - 1)
        BY <3>1
      <4> HIDE DEF c
      <4>3. QED
        BY <4>1, <4>2
    <3> HIDE DEF c
    <3>6. \A p \in 1..(2 * i) : \/ p \in 1..(2 * (i - 1))
                                \/ p = 2 * i - 1 \/ p = 2 * i
      BY <3>1
    <3>7. \A p \in 1..(2 * i) : c[p] = upTo(i)[p]
      BY <3>3, <3>4, <3>5, <3>6
    <3>8. c = upTo(i)
      BY <3>2, <3>5, <3>7, SeqEqual
    <3>9. QED
      BY <2>2, <3>1, <3>8 DEF c
  <2>3. QED
    BY <2>1, <2>2
<1>3. \A i \in 1..n : g[i] = IF i = 1 THEN f[i] ELSE Joined(g[i - 1], f[i])
  BY <1>2
<1>4. Len(f) = n /\ g[n] = upTo(n) /\ g = [i \in 1..n |-> g[i]]
  BY ListTypes
<1> HIDE DEF g
<1>5. FlattenSeq(f) = g[n]
  <2>1. Unfolds(n, f, g)
    BY <1>3, <1>4 DEF Unfolds
  <2>2. QED
    BY <2>1, Flattening
<1>6. QED
  BY <1>4, <1>5

(* Lists of two elements or more: two to a list, and more if one has more. *)
UpTo(f, k, g) ==
    \A i \in 1..k :
        /\ g[i] = IF i = 1 THEN f[i] ELSE Joined(g[i - 1], f[i])
        /\ Len(g[i]) >= 2 * i
        /\ \A j \in 1..i : Len(f[j]) > 2 => Len(g[i]) > 2 * i

LEMMA FlattenLonger ==
    ASSUME NEW n \in Nat \ {0}, NEW S, NEW f \in [1..n -> Seq(S)],
           \A i \in 1..n : Len(f[i]) >= 2
    PROVE  /\ FlattenSeq(f) \in Seq(S) /\ Len(FlattenSeq(f)) >= 2 * n
           /\ \A i \in 1..n : Len(f[i]) > 2 => Len(FlattenSeq(f)) > 2 * n
<1> DEFINE Built(k) == \E g \in [1..k -> Seq(S)] : UpTo(f, k, g)
           Bad == {k \in 1..n : ~Built(k)}
<1>1. ASSUME n \in Bad PROVE FALSE
  <2>1. Bad \subseteq Nat /\ Bad # {}
    <3> HIDE DEF Built
    <3>1. QED
      BY <1>1
  <2>2. PICK k \in Bad : \A y \in Bad : k <= y
    BY <2>1, Least
  <2>3. k \in 1..n /\ ~ \E g \in [1..k -> Seq(S)] : UpTo(f, k, g)
    BY <2>2
  <2>4. CASE k = 1
    <3> DEFINE g == [i \in 1..1 |-> f[1]]
    <3>1. g \in [1..1 -> Seq(S)] /\ g[1] = f[1] /\ \A i \in 1..1 : i = 1
      OBVIOUS
    <3>2. Len(f[1]) >= 2 * 1 /\ (Len(f[1]) > 2 => Len(f[1]) > 2 * 1)
      BY <2>3, <2>4
    <3> HIDE DEF g
    <3>3. UpTo(f, 1, g)
      BY <3>1, <3>2 DEF UpTo
    <3>4. QED
      BY <2>3, <2>4, <3>1, <3>3
  <2>5. CASE k # 1
    <3>1. k - 1 \in 1..n /\ k - 1 \notin Bad /\ ~(k <= k - 1)
      BY <2>2, <2>3, <2>5
    <3>2. PICK g \in [1..(k - 1) -> Seq(S)] : UpTo(f, k - 1, g)
      BY <3>1
    <3> DEFINE u == g[k - 1]
               e == f[k]
               q == [i \in 1..k |-> IF i = k THEN Joined(u, e) ELSE g[i]]
    <3> HIDE DEF Bad
    <3>3. u \in Seq(S) /\ e \in Seq(S) /\ k - 1 \in 1..(k - 1) /\ k \in 1..n
      BY <2>3, <3>1, <3>2
    <3>4. Joined(u, e) \in Seq(S) /\ Len(Joined(u, e)) = Len(u) + Len(e)
      <4> HIDE DEF u, e
      <4>1. QED
        BY <3>3, JoinedTypes
    <3>5. /\ Len(u) \in Nat /\ Len(e) \in Nat /\ Len(e) >= 2
          /\ Len(u) >= 2 * (k - 1)
          /\ \A j \in 1..(k - 1) : Len(f[j]) > 2 => Len(u) > 2 * (k - 1)
      BY <3>2, <3>3, LenProperties DEF UpTo
    <3>6. /\ q \in [1..k -> Seq(S)] /\ q[k] = Joined(u, e)
          /\ \A i \in 1..(k - 1) : q[i] = g[i]
      <4> HIDE DEF u, e
      <4>1. \A i \in 1..k : i # k => i \in 1..(k - 1)
        BY <2>3
      <4>2. \A i \in 1..(k - 1) : i \in 1..k /\ i # k
        BY <2>3
      <4>3. k \in 1..k
        BY <2>3
      <4>4. QED
        BY <3>2, <3>4, <4>1, <4>2, <4>3
    <3> HIDE DEF q
    <3>7. \A j \in 1..k : Len(f[j]) > 2 => Len(u) + Len(e) > 2 * k
      <4> SUFFICES ASSUME NEW j \in 1..k, Len(f[j]) > 2
                   PROVE  Len(u) + Len(e) > 2 * k
        OBVIOUS
      <4> DEFINE lu == Len(u)
                 le == Len(e)
      <4>1. lu \in Nat /\ le \in Nat /\ le >= 2 /\ lu >= 2 * (k - 1)
        BY <3>5
      <4>2. lu > 2 * (k - 1) \/ le > 2
        BY <2>3, <3>5
      <4> HIDE DEF lu, le
      <4>3. lu + le > 2 * k
        BY <2>3, <4>1, <4>2
      <4>4. QED
        BY <4>3 DEF lu, le
    <3>8. Len(q[k]) = Len(u) + Len(e) /\ Len(u) + Len(e) >= 2 * k
      <4> DEFINE lu == Len(u)
                 le == Len(e)
      <4>1. lu \in Nat /\ le \in Nat /\ le >= 2 /\ lu >= 2 * (k - 1)
        BY <3>5
      <4> HIDE DEF lu, le
      <4>2. lu + le >= 2 * k
        BY <2>3, <4>1
      <4>3. QED
        BY <3>4, <3>6, <4>2 DEF lu, le
    <3>9. UpTo(f, k, q)
      <4> SUFFICES ASSUME NEW i \in 1..k
                   PROVE  /\ q[i] = IF i = 1 THEN f[i] ELSE Joined(q[i - 1], f[i])
                          /\ Len(q[i]) >= 2 * i
                          /\ \A j \in 1..i : Len(f[j]) > 2 => Len(q[i]) > 2 * i
        BY DEF UpTo
      <4>1. CASE i = k
        <5>1. q[k - 1] = g[k - 1]
          BY <3>3, <3>6
        <5>2. QED
          BY <2>5, <3>6, <3>7, <3>8, <4>1, <5>1
      <4>2. CASE i # k
        <5>1. i \in 1..(k - 1) /\ (i # 1 => i - 1 \in 1..(k - 1))
          BY <2>3, <4>2
        <5>2. /\ g[i] = IF i = 1 THEN f[i] ELSE Joined(g[i - 1], f[i])
              /\ Len(g[i]) >= 2 * i
              /\ \A j \in 1..i : Len(f[j]) > 2 => Len(g[i]) > 2 * i
          BY <3>2, <5>1 DEF UpTo
        <5>3. q[i] = g[i] /\ (i # 1 => q[i - 1] = g[i - 1])
          BY <3>6, <5>1
        <5>4. QED
          BY <5>2, <5>3
      <4>3. QED
        BY <4>1, <4>2
    <3>10. QED
      BY <2>3, <3>6, <3>9
  <2>6. QED
    BY <2>4, <2>5
<1>2. n \in 1..n
  OBVIOUS
<1>3. PICK g \in [1..n -> Seq(S)] : UpTo(f, n, g)
  BY <1>1, <1>2
<1>4. Unfolds(n, f, g)
  <2>1. Len(f) = n /\ g = [i \in 1..n |-> g[i]]
    BY ListTypes
  <2>2. QED
    BY <1>3, <2>1 DEF Unfolds, UpTo
<1>5. FlattenSeq(f) = g[n]
  BY <1>4, Flattening
<1>6. QED
  BY <1>2, <1>3, <1>5 DEF UpTo

-----------------------------------------------------------------------------
(* The plan of a pinning.                                                  *)

(* A CPU knows its core, and the core's place on its socket.               *)
LEMMA CorePlace ==
    ASSUME cpus \in Topologies, NEW s \in Sockets,
           NEW i \in 1..Len(GetPhysicalCores(s)), NEW c \in GetPhysicalCores(s)[i]
    PROVE  /\ c \in DOMAIN cpus /\ cpus[c].socket = s
           /\ cpus[c].siblings = GetPhysicalCores(s)[i] /\ CoreIndex(c) = i - 1
<1>1. GetPhysicalCores(s)[i] \in CoresIn(cpus, s)
  BY SocketCores
<1>2. /\ c \in DOMAIN cpus /\ cpus[c].socket = s
      /\ cpus[c].siblings = GetPhysicalCores(s)[i]
  BY <1>1, CoreTypes
<1>3. \A j \in 1..Len(GetPhysicalCores(s)) : c \in GetPhysicalCores(s)[j] => j = i
  <2> SUFFICES ASSUME NEW j \in 1..Len(GetPhysicalCores(s)), c \in GetPhysicalCores(s)[j]
               PROVE  j = i
    OBVIOUS
  <2>1. GetPhysicalCores(s)[j] \in CoresIn(cpus, s)
    BY SocketCores
  <2>2. GetPhysicalCores(s)[j] = GetPhysicalCores(s)[i]
    BY <1>2, <2>1, CoreTypes
  <2>3. QED
    BY <2>2, SocketCores
<1>4. DOMAIN GetPhysicalCores(s) = 1..Len(GetPhysicalCores(s))
  BY SocketCores
<1>5. (CHOOSE j \in DOMAIN GetPhysicalCores(s) : c \in GetPhysicalCores(s)[j]) = i
  BY <1>3, <1>4
<1>6. QED
  BY <1>2, <1>5 DEF CoreIndex

LEMMA CoreNumbers ==
    ASSUME cpus \in Topologies, NEW s, NEW core \in CoresIn(cpus, s)
    PROVE  /\ core \subseteq Nat /\ IsFiniteSet(core) /\ core # {}
           /\ Cardinality(core) \in Nat \ {0}
<1>2. core # {} /\ core \subseteq DOMAIN cpus
  BY CoreTypes
<1>3. DOMAIN cpus \subseteq Nat /\ IsFiniteSet(DOMAIN cpus)
  BY TopologyAssumption
<1>4. core \subseteq Nat /\ IsFiniteSet(core)
  BY <1>2, <1>3, FS_Subset
<1>5. Cardinality(core) \in Nat /\ Cardinality(core) # 0
  BY <1>2, <1>4, FS_CardinalityType, FS_EmptySet
<1>6. QED
  BY <1>2, <1>4, <1>5

(* With hyperthreading all threads of a core are used, else the lowest.    *)
LEMMA UsedTypes ==
    ASSUME cpus \in Topologies, NEW s, NEW core \in CoresIn(cpus, s)
    PROVE  /\ Used(core, TRUE) \in [1..Cardinality(core) -> core]
           /\ Used(core, FALSE) = <<Min(core)>> /\ Min(core) \in core
<1>1. core \subseteq Nat /\ IsFiniteSet(core) /\ core # {}
  BY CoreNumbers
<1>2. Used(core, TRUE) \in [1..Cardinality(core) -> core]
  <2>1. InOrder(core) \in [1..Cardinality(core) -> core]
    BY <1>1, Ascends DEF InOrder
  <2>2. QED
    BY <2>1 DEF Used
<1>3. Min(core) \in core
  <2>1. \E x \in core : \A y \in core : x <= y
    BY <1>1, Least
  <2>2. QED
    BY <2>1 DEF Min
<1>4. QED
  BY <1>2, <1>3 DEF Used

(* The pins of a list of cores go from core to core, two threads to each.  *)
CoreOfPin(v, ht) == IF ht THEN (v + 1) \div 2 ELSE v

PinsOf(cores, n, ht, pins) ==
    /\ pins \in Seq(DOMAIN cpus)
    /\ Len(pins) = IF ht THEN 2 * n ELSE n
    /\ \A v \in 1..Len(pins) : /\ CoreOfPin(v, ht) \in 1..n
                               /\ pins[v] \in cores[CoreOfPin(v, ht)]
    /\ \A i \in 1..n : \E v \in 1..Len(pins) : pins[v] \in cores[i]

LEMMA BuiltPins ==
    ASSUME cpus \in Topologies, NEW s, NEW n \in Nat \ {0},
           NEW cores \in [1..n -> CoresIn(cpus, s)], NEW ht \in BOOLEAN,
           ht => \A i \in 1..n : Cardinality(cores[i]) = 2
    PROVE  PinsOf(cores, n, ht, buildPinsFromPhysicalCores(cores, ht))
<1> DEFINE pins == buildPinsFromPhysicalCores(cores, ht)
           D == DOMAIN cpus
<1>0. \A i \in 1..n : cores[i] \in CoresIn(cpus, s) /\ cores[i] \subseteq D
  BY CoreTypes
<1>1. CASE ht
  <2> DEFINE f == [i \in 1..n |-> Used(cores[i], TRUE)]
  <2>1. \A i \in 1..n : f[i] \in [1..2 -> cores[i]]
    BY <1>0, <1>1, UsedTypes
  <2>2. \A i \in 1..n : f[i] \in [1..2 -> D]
    BY <1>0, <2>1
  <2>3. f \in [1..n -> [1..2 -> D]]
    BY <2>2
  <2>4. pins = FlattenSeq(f)
    BY <1>1 DEF buildPinsFromPhysicalCores
  <2> HIDE DEF f, pins, D
  <2>5. pins = [p \in 1..(2 * n) |-> f[(p + 1) \div 2][2 - (p % 2)]]
    BY <2>3, <2>4, FlattenPairs
  <2>6. \A p \in 1..(2 * n) : (p + 1) \div 2 \in 1..n /\ 2 - (p % 2) \in 1..2
    OBVIOUS
  <2>7. \A p \in 1..(2 * n) : /\ pins[p] \in cores[(p + 1) \div 2]
                              /\ pins[p] \in D
    BY <1>0, <2>1, <2>5, <2>6
  <2>8. pins \in [1..(2 * n) -> D]
    BY <2>5, <2>7
  <2>9. pins \in Seq(D) /\ Len(pins) = 2 * n
    <3>1. 2 * n \in Nat
      OBVIOUS
    <3>2. QED
      BY <2>8, <3>1, ListTypes
  <2>10. \A i \in 1..n : 2 * i \in 1..(2 * n) /\ (2 * i + 1) \div 2 = i
    OBVIOUS
  <2>11. \A i \in 1..n : \E v \in 1..(2 * n) : pins[v] \in cores[i]
    BY <2>7, <2>10
  <2>12. QED
    BY <1>1, <2>6, <2>7, <2>9, <2>11 DEF pins, D, CoreOfPin, PinsOf
<1>2. CASE ~ht
  <2> DEFINE f == [i \in 1..n |-> Min(cores[i])]
  <2>1. \A i \in 1..n : /\ f[i] \in cores[i] /\ f[i] \in D
                        /\ Used(cores[i], FALSE) = <<f[i]>>
    BY <1>0, UsedTypes
  <2>2. f \in [1..n -> D]
    BY <2>1
  <2>3. pins = FlattenSeq([i \in 1..n |-> <<f[i]>>])
    BY <1>2, <2>1 DEF buildPinsFromPhysicalCores
  <2> HIDE DEF f, pins, D
  <2>4. pins = f
    BY <2>2, <2>3, FlattenOnes
  <2>5. pins \in Seq(D) /\ Len(pins) = n
    BY <2>2, <2>4, ListTypes
  <2>6. QED
    BY <1>2, <2>1, <2>4, <2>5 DEF pins, D, CoreOfPin, PinsOf
<1>3. QED
  BY <1>1, <1>2

(* With cores of more threads they are still CPUs of the host, but more.   *)
LEMMA BuiltMore ==
    ASSUME cpus \in Topologies, NEW s, NEW n \in Nat \ {0},
           NEW cores \in [1..n -> CoresIn(cpus, s)],
           \A i \in 1..n : Cardinality(cores[i]) >= 2
    PROVE  LET pins == buildPinsFromPhysicalCores(cores, TRUE)
           IN  /\ pins \in Seq(DOMAIN cpus) /\ Len(pins) >= 2 * n
               /\ \A i \in 1..n : Cardinality(cores[i]) > 2 => Len(pins) > 2 * n
<1> DEFINE D == DOMAIN cpus
           f == [i \in 1..n |-> Used(cores[i], TRUE)]
<1>1. ASSUME NEW i \in 1..n
      PROVE  f[i] \in Seq(D) /\ Len(f[i]) = Cardinality(cores[i])
  <2>1. cores[i] \in CoresIn(cpus, s)
    OBVIOUS
  <2>2. cores[i] \subseteq D /\ Cardinality(cores[i]) \in Nat
    BY <2>1, CoreTypes, CoreNumbers
  <2>3. f[i] \in [1..Cardinality(cores[i]) -> cores[i]]
    BY <2>1, UsedTypes
  <2> HIDE DEF f, D
  <2>4. f[i] \in [1..Cardinality(cores[i]) -> D]
    BY <2>2, <2>3
  <2>5. QED
    BY <2>2, <2>4, ListTypes
<1>2. f \in [1..n -> Seq(D)]
  BY <1>1
<1>3. buildPinsFromPhysicalCores(cores, TRUE) = FlattenSeq(f)
  BY DEF buildPinsFromPhysicalCores
<1> HIDE DEF f, D
<1>4. \A i \in 1..n : Len(f[i]) >= 2
  BY <1>1
<1>5. QED
  BY <1>1, <1>2, <1>3, <1>4, FlattenLonger DEF D

(* The selected cores: first the guest's, then at most one for QEMU.       *)
CoreCount(config) == config.end - config.start + 1

LEMMA Plan ==
    ASSUME cpus \in Topologies, NEW config \in Configs, ValidateCPUPinningConfig(config)
    PROVE  LET s == config.socket
               n == Len(GuestCores(config))
           IN  /\ s \in Sockets /\ config.start \in Nat /\ config.end \in Nat
               /\ config.start <= config.end /\ config.end < Len(GetPhysicalCores(s))
               /\ n \in Nat \ {0} /\ GuestCores(config) \in [1..n -> CoresIn(cpus, s)]
               /\ \A i \in 1..n : GuestCores(config)[i] =
                                    GetPhysicalCores(s)[config.start + i]
               /\ \/ /\ n = CoreCount(config) /\ CoreCount(config) < 4
                     /\ EmulatorCores(config) = <<>>
                  \/ /\ n = CoreCount(config) - 1 /\ CoreCount(config) >= 4
                     /\ EmulatorCores(config) \in [1..1 -> CoresIn(cpus, s)]
                     /\ EmulatorCores(config)[1] = GetPhysicalCores(s)[config.end + 1]
                     /\ EmulatorCores(config) # <<>>
<1> DEFINE s == config.socket
           P == GetPhysicalCores(s)
           C == CoresIn(cpus, s)
           a == config.start
           e == config.end
           L == e - a + 1
           cores == SelectedCores(config)
           r == emulatorReservedPhysicalCoreCount(L)
<1>1. s \in Sockets /\ a \in Nat /\ e \in Nat /\ a <= e /\ e < Len(P) /\ Len(P) \in Nat
  BY ConfigsAssumption, SocketCores DEF ValidateCPUPinningConfig
<1>2. \A i \in 1..Len(P) : P[i] \in C
  BY <1>1, SocketCores
<1>3. cores = SubSeq(P, a + 1, e + 1)
  BY DEF SelectedCores
<1> HIDE DEF P, cores, C
<1>a. L \in Nat /\ L >= 1
  BY <1>1
<1>4. cores \in Seq(C) /\ Len(cores) = L /\ \A i \in 1..L : cores[i] = P[a + i] /\ cores[i] \in C
  <2>1. \A i \in (a + 1)..(e + 1) : P[i] \in C
    BY <1>1, <1>2
  <2>2. a + 1 \in Int /\ e + 1 \in Int /\ a + 1 <= e + 1 /\ (e + 1) - (a + 1) + 1 = L
    BY <1>1
  <2>3. /\ cores \in Seq(C) /\ Len(cores) = (e + 1) - (a + 1) + 1
        /\ \A i \in 1..((e + 1) - (a + 1) + 1) : cores[i] = P[(a + 1) + i - 1]
    BY <1>3, <2>1, <2>2, SubSeqProperties
  <2>4. \A i \in 1..L : (a + 1) + i - 1 = a + i /\ a + i \in (a + 1)..(e + 1)
    BY <1>1
  <2>5. QED
    BY <2>1, <2>2, <2>3, <2>4
<1>5. r \in {0, 1} /\ (r = 1 => L >= 4) /\ (r = 0 => L < 4)
  BY <1>a DEF emulatorReservedPhysicalCoreCount
<1> HIDE DEF L, r
<1>6. GuestCores(config) = SubSeq(cores, 1, L - r)
  BY <1>4 DEF GuestCores, cores, r
<1>7. /\ L - r \in Nat \ {0} /\ L - r <= L /\ 1 \in Int /\ L - r \in Int
      /\ \A i \in 1..(L - r) : i \in 1..L
  BY <1>a, <1>5
<1>8. /\ GuestCores(config) \in Seq(C) /\ Len(GuestCores(config)) = L - r
      /\ \A i \in 1..(L - r) : GuestCores(config)[i] = cores[i]
  <2>1. /\ GuestCores(config) \in Seq(C) /\ Len(GuestCores(config)) = (L - r) - 1 + 1
        /\ \A i \in 1..((L - r) - 1 + 1) : GuestCores(config)[i] = cores[1 + i - 1]
    <3>1. 1 <= L - r /\ \A i \in 1..(L - r) : cores[i] \in C
      BY <1>4, <1>7
    <3>2. QED
      BY <1>6, <1>7, <3>1, SubSeqProperties
  <2>2. (L - r) - 1 + 1 = L - r /\ \A i \in 1..(L - r) : 1 + i - 1 = i
    BY <1>7
  <2>3. QED
    BY <2>1, <2>2
<1>9. GuestCores(config) \in [1..(L - r) -> C]
  BY <1>8, LenProperties
<1>10. EmulatorCores(config) = SubSeq(cores, L - r + 1, L)
  BY <1>4, <1>8 DEF EmulatorCores, cores
<1>11. CASE r = 0
  <2>1. L < L + 1 /\ L + 1 \in Int /\ L \in Int /\ L - r = L /\ L - r + 1 = L + 1
    BY <1>a, <1>11
  <2>0. L < 4
    BY <1>5, <1>11
  <2>2. EmulatorCores(config) = <<>>
    BY <1>10, <2>1, SubSeqEmpty
  <2>3. QED
    BY <1>1, <1>4, <1>7, <1>8, <1>9, <2>0, <2>1, <2>2 DEF s, P, C, a, e, L, CoreCount
<1>12. CASE r = 1
  <2>1. /\ L - r + 1 = L /\ L \in Int /\ L \in 1..L /\ L - r = L - 1
        /\ \A i \in L..L : i = L
    BY <1>a, <1>12
  <2>2. /\ EmulatorCores(config) \in Seq(C) /\ Len(EmulatorCores(config)) = L - L + 1
        /\ \A i \in 1..(L - L + 1) : EmulatorCores(config)[i] = cores[L + i - 1]
    <3>1. \A i \in L..L : cores[i] \in C
      BY <1>4, <2>1
    <3>2. EmulatorCores(config) = SubSeq(cores, L, L) /\ L <= L
      BY <1>10, <2>1
    <3>3. QED
      BY <2>1, <3>1, <3>2, SubSeqProperties
  <2>3. L - L + 1 = 1 /\ 1 \in 1..1 /\ L + 1 - 1 = L /\ a + L = e + 1
    BY <1>1, <1>a DEF L
  <2>4. /\ EmulatorCores(config) \in [1..1 -> C] /\ EmulatorCores(config)[1] = P[e + 1]
        /\ EmulatorCores(config) # <<>>
    <3>1. EmulatorCores(config)[1] = cores[L]
      BY <2>2, <2>3
    <3>2. EmulatorCores(config) \in [1..1 -> C]
      BY <2>2, <2>3, LenProperties
    <3>3. cores[L] = P[e + 1]
      BY <1>4, <2>1, <2>3
    <3>4. EmulatorCores(config) # <<>>
      BY <2>2, <2>3
    <3>5. QED
      BY <3>1, <3>2, <3>3, <3>4
  <2>5. L >= 4
    BY <1>5, <1>12
  <2>6. QED
    BY <1>1, <1>4, <1>7, <1>8, <1>9, <2>1, <2>4, <2>5 DEF s, P, C, a, e, L, CoreCount
<1>13. QED
  BY <1>5, <1>11, <1>12


AllPins(config) == buildPinsFromPhysicalCores(GuestCores(config), config.ht)

LEMMA Threads ==
    ASSUME cpus \in Topologies, NEW config \in Configs, ValidateCPUPinningConfig(config),
           config.ht, NEW i \in Int, config.start < i, i <= config.end + 1
    PROVE  Cardinality(GetPhysicalCores(config.socket)[i]) >= 2
<1>1. i - 1 \in config.start .. config.end /\ (i - 1) + 1 = i
  BY ConfigsAssumption
<1>2. QED
  BY <1>1 DEF ValidateCPUPinningConfig

LEMMA GuestThreads ==
    ASSUME cpus \in Topologies, NEW config \in Configs, ValidateCPUPinningConfig(config),
           config.ht, NEW i \in 1..Len(GuestCores(config))
    PROVE  Cardinality(GuestCores(config)[i]) >= 2
<1> DEFINE n == Len(GuestCores(config))
           L == CoreCount(config)
<1>1. /\ n \in Nat \ {0} /\ (n = L \/ n = L - 1)
      /\ config.start \in Nat /\ config.end \in Nat
      /\ \A j \in 1..n : GuestCores(config)[j] =
                            GetPhysicalCores(config.socket)[config.start + j]
  BY Plan
<1>2. i \in 1..n
  OBVIOUS
<1>3. L = config.end - config.start + 1 /\ L \in Int
  BY <1>1 DEF CoreCount
<1> HIDE DEF n, L
<1>a. i \in Nat \ {0} /\ i <= L
  BY <1>1, <1>2, <1>3
<1>b. /\ config.start + i \in Int /\ config.start < config.start + i
      /\ config.start + i <= config.end + 1
  BY <1>1, <1>3, <1>a
<1>4. Cardinality(GetPhysicalCores(config.socket)[config.start + i]) >= 2
  BY <1>b, Threads
<1>5. QED
  BY <1>1, <1>2, <1>4

(* All the threads of a wide core: more pins than a plan's topology has    *)
(* room for.                                                               *)
LEMMA WidePins ==
    ASSUME cpus \in Topologies, NEW config \in Configs, ValidateCPUPinningConfig(config),
           TooWide(config)
    PROVE  /\ AllPins(config) \in Seq(DOMAIN cpus)
           /\ Len(AllPins(config)) > 2 * Len(GuestCores(config))
<1> DEFINE cores == GuestCores(config)
           n == Len(cores)
<1>1. n \in Nat \ {0} /\ cores \in [1..n -> CoresIn(cpus, config.socket)]
  BY Plan
<1>2. config.ht /\ AllPins(config) = buildPinsFromPhysicalCores(cores, TRUE)
  BY ConfigsAssumption DEF TooWide, AllPins
<1>3. \A i \in 1..n : Cardinality(cores[i]) >= 2
  BY <1>2, GuestThreads
<1>4. PICK i \in 1..n : Cardinality(cores[i]) > 2
  <2>1. PICK core \in Range(cores) : Cardinality(core) > 2
    BY DEF TooWide
  <2>2. DOMAIN cores = 1..n
    BY <1>1
  <2>3. QED
    BY <2>1, <2>2 DEF Range
<1> HIDE DEF cores, n
<1>5. QED
  BY <1>1, <1>2, <1>3, <1>4, BuiltMore DEF cores, n

(* The guest's pins, from the first selected core on.                      *)
LEMMA GuestPins ==
    ASSUME cpus \in Topologies, NEW config \in Configs, ValidateCPUPinningConfig(config),
           ~TooWide(config)
    PROVE  LET pins == AllPins(config)
               n == Len(GuestCores(config))
               P == GetPhysicalCores(config.socket)
           IN  /\ pins \in Seq(DOMAIN cpus)
               /\ Len(pins) = IF config.ht THEN 2 * n ELSE n
               /\ \A v \in 1..Len(pins) :
                    /\ CoreOfPin(v, config.ht) \in 1..n
                    /\ pins[v] \in P[config.start + CoreOfPin(v, config.ht)]
               /\ \A i \in 1..n : \E v \in 1..Len(pins) : pins[v] \in P[config.start + i]
<1> DEFINE s == config.socket
           P == GetPhysicalCores(s)
           cores == GuestCores(config)
           n == Len(cores)
<1>1. /\ n \in Nat \ {0} /\ cores \in [1..n -> CoresIn(cpus, s)]
      /\ \A i \in 1..n : cores[i] = P[config.start + i]
      /\ config.start \in Nat /\ config.end \in Nat
      /\ n <= config.end - config.start + 1
  BY Plan DEF CoreCount
<1>2. config.ht \in BOOLEAN
  BY ConfigsAssumption
<1>3. config.ht => \A i \in 1..n : Cardinality(cores[i]) = 2
  <2> SUFFICES ASSUME config.ht, NEW i \in 1..n PROVE Cardinality(cores[i]) = 2
    OBVIOUS
  <2>1. Cardinality(cores[i]) >= 2
    BY GuestThreads
  <2>2. cores[i] \in Range(cores) /\ cores[i] \in CoresIn(cpus, s)
    BY <1>1 DEF Range
  <2>3. ~(Cardinality(cores[i]) > 2)
    BY <2>2 DEF TooWide
  <2>4. Cardinality(cores[i]) \in Nat
    BY <2>2, CoreNumbers
  <2>5. QED
    BY <2>1, <2>3, <2>4
<1> HIDE DEF n, P, cores
<1>4. PinsOf(cores, n, config.ht, buildPinsFromPhysicalCores(cores, config.ht))
  BY <1>1, <1>2, <1>3, BuiltPins
<1>5. AllPins(config) = buildPinsFromPhysicalCores(cores, config.ht)
  BY DEF AllPins, cores
<1>6. QED
  BY <1>1, <1>4, <1>5 DEF n, P, cores, PinsOf

(* The CPUs of QEMU's threads on a core of their own.                      *)
LEMMA OneCore ==
    ASSUME cpus \in Topologies, NEW s, NEW cores \in [1..1 -> CoresIn(cpus, s)],
           NEW ht \in BOOLEAN, ht => Cardinality(cores[1]) >= 2
    PROVE  LET on == Range(buildPinsFromPhysicalCores(cores, ht))
           IN  on # {} /\ on \subseteq cores[1] /\ on \subseteq DOMAIN cpus
<1> DEFINE pins == buildPinsFromPhysicalCores(cores, ht)
           f == [i \in 1..1 |-> Used(cores[i], ht)]
           g == [i \in 1..1 |-> f[i]]
<1>1. cores[1] \in CoresIn(cpus, s) /\ DOMAIN cores = 1..1 /\ 1 \in 1..1
  OBVIOUS
<1>2. /\ cores[1] \subseteq DOMAIN cpus
      /\ Cardinality(cores[1]) \in Nat \ {0} /\ Min(cores[1]) \in cores[1]
  BY <1>1, CoreTypes, CoreNumbers, UsedTypes
<1>3. pins = Used(cores[1], ht)
  <2>1. Len(f) = 1 /\ \A i \in 1..1 : i = 1
    OBVIOUS
  <2>2. Unfolds(1, f, g)
    BY <2>1 DEF Unfolds
  <2>3. 1 \in Nat \ {0}
    OBVIOUS
  <2>4. FlattenSeq(f) = g[1]
    BY <2>2, <2>3, Flattening
  <2>5. QED
    BY <1>1, <2>4 DEF buildPinsFromPhysicalCores
<1> HIDE DEF f, g
<1>4. CASE ht
  <2>1. pins \in [1..Cardinality(cores[1]) -> cores[1]]
    BY <1>1, <1>3, <1>4, UsedTypes
  <2>2. 1 \in 1..Cardinality(cores[1])
    BY <1>2
  <2> HIDE DEF pins
  <2>3. QED
    BY <1>2, <2>1, <2>2 DEF Range, pins
<1>5. CASE ~ht
  <2>1. pins = <<Min(cores[1])>>
    BY <1>1, <1>3, <1>5, UsedTypes
  <2> HIDE DEF pins
  <2>2. QED
    BY <1>2, <2>1 DEF Range, pins
<1>6. QED
  BY <1>4, <1>5

(* QEMU's threads: on the last selected core, and on others only when so   *)
(* few were selected that the guest has it too.                            *)
LEMMA EmulatorPins ==
    ASSUME cpus \in Topologies, NEW config \in Configs, ValidateCPUPinningConfig(config),
           ~TooWide(config)
    PROVE  LET on == EmulatorCPUs(config)
               P == GetPhysicalCores(config.socket)
           IN  /\ on \subseteq DOMAIN cpus /\ on \subseteq Nat /\ IsFiniteSet(on)
               /\ \A c \in on : \E i \in 1..CoreCount(config) : c \in P[config.start + i]
               /\ \E c \in on : c \in P[config.end + 1]
               /\ CoreCount(config) >= 4 =>
                    /\ \A c \in on : c \in P[config.end + 1]
                    /\ Len(GuestCores(config)) = CoreCount(config) - 1
<1> DEFINE s == config.socket
           P == GetPhysicalCores(s)
           n == Len(GuestCores(config))
           on == EmulatorCPUs(config)
           D == DOMAIN cpus
<1>1. config.start \in Nat /\ config.end \in Nat /\ config.start <= config.end
  BY Plan
<1>a. CoreCount(config) \in Nat \ {0} /\ config.start + CoreCount(config) = config.end + 1
  BY <1>1 DEF CoreCount
<1>2. D \subseteq Nat /\ IsFiniteSet(D)
  BY TopologyAssumption
<1>3. CASE n = CoreCount(config) /\ CoreCount(config) < 4 /\ EmulatorCores(config) = <<>>
  <2> DEFINE pins == AllPins(config)
  <2>1. on = {pins[v] : v \in DOMAIN pins}
    BY <1>3 DEF EmulatorCPUs, Range, AllPins
  <2>2. /\ pins \in Seq(D)
        /\ \A v \in 1..Len(pins) :
                /\ CoreOfPin(v, config.ht) \in 1..n
                /\ pins[v] \in P[config.start + CoreOfPin(v, config.ht)]
        /\ \A i \in 1..n : \E v \in 1..Len(pins) : pins[v] \in P[config.start + i]
    BY GuestPins
  <2> HIDE DEF on, pins, D, P, n
  <2>3. DOMAIN pins = 1..Len(pins) /\ \A v \in 1..Len(pins) : pins[v] \in D
    BY <2>2, LenProperties, ElementOfSeq
  <2>4. on \subseteq D
    BY <2>1, <2>3
  <2>5. on \subseteq Nat /\ IsFiniteSet(on)
    BY <1>2, <2>4, FS_Subset
  <2>6. \A c \in on : \E i \in 1..CoreCount(config) : c \in P[config.start + i]
    BY <1>3, <2>1, <2>2, <2>3
  <2>7. n \in 1..n /\ config.start + n = config.end + 1
    BY <1>3, <1>a
  <2>8. \E v \in 1..Len(pins) : pins[v] \in P[config.end + 1]
    BY <2>2, <2>7
  <2>9. \E c \in on : c \in P[config.end + 1]
    BY <2>1, <2>3, <2>8
  <2>10. ~(CoreCount(config) >= 4)
    BY <1>3, <1>a
  <2>11. QED
    BY <2>4, <2>5, <2>6, <2>9, <2>10 DEF on, D, P
<1>4. CASE /\ n = CoreCount(config) - 1 /\ CoreCount(config) >= 4
           /\ EmulatorCores(config) \in [1..1 -> CoresIn(cpus, s)]
           /\ EmulatorCores(config)[1] = P[config.end + 1]
           /\ EmulatorCores(config) # <<>>
  <2> DEFINE cores == EmulatorCores(config)
  <2>1. on = Range(buildPinsFromPhysicalCores(cores, config.ht))
    BY <1>4 DEF EmulatorCPUs
  <2>2. config.ht => Cardinality(cores[1]) >= 2
    <3> SUFFICES ASSUME config.ht PROVE Cardinality(P[config.end + 1]) >= 2
      BY <1>4
    <3>1. config.start < config.end + 1 /\ config.end + 1 <= config.end + 1
          /\ config.end + 1 \in Int
      BY <1>1
    <3>2. QED
      BY <3>1, Threads
  <2>3. /\ config.ht \in BOOLEAN /\ cores \in [1..1 -> CoresIn(cpus, s)]
        /\ cores[1] = P[config.end + 1]
    BY <1>4, ConfigsAssumption
  <2> HIDE DEF on, P, cores
  <2>4. on # {} /\ on \subseteq P[config.end + 1] /\ on \subseteq D
    BY <2>1, <2>2, <2>3, OneCore
  <2>5. on \subseteq Nat /\ IsFiniteSet(on)
    BY <1>2, <2>4, FS_Subset
  <2>6. CoreCount(config) \in 1..CoreCount(config)
    BY <1>a
  <2>7. \A c \in on : \E i \in 1..CoreCount(config) : c \in P[config.start + i]
    BY <1>a, <2>4, <2>6
  <2>8. QED
    BY <1>4, <2>4, <2>5, <2>7 DEF on, P
<1>5. QED
  BY <1>3, <1>4, Plan

(* In any plan they are on CPUs of the host.                               *)
LEMMA EmulatorOnHost ==
    ASSUME cpus \in Topologies, NEW config \in Configs, ValidateCPUPinningConfig(config),
           TooWide(config)
    PROVE  EmulatorCPUs(config) \subseteq DOMAIN cpus
<1> DEFINE on == EmulatorCPUs(config)
           D == DOMAIN cpus
           s == config.socket
<1>1. CASE EmulatorCores(config) = <<>>
  <2> DEFINE pins == AllPins(config)
  <2>1. on = Range(pins)
    BY <1>1 DEF EmulatorCPUs, AllPins
  <2>2. pins \in Seq(D)
    BY WidePins
  <2> HIDE DEF on, pins, D
  <2>3. \A v \in DOMAIN pins : pins[v] \in D
    BY <2>2, LenProperties, ElementOfSeq
  <2>4. QED
    BY <2>1, <2>3 DEF Range, on, D
<1>2. CASE /\ EmulatorCores(config) \in [1..1 -> CoresIn(cpus, s)]
           /\ EmulatorCores(config)[1] = GetPhysicalCores(s)[config.end + 1]
           /\ EmulatorCores(config) # <<>>
  <2> DEFINE cores == EmulatorCores(config)
  <2>1. on = Range(buildPinsFromPhysicalCores(cores, config.ht))
    BY <1>2 DEF EmulatorCPUs
  <2>2. config.ht => Cardinality(cores[1]) >= 2
    <3>1. config.start < config.end + 1 /\ config.end + 1 <= config.end + 1
          /\ config.end + 1 \in Int
      BY Plan
    <3>2. QED
      BY <1>2, <3>1, Threads
  <2>3. config.ht \in BOOLEAN /\ cores \in [1..1 -> CoresIn(cpus, s)]
    BY <1>2, ConfigsAssumption
  <2> HIDE DEF on, cores
  <2>4. QED
    BY <2>1, <2>2, <2>3, OneCore DEF on
<1>3. QED
  BY <1>1, <1>2, Plan

-----------------------------------------------------------------------------
(* A definition that libvirt may hold.  Its pins are the first of those    *)
(* that were asked for: EditVm may have dropped the last ones.             *)
Definitions ==
    [vcpus: Nat \ {0}, topology: GuestTopologies,
     pins: Seq(DOMAIN cpus), emulator: SUBSET (Nat \X Nat),
     asked: Seq(Configs), since: SUBSET {"EditVm", "UpdateVMCPUXml"}]

PinnedBy(d, config) ==
    /\ ValidateCPUPinningConfig(config) /\ ~TooWide(config)
    /\ d.asked = <<config>>
    /\ d.emulator = formatCPUSet(EmulatorCPUs(config))
    /\ Len(d.pins) \in 1..Len(AllPins(config)) /\ Len(d.pins) <= d.vcpus
    /\ \A v \in 1..Len(d.pins) : d.pins[v] = AllPins(config)[v]
    /\ "UpdateVMCPUXml" \notin d.since => (d.topology.threads >= 2 => config.ht)
    /\ d.since = {} => (d.topology.threads >= 2 <=> config.ht)

NotPinned(d) == d.pins = <<>> /\ d.asked = <<>> /\ d.emulator = {}

DefInv(d) ==
    /\ d \in Definitions
    /\ NotPinned(d) \/ \E config \in Configs : PinnedBy(d, config)

(* A plan of more pins than its topology has room for: libvirt refuses it. *)
Refused(d) ==
    \E config \in Configs : /\ ValidateCPUPinningConfig(config) /\ TooWide(config)
                            /\ d = Pinned(config)

Steps == {"idle", "edit", "replace", "define", "redefine", "clear", "set"}

StepInv(k) ==
    /\ k.step \in Steps
    /\ k.step = "edit" => k.vcpus \in Nat \ {0}
    /\ k.step = "replace" => DefInv(k.xml) /\ k.block \in GuestTopologies
    /\ k.step = "redefine" => DefInv(k.xml)
    /\ k.step = "define" => (DefInv(k.xml) /\ Fits(k.xml)) \/ Refused(k.xml)

PinningInv ==
    /\ requests \in 0..MaxRequests
    /\ DefInv(def)
    /\ \A h \in Handlers : StepInv(task[h])

LEMMA MachineDef ==
    ASSUME NEW n \in Nat \ {0}, NEW t \in GuestTopologies
    PROVE  DefInv(Machine(n, t))
<1>1. <<>> \in Seq(DOMAIN cpus) /\ <<>> \in Seq(Configs)
  BY EmptySeq
<1>2. QED
  BY <1>1 DEF Machine, DefInv, Definitions, NotPinned

LEMMA OneSocketType ==
    ASSUME NEW c \in Nat \ {0}, NEW t \in Nat \ {0}
    PROVE  /\ Topology(c, t) \in GuestTopologies
           /\ Topology(c, t).threads = t /\ 1 * c * t = c * t
           /\ \A d : d.topology = Topology(c, t) /\ d.vcpus = c * t => Fits(d)
<1>1. /\ Topology(c, t) = [sockets |-> 1, cores |-> c, threads |-> t]
      /\ Topology(c, t).sockets = 1 /\ Topology(c, t).cores = c
      /\ Topology(c, t).threads = t /\ 1 * c * t = c * t
  BY DEF Topology
<1>2. QED
  BY <1>1 DEF GuestTopologies, Fits

LEMMA PinnedDef ==
    ASSUME cpus \in Topologies, NEW config \in Configs, ValidateCPUPinningConfig(config),
           ~TooWide(config)
    PROVE  DefInv(Pinned(config)) /\ Fits(Pinned(config))
<1> DEFINE pins == AllPins(config)
           n == Len(GuestCores(config))
           E == EmulatorCPUs(config)
           d == Pinned(config)
           t == IF config.ht THEN 2 ELSE 1
<1>1. n \in Nat \ {0}
  BY Plan
<1>2. config.ht \in BOOLEAN
  BY ConfigsAssumption
<1>3. pins \in Seq(DOMAIN cpus) /\ Len(pins) = IF config.ht THEN 2 * n ELSE n
  BY GuestPins
<1>4. formatCPUSet(E) \in SUBSET (Nat \X Nat)
  BY EmulatorPins DEF formatCPUSet
<1>5. <<config>> \in Seq(Configs)
  OBVIOUS
<1>6. d = [vcpus |-> Len(pins), topology |-> Topology(n, t),
           pins |-> pins, emulator |-> formatCPUSet(E), asked |-> <<config>>,
           since |-> {}]
  BY DEF Pinned, AllPins
<1>7. t \in Nat \ {0} /\ (t >= 2 <=> config.ht)
  BY <1>2
<1>8. Len(pins) = n * t /\ Len(pins) \in Nat \ {0}
  <2>1. CASE config.ht
    BY <1>1, <1>3, <2>1
  <2>2. CASE ~config.ht
    BY <1>1, <1>3, <2>2
  <2>3. QED
    BY <1>2, <2>1, <2>2
<1> HIDE DEF pins, n, E, d, t
<1>9. Topology(n, t) \in GuestTopologies /\ Topology(n, t).threads = t
  BY <1>1, <1>7, OneSocketType
<1>10. /\ d.vcpus = Len(pins) /\ d.topology = Topology(n, t) /\ d.pins = pins
       /\ d.emulator = formatCPUSet(E) /\ d.asked = <<config>> /\ d.since = {}
       /\ d \in Definitions
  BY <1>3, <1>4, <1>5, <1>6, <1>8, <1>9 DEF Definitions
<1>11. Fits(d)
  <2>1. \A q : q.topology = Topology(n, t) /\ q.vcpus = n * t => Fits(q)
    BY <1>1, <1>7, OneSocketType
  <2>2. d.topology = Topology(n, t) /\ d.vcpus = n * t
    BY <1>8, <1>10
  <2>3. QED
    BY <2>1, <2>2
<1>12. PinnedBy(d, config)
  <2>1. Len(pins) \in 1..Len(pins) /\ Len(pins) <= Len(pins)
    BY <1>8
  <2>2. d.topology.threads >= 2 <=> config.ht
    BY <1>7, <1>9, <1>10
  <2>3. QED
    BY <1>10, <2>1, <2>2 DEF PinnedBy, pins, E
<1>13. QED
  BY <1>10, <1>11, <1>12 DEF DefInv, d

(* A plan with hyperthreading of a core that has more than two threads.    *)
LEMMA RefusedDef ==
    ASSUME cpus \in Topologies, NEW d, Refused(d)
    PROVE  ~Fits(d)
<1>1. PICK config \in Configs : /\ ValidateCPUPinningConfig(config)
                                /\ TooWide(config) /\ d = Pinned(config)
  BY DEF Refused
<1> DEFINE n == Len(GuestCores(config))
           l == Len(AllPins(config))
<1>2. n \in Nat \ {0}
  BY <1>1, Plan
<1>3. AllPins(config) \in Seq(DOMAIN cpus) /\ l > 2 * n
  BY <1>1, WidePins
<1>4. l \in Nat
  BY <1>3, LenProperties
<1>5. config.ht
  BY <1>1 DEF TooWide
<1>6. /\ d.vcpus = l /\ d.topology.sockets = 1 /\ d.topology.cores = n
      /\ d.topology.threads = 2
  BY <1>1, <1>5 DEF Pinned, AllPins, Topology
<1> HIDE DEF n, l
<1>7. d.vcpus # d.topology.sockets * d.topology.cores * d.topology.threads
  <2>1. 1 * n * 2 = 2 * n
    BY <1>2
  <2>2. QED
    BY <1>2, <1>3, <1>4, <1>6, <2>1
<1>8. d.topology # NoTopology
  BY <1>6 DEF NoTopology
<1>9. QED
  BY <1>7, <1>8 DEF Fits

LEMMA UnpinnedDef ==
    ASSUME NEW d, DefInv(d)
    PROVE  DefInv(Unpinned(d)) /\ Fits(Unpinned(d))
<1> DEFINE n == d.vcpus
           u == Unpinned(d)
<1>1. n \in Nat \ {0}
  BY DEF DefInv, Definitions
<1>2. u = Machine(n, Topology(n, 1)) /\ u.vcpus = n /\ u.topology = Topology(n, 1)
  BY DEF Unpinned, Machine
<1> HIDE DEF n, u
<1>3. Topology(n, 1) \in GuestTopologies /\ n = n * 1
  BY <1>1, OneSocketType
<1>4. Fits(u)
  BY <1>1, <1>2, <1>3, OneSocketType
<1>5. QED
  BY <1>1, <1>2, <1>3, <1>4, MachineDef DEF u

(* An edited topology multiplies to the count that was asked for.          *)
LEMMA EditedTopologyFits ==
    ASSUME NEW t \in GuestTopologies, NEW n \in Nat \ {0}
    PROVE  LET e == EditedTopology(t, n)
           IN  /\ e \in GuestTopologies
               /\ n = e.sockets * e.cores * e.threads
               /\ e.threads >= 2 => t.threads >= 2
<1> DEFINE e == EditedTopology(t, n)
<1>1. CASE t # NoTopology /\ n % (t.sockets * t.threads) = 0
  <2>1. t \in [sockets: Nat \ {0}, cores: Nat \ {0}, threads: Nat \ {0}]
    BY <1>1 DEF GuestTopologies
  <2> DEFINE a == t.sockets
             b == t.threads
             f == a * b
             q == n \div f
  <2>2. a \in Nat \ {0} /\ b \in Nat \ {0}
    BY <2>1
  <2>3. e = [t EXCEPT !.cores = q]
    BY <1>1 DEF EditedTopology
  <2>4. n % f = 0
    BY <1>1
  <2> HIDE DEF a, b
  <2>5. f \in Nat \ {0}
    BY <2>2
  <2> HIDE DEF f
  <2>6. q \in Nat /\ n = f * q
    BY <2>4, <2>5
  <2>7. q # 0
    <3> SUFFICES ASSUME q = 0 PROVE FALSE
      OBVIOUS
    <3>1. f * 0 = 0
      BY <2>5
    <3>2. QED
      BY <2>6, <3>1
  <2> HIDE DEF q
  <2>8. n = a * q * b
    <3>1. (a * b) * q = a * q * b
      BY <2>2, <2>6
    <3>2. QED
      BY <2>6, <3>1 DEF f
  <2>9. e.sockets = a /\ e.cores = q /\ e.threads = b
        /\ e \in [sockets: Nat \ {0}, cores: Nat \ {0}, threads: Nat \ {0}]
    BY <2>1, <2>3, <2>6, <2>7 DEF a, b
  <2>10. QED
    BY <2>8, <2>9 DEF GuestTopologies, b
<1>2. CASE ~(t # NoTopology /\ n % (t.sockets * t.threads) = 0)
  <2>1. e = Topology(n, 1)
    BY <1>2 DEF EditedTopology
  <2>2. Topology(n, 1) \in GuestTopologies
    BY OneSocketType
  <2>3. e.sockets = 1 /\ e.cores = n /\ e.threads = 1
    BY <2>1 DEF Topology
  <2> HIDE DEF e
  <2>4. n = 1 * n * 1 /\ ~(1 >= 2)
    OBVIOUS
  <2>5. QED
    BY <2>1, <2>2, <2>3, <2>4 DEF e
<1>3. QED
  BY <1>1, <1>2

(* An edit keeps the threads of a core only if the new count is a multiple *)
(* of them, and with the vCPUs drops the last pins.                        *)
LEMMA EditedDef ==
    ASSUME cpus \in Topologies, NEW d, DefInv(d), NEW n \in Nat \ {0}
    PROVE  DefInv(Edited(d, n)) /\ Fits(Edited(d, n))
<1> DEFINE t == EditedTopology(d.topology, n)
           m == Min({n, Len(d.pins)})
           pins == SubSeq(d.pins, 1, m)
           since == IF d.pins = <<>> THEN d.since ELSE d.since \cup {"EditVm"}
           e == Edited(d, n)
<1>1. d \in Definitions
  BY DEF DefInv
<1>2. /\ d.topology \in GuestTopologies /\ d.pins \in Seq(DOMAIN cpus)
      /\ Len(d.pins) \in Nat
      /\ d.emulator \in SUBSET (Nat \X Nat) /\ d.asked \in Seq(Configs)
  BY <1>1, LenProperties DEF Definitions
<1>3. /\ t \in GuestTopologies /\ n = t.sockets * t.cores * t.threads
      /\ t.threads >= 2 => d.topology.threads >= 2
  BY <1>2, EditedTopologyFits
<1>4. m = IF n <= Len(d.pins) THEN n ELSE Len(d.pins)
  <2>1. \A k \in {n, Len(d.pins)} : k \in Nat
    BY <1>2
  <2> DEFINE l == Len(d.pins)
  <2>2. l \in Nat
    BY <1>2
  <2> HIDE DEF l
  <2>3. Min({n, l}) \in {n, l} /\ \A k \in {n, l} : Min({n, l}) <= k
    <3>1. \E x \in {n, l} : \A y \in {n, l} : x <= y
      BY <2>2
    <3>2. QED
      BY <3>1 DEF Min
  <2>4. Min({n, l}) = IF n <= l THEN n ELSE l
    BY <2>2, <2>3
  <2>5. QED
    BY <2>4 DEF l
<1>5. e = [d EXCEPT !.vcpus = n, !.topology = t, !.pins = pins, !.since = since]
  BY <1>1 DEF Edited, Rewritten, Definitions
<1>6. /\ m \in 0..Len(d.pins) /\ m <= n /\ (Len(d.pins) >= 1 => m >= 1)
  BY <1>2, <1>4
<1> HIDE DEF m, t
<1>7. /\ pins \in Seq(DOMAIN cpus) /\ Len(pins) = m
      /\ \A v \in 1..m : pins[v] = d.pins[v]
  BY <1>2, <1>6, SubSeqProperties
<1>8. /\ since \in SUBSET {"EditVm", "UpdateVMCPUXml"}
      /\ d.pins # <<>> => "EditVm" \in since
      /\ "UpdateVMCPUXml" \in d.since => "UpdateVMCPUXml" \in since
  BY <1>1 DEF Definitions
<1> HIDE DEF pins, e, since
<1>9. /\ e.vcpus = n /\ e.topology = t /\ e.pins = pins /\ e.since = since
      /\ e.asked = d.asked /\ e.emulator = d.emulator /\ e \in Definitions
  BY <1>1, <1>2, <1>3, <1>5, <1>7, <1>8 DEF Definitions
<1>10. Fits(e)
  BY <1>3, <1>9 DEF Fits
<1>11. CASE NotPinned(d)
  <2>1. d.pins = <<>> /\ Len(d.pins) = 0
    BY <1>11, EmptySeq DEF NotPinned
  <2>2. pins = <<>>
    BY <1>2, <1>6, <1>7, <2>1, EmptySeq
  <2>3. NotPinned(e)
    BY <1>9, <1>11, <2>2 DEF NotPinned
  <2>4. QED
    BY <1>9, <1>10, <2>3 DEF DefInv, e
<1>12. ASSUME NEW config \in Configs, PinnedBy(d, config) PROVE DefInv(e)
  <2>1. /\ Len(d.pins) \in 1..Len(AllPins(config))
        /\ \A v \in 1..Len(d.pins) : d.pins[v] = AllPins(config)[v]
        /\ "UpdateVMCPUXml" \notin d.since => (d.topology.threads >= 2 => config.ht)
        /\ d.asked = <<config>> /\ d.emulator = formatCPUSet(EmulatorCPUs(config))
        /\ ValidateCPUPinningConfig(config) /\ ~TooWide(config)
    BY <1>12 DEF PinnedBy
  <2>2. Len(AllPins(config)) \in Nat
    BY <2>1, GuestPins, LenProperties
  <2>3. m \in 1..Len(d.pins) /\ m \in 1..Len(AllPins(config))
    BY <1>2, <1>6, <2>1, <2>2
  <2>4. \A v \in 1..m : v \in 1..Len(d.pins)
    BY <1>2, <2>3
  <2>5. \A v \in 1..m : pins[v] = AllPins(config)[v]
    BY <1>7, <2>1, <2>4
  <2>6. d.pins # <<>>
    BY <1>2, <2>1, EmptySeq
  <2>7. e.since # {}
    BY <1>8, <1>9, <2>6
  <2>8. "UpdateVMCPUXml" \notin e.since => (e.topology.threads >= 2 => config.ht)
    BY <1>3, <1>8, <1>9, <2>1
  <2>9. PinnedBy(e, config)
    BY <1>6, <1>7, <1>9, <2>1, <2>3, <2>5, <2>7, <2>8 DEF PinnedBy
  <2>10. QED
    BY <1>9, <2>9 DEF DefInv
<1>13. QED
  BY <1>10, <1>11, <1>12 DEF DefInv, e

(* A client's own <cpu> block changes nothing else.                        *)
LEMMA ReplacedDef ==
    ASSUME NEW d, DefInv(d), NEW t \in GuestTopologies
    PROVE  DefInv([Rewritten(d, "UpdateVMCPUXml") EXCEPT !.topology = t])
<1> DEFINE e == [Rewritten(d, "UpdateVMCPUXml") EXCEPT !.topology = t]
           since == IF d.pins = <<>> THEN d.since
                    ELSE d.since \cup {"UpdateVMCPUXml"}
<1>1. d \in Definitions
  BY DEF DefInv
<1>2. e = [d EXCEPT !.topology = t, !.since = since]
  BY <1>1 DEF Rewritten, Definitions
<1>3. /\ since \in SUBSET {"EditVm", "UpdateVMCPUXml"}
      /\ d.pins # <<>> => "UpdateVMCPUXml" \in since
  BY <1>1 DEF Definitions
<1> HIDE DEF e, since
<1>4. /\ e.topology = t /\ e.since = since /\ e.vcpus = d.vcpus /\ e.pins = d.pins
      /\ e.asked = d.asked /\ e.emulator = d.emulator /\ e \in Definitions
  BY <1>1, <1>2, <1>3 DEF Definitions
<1>5. CASE NotPinned(d)
  BY <1>4, <1>5 DEF NotPinned, DefInv, e
<1>6. ASSUME NEW config \in Configs, PinnedBy(d, config) PROVE PinnedBy(e, config)
  <2>1. d.pins # <<>>
    BY <1>6, EmptySeq DEF PinnedBy
  <2>2. QED
    BY <1>3, <1>4, <1>6, <2>1 DEF PinnedBy
<1>7. QED
  BY <1>4, <1>5, <1>6 DEF DefInv, e

(* What is said of a definition depends on the host alone.                 *)
LEMMA SameHost ==
    ASSUME UNCHANGED cpus
    PROVE  /\ \A d : DefInv(d)' <=> DefInv(d)
           /\ \A k : StepInv(k)' <=> StepInv(k)
<1>1. \A config : /\ ValidateCPUPinningConfig(config)' <=> ValidateCPUPinningConfig(config)
                  /\ GuestCores(config)' = GuestCores(config)
                  /\ EmulatorCPUs(config)' = EmulatorCPUs(config)
  BY DEF ValidateCPUPinningConfig, EmulatorCPUs, EmulatorCores, GuestCores,
         SelectedCores, GetPhysicalCores, Sockets
<1>2. \A config : /\ TooWide(config)' <=> TooWide(config)
                  /\ AllPins(config)' = AllPins(config)
                  /\ Pinned(config)' = Pinned(config)
  BY <1>1 DEF TooWide, AllPins, Pinned
<1>3. \A d : DefInv(d)' <=> DefInv(d)
  BY <1>1, <1>2 DEF DefInv, Definitions, NotPinned, PinnedBy
<1>4. \A d : Refused(d)' <=> Refused(d)
  BY <1>1, <1>2 DEF Refused
<1>5. QED
  BY <1>3, <1>4 DEF StepInv

(* A handler goes on; the definition of the machine is what it was.        *)
LEMMA PinningTask ==
    ASSUME IsolationInv, PinningInv, UNCHANGED <<cpus, def>>,
           requests' \in 0..MaxRequests,
           NEW h \in Handlers, NEW k, task' = [task EXCEPT ![h] = k],
           StepInv(k)
    PROVE  PinningInv'
<1>1. \A g \in Handlers : task'[g] = IF g = h THEN k ELSE task[g]
  BY DEF IsolationInv
<1>2. (\A d : DefInv(d)' <=> DefInv(d)) /\ \A g : StepInv(g)' <=> StepInv(g)
  BY SameHost
<1>3. \A g \in Handlers : StepInv(task[g])'
  BY <1>1, <1>2 DEF PinningInv
<1>4. QED
  BY <1>2, <1>3 DEF PinningInv

LEMMA PinningNext == IsolationInv /\ PinningInv /\ [Next]_vars => PinningInv'
<1> SUFFICES ASSUME IsolationInv, PinningInv, [Next]_vars PROVE PinningInv'
  OBVIOUS
<1>0. cpus' = cpus /\ cpus \in Topologies /\ requests \in 0..MaxRequests
  BY DEF vars, Next, ApplyCPUPinning, RemoveCPUPinning, EditVM, EditVm,
         UpdateVMCPUXml, GetVmCPUXML, UpdateVMXml,
         DomainDefineXML, SetHostCoreIsolation, RemoveHostCoreIsolation,
         clearHostCoreIsolationKernelArgs, SetKernelArgs, Fails, Reboot,
         UnchangedHost, IsolationInv, PinningInv
<1>a. (\A d : DefInv(d)' <=> DefInv(d)) /\ \A k : StepInv(k)' <=> StepInv(k)
  BY <1>0, SameHost
<1>b. requests < MaxRequests => requests + 1 \in 0..MaxRequests
  BY <1>0, RequestsAssumption
<1>c. StepInv(Idle)
  BY DEF Idle, StepInv, Steps
<1>1. CASE UNCHANGED vars
  BY <1>1, <1>a DEF vars, PinningInv
<1>2. ASSUME NEW h \in Handlers, ApplyCPUPinning(h) PROVE PinningInv'
  <2>1. PICK config \in Configs :
            /\ ValidateCPUPinningConfig(config)
            /\ Accept(h, [step |-> "define", xml |-> Pinned(config)])
    BY <1>2 DEF ApplyCPUPinning
  <2> DEFINE k == [step |-> "define", xml |-> Pinned(config)]
  <2>2. /\ task' = [task EXCEPT ![h] = k] /\ requests' \in 0..MaxRequests
        /\ UNCHANGED <<cpus, def>>
    BY <1>2, <1>b, <2>1 DEF ApplyCPUPinning, Accept, UnchangedHost
  <2>3. k.step = "define" /\ ((DefInv(k.xml) /\ Fits(k.xml)) \/ Refused(k.xml))
    BY <1>0, <2>1, PinnedDef DEF Refused
  <2> HIDE DEF k
  <2>4. QED
    BY <2>2, <2>3, PinningTask DEF StepInv, Steps
<1>3. ASSUME NEW h \in Handlers, RemoveCPUPinning(h) PROVE PinningInv'
  <2> DEFINE k == [step |-> "define", xml |-> Unpinned(def)]
  <2>1. /\ task' = [task EXCEPT ![h] = k] /\ requests' \in 0..MaxRequests
        /\ UNCHANGED <<cpus, def>>
    BY <1>3, <1>b DEF RemoveCPUPinning, Accept, UnchangedHost
  <2>2. k.step = "define" /\ DefInv(k.xml) /\ Fits(k.xml)
    BY UnpinnedDef DEF PinningInv
  <2> HIDE DEF k
  <2>3. QED
    BY <2>1, <2>2, PinningTask DEF StepInv, Steps
<1>4. ASSUME NEW h \in Handlers, EditVM(h) PROVE PinningInv'
  <2>1. PICK n \in VcpuCounts \cup {def.vcpus} :
            Accept(h, [step |-> "edit", vcpus |-> n])
    BY <1>4 DEF EditVM
  <2> DEFINE k == [step |-> "edit", vcpus |-> n]
  <2>2. /\ task' = [task EXCEPT ![h] = k] /\ requests' \in 0..MaxRequests
        /\ UNCHANGED <<cpus, def>>
    BY <1>4, <1>b, <2>1 DEF EditVM, Accept, UnchangedHost
  <2>3. n \in Nat \ {0}
    BY VcpusAssumption DEF PinningInv, DefInv, Definitions
  <2>4. k.step = "edit" /\ k.vcpus \in Nat \ {0}
    BY <2>3
  <2> HIDE DEF k
  <2>5. QED
    BY <2>2, <2>4, PinningTask DEF StepInv, Steps
<1>5. ASSUME NEW h \in Handlers, EditVm(h) PROVE PinningInv'
  <2> DEFINE n == task[h].vcpus
             k == [step |-> "define", xml |-> Edited(def, n)]
  <2>1. /\ task' = [task EXCEPT ![h] = k] /\ requests' \in 0..MaxRequests
        /\ UNCHANGED <<cpus, def>>
    BY <1>5, <1>0 DEF EditVm, UnchangedHost, IsolationInv
  <2>2. n \in Nat \ {0} /\ DefInv(def)
    BY <1>5 DEF EditVm, PinningInv, StepInv
  <2> HIDE DEF n
  <2>3. k.step = "define" /\ DefInv(k.xml) /\ Fits(k.xml)
    BY <1>0, <2>2, EditedDef
  <2> HIDE DEF k
  <2>4. QED
    BY <2>1, <2>3, PinningTask DEF StepInv, Steps
<1>6. ASSUME NEW h \in Handlers, DomainDefineXML(h) PROVE PinningInv'
  <2>1. /\ DefInv(task[h].xml) /\ def' = task[h].xml /\ requests' = requests
        /\ task' = [task EXCEPT ![h] = Idle]
    <3>1. task[h].step \in {"define", "redefine"} /\ Fits(task[h].xml)
      BY <1>6 DEF DomainDefineXML
    <3>2. DefInv(task[h].xml)
      BY <1>0, <3>1, RefusedDef DEF PinningInv, StepInv
    <3>3. QED
      BY <1>6, <3>2 DEF DomainDefineXML, Done
  <2>2. \A g \in Handlers : task'[g] = IF g = h THEN Idle ELSE task[g]
    BY <2>1 DEF IsolationInv
  <2>3. QED
    BY <1>0, <1>a, <1>c, <2>1, <2>2 DEF PinningInv
<1>7. ASSUME NEW h \in Handlers,
             \/ SetHostCoreIsolation(h) \/ RemoveHostCoreIsolation(h)
             \/ clearHostCoreIsolationKernelArgs(h) \/ SetKernelArgs(h) \/ Fails(h)
      PROVE  PinningInv'
  <2>1. /\ UNCHANGED <<cpus, def>> /\ requests' \in 0..MaxRequests
        /\ \E k : /\ task' = [task EXCEPT ![h] = k]
                  /\ k.step \in {"idle", "clear", "set"}
    <3>0. ASSUME NEW q, Accept(h, [step |-> "clear", then |-> q])
          PROVE  /\ requests' \in 0..MaxRequests
                 /\ \E k : /\ task' = [task EXCEPT ![h] = k]
                          /\ k.step \in {"idle", "clear", "set"}
      <4> DEFINE k == [step |-> "clear", then |-> q]
      <4>1. k.step = "clear" /\ task' = [task EXCEPT ![h] = k]
        BY <3>0 DEF Accept
      <4> HIDE DEF k
      <4>2. requests' \in 0..MaxRequests
        BY <3>0, <1>b DEF Accept
      <4>3. QED
        BY <4>1, <4>2
    <3>1. CASE SetHostCoreIsolation(h)
      <4>1. PICK sel \in Selections : Accept(h, [step |-> "clear", then |-> <<sel>>])
        BY <3>1 DEF SetHostCoreIsolation
      <4>2. UNCHANGED <<cpus, def>>
        BY <3>1 DEF SetHostCoreIsolation, UnchangedHost
      <4>3. QED
        BY <4>1, <4>2, <3>0
    <3>2. CASE RemoveHostCoreIsolation(h)
      BY <3>2, <3>0 DEF RemoveHostCoreIsolation, UnchangedHost
    <3>3. CASE clearHostCoreIsolationKernelArgs(h)
      BY <3>3, <1>0 DEF clearHostCoreIsolationKernelArgs, Done, Idle
    <3>4. CASE SetKernelArgs(h) \/ Fails(h)
      BY <3>4, <1>0 DEF SetKernelArgs, Fails, Done, Idle, UnchangedHost
    <3>5. QED
      BY <1>7, <3>1, <3>2, <3>3, <3>4
  <2>2. QED
    BY <2>1, PinningTask DEF StepInv, Steps
<1>8. CASE Reboot
  BY <1>8, <1>a, <1>c DEF Reboot, PinningInv
<1>9. ASSUME NEW h \in Handlers, UpdateVMCPUXml(h) PROVE PinningInv'
  <2>1. PICK block \in Blocks :
            Accept(h, [step |-> "replace", xml |-> def, block |-> block])
    BY <1>9 DEF UpdateVMCPUXml
  <2> DEFINE k == [step |-> "replace", xml |-> def, block |-> block]
  <2>2. /\ task' = [task EXCEPT ![h] = k] /\ requests' \in 0..MaxRequests
        /\ UNCHANGED <<cpus, def>>
    BY <1>9, <1>b, <2>1 DEF UpdateVMCPUXml, Accept, UnchangedHost
  <2>3. k.step = "replace" /\ DefInv(k.xml) /\ k.block \in GuestTopologies
    BY BlocksAssumption DEF PinningInv
  <2> HIDE DEF k
  <2>4. QED
    BY <2>2, <2>3, PinningTask DEF StepInv, Steps
<1>10. ASSUME NEW h \in Handlers, GetVmCPUXML(h) PROVE PinningInv'
  <2> DEFINE old == task[h].xml
             new == [Rewritten(old, "UpdateVMCPUXml") EXCEPT
                        !.topology = task[h].block]
             xml == IF def.topology = old.topology THEN new ELSE old
             k == [step |-> "redefine", xml |-> xml]
  <2>1. /\ task' = [task EXCEPT ![h] = k] /\ requests' \in 0..MaxRequests
        /\ UNCHANGED <<cpus, def>>
    BY <1>10, <1>0 DEF GetVmCPUXML, UnchangedHost
  <2>2. DefInv(old) /\ task[h].block \in GuestTopologies
    BY <1>10 DEF GetVmCPUXML, PinningInv, StepInv
  <2>3. DefInv(new)
    BY <2>2, ReplacedDef
  <2>4. k.step = "redefine" /\ DefInv(k.xml)
    BY <2>2, <2>3
  <2> HIDE DEF k
  <2>5. QED
    BY <2>1, <2>4, PinningTask DEF StepInv, Steps
<1>11. ASSUME NEW h \in Handlers, UpdateVMXml(h) PROVE PinningInv'
  <2>1. PICK xml \in Composed \cup {def} :
            Accept(h, [step |-> "redefine", xml |-> xml])
    BY <1>11 DEF UpdateVMXml
  <2> DEFINE k == [step |-> "redefine", xml |-> xml]
  <2>2. /\ task' = [task EXCEPT ![h] = k] /\ requests' \in 0..MaxRequests
        /\ UNCHANGED <<cpus, def>>
    BY <1>11, <1>b, <2>1 DEF UpdateVMXml, Accept, UnchangedHost
  <2>3. DefInv(xml)
    BY <2>1, MachineDef, BlocksAssumption, VcpusAssumption DEF Composed, PinningInv
  <2>4. k.step = "redefine" /\ DefInv(k.xml)
    BY <2>3
  <2> HIDE DEF k
  <2>5. QED
    BY <2>2, <2>4, PinningTask DEF StepInv, Steps
<1>12. QED
  BY <1>1, <1>2, <1>3, <1>4, <1>5, <1>6, <1>7, <1>8, <1>9, <1>10, <1>11 DEF Next

LEMMA PinningInit == Init => PinningInv
<1> SUFFICES ASSUME Init PROVE PinningInv
  OBVIOUS
<1>1. DefInv(def)
  <2>1. PICK n \in VcpuCounts, t \in Blocks : def = Fresh(n, t)
    BY DEF Init
  <2>2. n \in Nat \ {0} /\ t \in GuestTopologies
    BY VcpusAssumption, BlocksAssumption
  <2>3. Topology(n, 1) \in GuestTopologies
    BY <2>2, OneSocketType
  <2>4. QED
    BY <2>1, <2>2, <2>3, MachineDef DEF Fresh
<1>2. StepInv(Idle)
  BY DEF Idle, StepInv, Steps
<1>3. 0 \in 0..MaxRequests
  BY RequestsAssumption
<1>4. QED
  BY <1>1, <1>2, <1>3 DEF Init, PinningInv

-----------------------------------------------------------------------------
(* What follows of the definition of the machine.                          *)

LEMMA WrittenList ==
    ASSUME cpus \in Topologies, NEW S, S \subseteq DOMAIN cpus
    PROVE  IsList(formatCPUSet(S)) /\ expandCPUList(formatCPUSet(S)) = S
<1>1. S \subseteq Nat /\ IsFiniteSet(S)
  BY TopologyAssumption, FS_Subset
<1>2. expandCPUList(formatCPUSet(S)) = S
  BY <1>1, ListRoundTrip
<1>3. \A r \in formatCPUSet(S) : r[1] <= r[2]
  BY DEF formatCPUSet
<1>4. QED
  BY <1>2, <1>3 DEF IsList

LEMMA DefType == ASSUME cpus \in Topologies, NEW d, DefInv(d) PROVE IsDefinition(d)
<1>1. d \in Definitions
  BY DEF DefInv
<1>2. /\ d.vcpus \in Nat \ {0} /\ d.topology \in GuestTopologies
      /\ d.since \subseteq {"EditVm", "UpdateVMCPUXml"}
      /\ d.pins \in Seq(DOMAIN cpus) /\ d.vcpus \in Nat
  BY <1>1 DEF Definitions
<1>3. Range(d.pins) \subseteq DOMAIN cpus
  <2>1. \A v \in DOMAIN d.pins : d.pins[v] \in DOMAIN cpus
    BY <1>2, LenProperties, ElementOfSeq
  <2>2. QED
    BY <2>1 DEF Range
<1>4. CASE NotPinned(d)
  <2>1. IsList({})
    BY DEF IsList, expandCPUList
  <2>2. Len(d.pins) = 0 /\ d.emulator = {} /\ d.pins = <<>> /\ d.asked = <<>>
    BY <1>4, EmptySeq DEF NotPinned
  <2>3. QED
    BY <1>2, <1>3, <2>1, <2>2 DEF IsDefinition
<1>5. ASSUME NEW config \in Configs, PinnedBy(d, config) PROVE IsDefinition(d)
  <2>1. /\ ValidateCPUPinningConfig(config) /\ ~TooWide(config)
        /\ d.asked = <<config>> /\ Len(d.pins) <= d.vcpus /\ Len(d.pins) \in 1..Len(AllPins(config))
        /\ d.emulator = formatCPUSet(EmulatorCPUs(config))
    BY <1>5 DEF PinnedBy
  <2>2. EmulatorCPUs(config) \subseteq DOMAIN cpus
    BY <2>1, EmulatorPins
  <2>3. IsList(d.emulator)
    BY <2>1, <2>2, WrittenList
  <2>4. d.pins # <<>> /\ d.asked # <<>>
    BY <2>1, EmptySeq
  <2>5. QED
    BY <1>2, <1>3, <2>1, <2>3, <2>4 DEF IsDefinition
<1>6. QED
  BY <1>4, <1>5 DEF DefInv

LEMMA RefusedType == ASSUME cpus \in Topologies, NEW d, Refused(d) PROVE IsDefinition(d)
<1>1. PICK config \in Configs : /\ ValidateCPUPinningConfig(config)
                                /\ TooWide(config) /\ d = Pinned(config)
  BY DEF Refused
<1> DEFINE n == Len(GuestCores(config))
           pins == AllPins(config)
           E == EmulatorCPUs(config)
<1>2. n \in Nat \ {0} /\ config.ht
  BY <1>1, Plan DEF TooWide
<1>3. pins \in Seq(DOMAIN cpus) /\ Len(pins) > 2 * n
  BY <1>1, WidePins
<1>4. /\ d.vcpus = Len(pins) /\ d.topology = Topology(n, 2) /\ d.pins = pins
      /\ d.emulator = formatCPUSet(E) /\ d.asked = <<config>> /\ d.since = {}
  BY <1>1, <1>2 DEF Pinned, AllPins
<1>5. IsList(d.emulator)
  BY <1>1, <1>4, EmulatorOnHost, WrittenList
<1> HIDE DEF n, pins, E
<1>6. Topology(n, 2) \in GuestTopologies
  BY <1>2, OneSocketType
<1>7. Len(pins) \in Nat \ {0} /\ pins # <<>>
  <2>1. Len(pins) \in Nat
    BY <1>3, LenProperties
  <2> DEFINE l == Len(pins)
  <2> HIDE DEF l
  <2>2. l # 0
    BY <1>2, <1>3 DEF l
  <2>3. QED
    BY <2>1, <2>2, EmptySeq DEF l
<1>8. Range(pins) \subseteq DOMAIN cpus
  <2>1. \A v \in DOMAIN pins : pins[v] \in DOMAIN cpus
    BY <1>3, LenProperties, ElementOfSeq
  <2>2. QED
    BY <2>1 DEF Range
<1>9. Len(d.pins) <= d.vcpus
  BY <1>4, <1>7
<1>10. d.asked # <<>>
  BY <1>4
<1>11. QED
  BY <1>4, <1>5, <1>6, <1>7, <1>8, <1>9, <1>10 DEF IsDefinition

LEMMA InvTypeOK == IsolationInv /\ PinningInv => TypeOK
<1> SUFFICES ASSUME IsolationInv, PinningInv PROVE TypeOK
  OBVIOUS
<1>1. cpus \in Topologies
  BY DEF IsolationInv
<1>2. IsDefinition(def) /\ \A h \in Handlers :
            task[h].step \in {"replace", "define", "redefine"} =>
                IsDefinition(task[h].xml)
  BY <1>1, DefType, RefusedType DEF PinningInv, StepInv
<1>3. IsList({})
  BY DEF IsList, expandCPUList
<1>4. \A sel \in Selections : Valid(sel) => IsList(ListOf(sel))
  BY <1>1, SelectedTypes, WrittenList DEF Valid, ListOf
<1>5. IsList(configured) /\ IsList(active)
  BY <1>3, <1>4 DEF IsolationInv
<1>6. QED
  BY <1>1, <1>2, <1>5 DEF TypeOK, PinningInv, StepInv, Steps

(* The pins and the emulator's CPUs of a pinned machine, and their cores.  *)
LEMMA PinnedCPUs ==
    ASSUME cpus \in Topologies, NEW d, DefInv(d),
           NEW config \in Configs, PinnedBy(d, config)
    PROVE  LET P == GetPhysicalCores(config.socket)
               on == expandCPUList(d.emulator)
           IN  /\ DOMAIN d.pins = 1..Len(d.pins) /\ 1 \in DOMAIN d.pins
               /\ \A v \in DOMAIN d.pins :
                    /\ CoreOfPin(v, config.ht) \in 1..Len(GuestCores(config))
                    /\ d.pins[v] \in P[config.start + CoreOfPin(v, config.ht)]
               /\ on = EmulatorCPUs(config)
<1>1. d.pins \in Seq(DOMAIN cpus)
  BY DEF DefInv, Definitions
<1>2. /\ ValidateCPUPinningConfig(config) /\ ~TooWide(config)
      /\ d.emulator = formatCPUSet(EmulatorCPUs(config))
      /\ Len(d.pins) \in 1..Len(AllPins(config))
      /\ \A v \in 1..Len(d.pins) : d.pins[v] = AllPins(config)[v]
  BY DEF PinnedBy
<1>3. expandCPUList(d.emulator) = EmulatorCPUs(config)
  BY <1>2, EmulatorPins, WrittenList
<1>4. Len(d.pins) \in Nat /\ DOMAIN d.pins = 1..Len(d.pins)
  BY <1>1, LenProperties
<1>5. Len(AllPins(config)) \in Nat
  BY <1>2, GuestPins, LenProperties
<1>6. /\ 1 \in DOMAIN d.pins
      /\ \A v \in DOMAIN d.pins : v \in 1..Len(AllPins(config))
                                  /\ d.pins[v] = AllPins(config)[v]
  BY <1>2, <1>4, <1>5
<1>7. \A v \in 1..Len(AllPins(config)) :
        /\ CoreOfPin(v, config.ht) \in 1..Len(GuestCores(config))
        /\ AllPins(config)[v] \in
            GetPhysicalCores(config.socket)[config.start + CoreOfPin(v, config.ht)]
  BY <1>2, GuestPins
<1>8. QED
  BY <1>3, <1>4, <1>6, <1>7

(* All of them are on the selected cores, the first pin on the first of    *)
(* these and some thread of QEMU's on the last.                            *)
LEMMA PinnedRange ==
    ASSUME cpus \in Topologies, NEW d, DefInv(d),
           NEW config \in Configs, PinnedBy(d, config)
    PROVE  LET all == Range(d.pins) \cup expandCPUList(d.emulator)
           IN  /\ all \subseteq DOMAIN cpus
               /\ \A c \in all : /\ cpus[c].socket = config.socket
                                 /\ CoreIndex(c) \in config.start .. config.end
               /\ \E c \in all : CoreIndex(c) = config.start
               /\ \E c \in all : CoreIndex(c) = config.end
<1> DEFINE P == GetPhysicalCores(config.socket)
           n == Len(GuestCores(config))
           on == expandCPUList(d.emulator)
           all == Range(d.pins) \cup on
           L == CoreCount(config)
<1>1. ValidateCPUPinningConfig(config) /\ ~TooWide(config)
  BY DEF PinnedBy
<1>2. /\ config.socket \in Sockets /\ config.start \in Nat /\ config.end \in Nat
      /\ config.start <= config.end /\ config.end < Len(P) /\ Len(P) \in Nat
      /\ n \in Nat /\ n <= L
  <2>1. n \in Nat \ {0} /\ (n = L \/ n = L - 1) /\ config.socket \in Sockets
        /\ config.start \in Nat /\ config.end \in Nat
        /\ config.start <= config.end /\ config.end < Len(P)
    BY <1>1, Plan
  <2>2. L \in Int
    BY <2>1 DEF CoreCount
  <2> HIDE DEF n, L, P
  <2>3. n <= L
    BY <2>1, <2>2
  <2>4. Len(P) \in Nat
    BY <2>1, SocketCores DEF P
  <2>5. QED
    BY <2>1, <2>3, <2>4
<1>3. \A i \in 1..L : \A c : c \in P[config.start + i] =>
            /\ c \in DOMAIN cpus /\ cpus[c].socket = config.socket
            /\ CoreIndex(c) = config.start + i - 1
            /\ CoreIndex(c) \in config.start .. config.end
  <2> SUFFICES ASSUME NEW i \in 1..L, NEW c, c \in P[config.start + i]
               PROVE  /\ c \in DOMAIN cpus /\ cpus[c].socket = config.socket
                      /\ CoreIndex(c) = config.start + i - 1
                      /\ CoreIndex(c) \in config.start .. config.end
    OBVIOUS
  <2>1. /\ config.start + i \in 1..Len(P)
        /\ config.start + i - 1 \in config.start .. config.end
    BY <1>2 DEF CoreCount
  <2>2. /\ c \in DOMAIN cpus /\ cpus[c].socket = config.socket
        /\ CoreIndex(c) = config.start + i - 1
    BY <1>2, <2>1, CorePlace
  <2> HIDE DEF P, n, on, all, L
  <2>3. QED
    BY <2>1, <2>2
<1>4. /\ DOMAIN d.pins = 1..Len(d.pins) /\ 1 \in DOMAIN d.pins
      /\ \A v \in DOMAIN d.pins :
            /\ CoreOfPin(v, config.ht) \in 1..n
            /\ d.pins[v] \in P[config.start + CoreOfPin(v, config.ht)]
      /\ on = EmulatorCPUs(config)
  BY PinnedCPUs
<1>5. /\ \A c \in on : \E i \in 1..L : c \in P[config.start + i]
      /\ \E c \in on : c \in P[config.end + 1]
  BY <1>1, <1>4, EmulatorPins
<1> HIDE DEF P, n, on, L
<1>6. \A v \in DOMAIN d.pins : \E i \in 1..L : d.pins[v] \in P[config.start + i]
  <2> SUFFICES ASSUME NEW v \in DOMAIN d.pins
               PROVE  \E i \in 1..L : d.pins[v] \in P[config.start + i]
    OBVIOUS
  <2>1. CoreOfPin(v, config.ht) \in 1..L
    BY <1>2, <1>4 DEF L, CoreCount
  <2>2. QED
    BY <1>4, <2>1
<1>7. \A c \in all : \E i \in 1..L : c \in P[config.start + i]
  BY <1>5, <1>6 DEF Range
<1>8. CoreOfPin(1, config.ht) = 1
  BY DEF CoreOfPin
<1>9. \E c \in all : CoreIndex(c) = config.start
  <2>1. d.pins[1] \in P[config.start + 1] /\ d.pins[1] \in all
    BY <1>4, <1>8 DEF Range
  <2>2. 1 \in 1..L /\ config.start + 1 - 1 = config.start
    BY <1>2 DEF L, CoreCount
  <2>3. QED
    BY <1>3, <2>1, <2>2
<1>10. \E c \in all : CoreIndex(c) = config.end
  <2>1. PICK c \in on : c \in P[config.end + 1]
    BY <1>5
  <2>2. L \in 1..L /\ config.start + L = config.end + 1
        /\ config.start + L - 1 = config.end
    BY <1>2 DEF L, CoreCount
  <2>3. CoreIndex(c) = config.end
    BY <1>3, <2>1, <2>2
  <2>4. QED
    BY <2>1, <2>3
<1>11. QED
  BY <1>3, <1>7, <1>9, <1>10 DEF on

LEMMA InvReadsPinning == IsolationInv /\ PinningInv => PinningReadsBack
<1> SUFFICES ASSUME IsolationInv, PinningInv, def.asked # <<>> PROVE PinningReadsBack
  BY DEF PinningReadsBack
<1>1. cpus \in Topologies /\ DefInv(def)
  BY DEF IsolationInv, PinningInv
<1>2. PICK config \in Configs : PinnedBy(def, config)
  BY <1>1 DEF DefInv, NotPinned
<1> DEFINE all == Range(def.pins) \cup expandCPUList(def.emulator)
           indices == {CoreIndex(c) : c \in all}
           got == GetCPUPinning(def)
<1>3. /\ all \subseteq DOMAIN cpus
      /\ \A c \in all : /\ cpus[c].socket = config.socket
                        /\ CoreIndex(c) \in config.start .. config.end
      /\ \E c \in all : CoreIndex(c) = config.start
      /\ \E c \in all : CoreIndex(c) = config.end
  BY <1>1, <1>2, PinnedRange
<1>4. got = [start |-> Min(indices), end |-> Max(indices),
             ht |-> def.topology.threads >= 2, socket |-> cpus[Max(all)].socket]
  BY DEF GetCPUPinning
<1> HIDE DEF all, got
<1>5. /\ config.start \in indices /\ config.end \in indices
      /\ \A i \in indices : i \in config.start .. config.end
      /\ config.start \in Int /\ config.end \in Int
  BY <1>3, ConfigsAssumption
<1> HIDE DEF indices
<1>6. Min(indices) = config.start
  <2>1. Min(indices) \in indices /\ \A y \in indices : Min(indices) <= y
    <3>1. \E x \in indices : \A y \in indices : x <= y
      BY <1>5
    <3>2. QED
      BY <3>1 DEF Min
  <2>2. QED
    BY <1>5, <2>1
<1>7. Max(indices) = config.end
  <2>1. Max(indices) \in indices /\ \A y \in indices : Max(indices) >= y
    <3>1. \E x \in indices : \A y \in indices : x >= y
      BY <1>5
    <3>2. QED
      BY <3>1 DEF Max
  <2>2. QED
    BY <1>5, <2>1
<1>8. Max(all) \in all
  <2>1. all \subseteq Nat /\ IsFiniteSet(all) /\ all # {}
    BY <1>1, <1>3, TopologyAssumption, FS_Subset
  <2>2. \E x \in all : \A y \in all : x >= y
    BY <2>1, Greatest
  <2>3. QED
    BY <2>2 DEF Max
<1>9. cpus[Max(all)].socket = config.socket
  BY <1>3, <1>8
<1>10. /\ def.asked[1] = config
       /\ "UpdateVMCPUXml" \notin def.since =>
                (def.topology.threads >= 2 => config.ht)
       /\ def.since = {} => (def.topology.threads >= 2 <=> config.ht)
       /\ config.ht \in BOOLEAN
  BY <1>1, <1>2, ConfigsAssumption DEF PinnedBy
<1>11. /\ got.start = config.start /\ got.end = config.end
       /\ got.socket = config.socket /\ got.ht = (def.topology.threads >= 2)
  BY <1>4, <1>6, <1>7, <1>9
<1>12. QED
  BY <1>10, <1>11 DEF PinningReadsBack, got

(* Cores at different places are different cores.                          *)
LEMMA OtherCore ==
    ASSUME cpus \in Topologies, NEW config \in Configs, ValidateCPUPinningConfig(config),
           NEW i \in 1..CoreCount(config), NEW j \in 1..CoreCount(config),
           NEW c, c \in GetPhysicalCores(config.socket)[config.start + i],
           NEW e, e \in GetPhysicalCores(config.socket)[config.start + j]
    PROVE  Core(c) = Core(e) <=> i = j
<1> DEFINE P == GetPhysicalCores(config.socket)
           a == config.start
<1>1. /\ config.socket \in Sockets /\ a \in Nat /\ config.end \in Nat
      /\ a <= config.end /\ config.end < Len(P)
  BY Plan
<1>2. Len(P) \in Nat
  BY <1>1, SocketCores
<1>3. a + i \in 1..Len(P) /\ a + j \in 1..Len(P) /\ (a + i = a + j <=> i = j)
  BY <1>1, <1>2 DEF CoreCount
<1>4. Core(c) = P[a + i] /\ Core(e) = P[a + j]
  BY <1>1, <1>3, CorePlace DEF Core
<1>5. P[a + i] = P[a + j] => a + i = a + j
  BY <1>1, <1>3, SocketCores
<1>6. QED
  BY <1>3, <1>4, <1>5

LEMMA InvNotShared == IsolationInv /\ PinningInv => CoresAreNotShared
<1> SUFFICES ASSUME IsolationInv, PinningInv, def.asked # <<>> PROVE CoresAreNotShared
  BY DEF CoresAreNotShared
<1>1. cpus \in Topologies /\ DefInv(def)
  BY DEF IsolationInv, PinningInv
<1>2. PICK config \in Configs : PinnedBy(def, config)
  BY <1>1 DEF DefInv, NotPinned
<1> DEFINE P == GetPhysicalCores(config.socket)
           n == Len(GuestCores(config))
           on == expandCPUList(def.emulator)
           L == CoreCount(config)
           at(v) == CoreOfPin(v, config.ht)
<1>3. ValidateCPUPinningConfig(config) /\ ~TooWide(config) /\ def.asked[1] = config
  BY <1>2 DEF PinnedBy
<1>4. /\ config.start \in Nat /\ config.end \in Nat /\ config.start <= config.end
      /\ n \in Nat /\ (n = L \/ n = L - 1)
  BY <1>1, <1>3, Plan
<1>5. L \in Nat \ {0} /\ config.start + L = config.end + 1
  BY <1>4 DEF CoreCount
<1>6. /\ DOMAIN def.pins = 1..Len(def.pins)
      /\ \A v \in DOMAIN def.pins : at(v) \in 1..n /\ def.pins[v] \in P[config.start + at(v)]
      /\ on = EmulatorCPUs(config)
  BY <1>1, <1>2, PinnedCPUs
<1>7. L >= 4 => n = L - 1 /\ \A c \in on : c \in P[config.end + 1]
  BY <1>1, <1>3, <1>6, EmulatorPins
<1> HIDE DEF P, n, on, L
<1>8. \A v \in DOMAIN def.pins : at(v) \in 1..L
  BY <1>4, <1>5, <1>6 DEF CoreOfPin
<1>9. ASSUME NEW v \in DOMAIN def.pins, NEW w \in DOMAIN def.pins, v < w
      PROVE  (Core(def.pins[v]) = Core(def.pins[w])) <=>
                (config.ht /\ v % 2 = 1 /\ w = v + 1)
  <2>1. Core(def.pins[v]) = Core(def.pins[w]) <=> at(v) = at(w)
    BY <1>1, <1>3, <1>6, <1>8, OtherCore DEF P, L
  <2>2. config.ht \in BOOLEAN /\ v \in Nat \ {0} /\ w \in Nat \ {0}
    BY <1>6, ConfigsAssumption
  <2>3. at(v) = at(w) <=> (config.ht /\ v % 2 = 1 /\ w = v + 1)
    <3>1. CASE config.ht
      BY <1>9, <2>2, <3>1 DEF CoreOfPin
    <3>2. CASE ~config.ht
      BY <1>9, <2>2, <3>2 DEF CoreOfPin
    <3>3. QED
      BY <3>1, <3>2
  <2>4. QED
    BY <2>1, <2>3
<1>10. ASSUME NEW v \in DOMAIN def.pins, NEW e \in on, L >= 4
       PROVE  Core(def.pins[v]) # Core(e)
  <2>1. e \in P[config.start + L] /\ L \in 1..L
    BY <1>5, <1>7, <1>10
  <2>2. at(v) # L
    <3>1. at(v) \in 1..(L - 1)
      BY <1>6, <1>7, <1>10
    <3>2. \A k \in 1..(L - 1) : k # L
      BY <1>5
    <3>3. QED
      BY <3>1, <3>2
  <2>3. QED
    BY <1>1, <1>3, <1>6, <1>8, <2>1, <2>2, OtherCore DEF P, L
<1>11. config.end - config.start + 1 < 4 <=> ~(L >= 4)
  BY <1>4 DEF L, CoreCount
<1>12. QED
  BY <1>3, <1>9, <1>10, <1>11 DEF CoresAreNotShared, on

LEMMA InvFits == IsolationInv /\ PinningInv => GuestTopologyFits
<1> SUFFICES ASSUME IsolationInv, PinningInv, NEW h \in Handlers, task[h].step = "define"
             PROVE  LET xml == task[h].xml
                    IN  Fits(xml) <=> ~(xml.asked # <<>> /\ TooWide(xml.asked[1]))
  BY DEF GuestTopologyFits
<1> DEFINE xml == task[h].xml
<1>0. cpus \in Topologies
  BY DEF IsolationInv
<1>1. (DefInv(xml) /\ Fits(xml)) \/ Refused(xml)
  BY DEF PinningInv, StepInv
<1> HIDE DEF xml
<1>2. CASE Refused(xml)
  <2>1. PICK config \in Configs : TooWide(config) /\ xml = Pinned(config)
    BY <1>2 DEF Refused
  <2>2. xml.asked = <<config>>
    BY <2>1 DEF Pinned
  <2>3. xml.asked # <<>> /\ xml.asked[1] = config
    BY <2>2
  <2>4. ~Fits(xml)
    BY <1>0, <1>2, RefusedDef
  <2>5. QED
    BY <2>1, <2>3, <2>4 DEF xml
<1>3. CASE DefInv(xml) /\ Fits(xml)
  <2>1. CASE NotPinned(xml)
    BY <1>3, <2>1 DEF NotPinned, xml
  <2>2. ASSUME NEW config \in Configs, PinnedBy(xml, config)
        PROVE  ~TooWide(xml.asked[1])
    <3>1. xml.asked = <<config>> /\ ~TooWide(config)
      BY <2>2 DEF PinnedBy
    <3>2. xml.asked[1] = config
      BY <3>1
    <3>3. QED
      BY <3>1, <3>2
  <2>3. QED
    BY <1>3, <2>1, <2>2 DEF DefInv, xml
<1>4. QED
  BY <1>1, <1>2, <1>3

(* On every host, for every number of handlers and any interleaving of     *)
(* their reads and writes: what is written is a definition of a machine    *)
(* whose pins are CPUs of the host.                                        *)
THEOREM CoresTypeOK == Spec => []TypeOK
  BY InitInv, NextInv, PinningInit, PinningNext, InvTypeOK, PTL DEF Spec

(* ... every topology that pinning, unpinning or an edit computes           *)
(* multiplies to the vCPU count it is written with, but that of a plan     *)
(* with hyperthreading on a core of more than two threads, which never     *)
(* does ...                                                                *)
THEOREM TopologyFits == Spec => []GuestTopologyFits
  BY InitInv, NextInv, PinningInit, PinningNext, InvFits, PTL DEF Spec

(* ... GetCPUPinning infers, from the definition alone, the cores and the  *)
(* socket that were asked for.                                             *)
THEOREM PinningIsReadBack == Spec => []PinningReadsBack
  BY InitInv, NextInv, PinningInit, PinningNext, InvReadsPinning, PTL DEF Spec

(* ... no two vCPUs share a physical core unless as its two threads, and   *)
(* QEMU keeps off the guest's cores once a core can be reserved for it.    *)
THEOREM NoSharedCores == Spec => []CoresAreNotShared
  BY InitInv, NextInv, PinningInit, PinningNext, InvNotShared, PTL DEF Spec

=============================================================================

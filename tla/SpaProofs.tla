------------------------------ MODULE SpaProofs ------------------------------
(***************************************************************************)
(* Proofs about single-packet authorisation, for any number of ports,      *)
(* addresses, chains, protocols and requests.                              *)
(***************************************************************************)
EXTENDS Spa, TLAPS, SequenceTheorems, WellFoundedInduction, FiniteSetTheorems

(* Only a goroutine that disables a port goes on to destroy its ipset.     *)
OnlyDisablingDestroys ==
    \A g \in Goroutines : step[g] \in {"list", "destroy"} => ~Enabling(g)

TaskTypeOK ==
    /\ task \in [Goroutines -> Task]
    /\ step \in [Goroutines -> Step]
    /\ port \in [Goroutines -> Ports]
    /\ n \in [Goroutines -> 1..NumRules]
    /\ todo \in [Goroutines -> Seq(Ports)]

KernelTypeOK ==
    /\ chain \in [Chains -> Seq(Rule)]
    /\ sets \subseteq Ports
    /\ granted \in [Ports -> SUBSET IPs]
    /\ \A p \in Ports : SetInUse(p) => p \in sets

CountTypeOK ==
    /\ db \subseteq Ports
    /\ requests \in 0..MaxRequests
    /\ faults \in 0..MaxFaults

TaskInv == TaskTypeOK /\ OnlyDisablingDestroys
SpaInv == TaskInv /\ KernelTypeOK /\ CountTypeOK

-----------------------------------------------------------------------------
(* The rules of a chain when one is inserted or deleted.                   *)

LEMMA MinIsLeast ==
    ASSUME NEW T, T \subseteq Nat, T # {}
    PROVE  Min(T) \in T
<1> DEFINE R == {ss \in Nat \X Nat : ss[1] < ss[2]}
<1>1. IsWellFoundedOn(R, Nat)
  BY NatLessThanWellFounded DEF OpToRel
<1> HIDE DEF R
<1>2. PICK x \in T : \A y \in T : ~(<<y, x>> \in R)
  BY <1>1, WFMin
<1>3. ASSUME NEW y \in T PROVE x <= y
  <2>1. x \in Nat /\ y \in Nat
    OBVIOUS
  <2>2. <<y, x>> \in R <=> y < x
    BY <2>1 DEF R
  <2>3. QED
    BY <1>2, <2>1, <2>2
<1>4. \E z \in T : \A y \in T : z <= y
  BY <1>3
<1>5. QED
  BY <1>4 DEF Min

LEMMA RemoveFirstType ==
    ASSUME NEW S, NEW s \in Seq(S), NEW e
    PROVE  RemoveFirst(s, e) \in Seq(S)
<1>1. CASE ~\E i \in 1..Len(s) : s[i] = e
  BY <1>1 DEF RemoveFirst
<1>2. CASE \E i \in 1..Len(s) : s[i] = e
  <2> DEFINE I == {i \in 1..Len(s) : s[i] = e}
             k == Min(I)
  <2>1. k \in 1..Len(s)
    <3>1. I \subseteq Nat /\ I # {}
      BY <1>2
    <3>2. k \in I
      BY <3>1, MinIsLeast
    <3>3. QED
      BY <3>2
  <2>2. RemoveFirst(s, e) = SubSeq(s, 1, k - 1) \o SubSeq(s, k + 1, Len(s))
    BY <1>2 DEF RemoveFirst, RemoveAt, SelectInSeq
  <2> HIDE DEF k
  <2>3. SubSeq(s, 1, k - 1) \in Seq(S) /\ SubSeq(s, k + 1, Len(s)) \in Seq(S)
    BY <2>1, SubSeqProperties
  <2>4. QED
    BY <2>2, <2>3, ConcatProperties
<1>3. QED
  BY <1>1, <1>2

LEMMA InsertAtType ==
    ASSUME NEW S, NEW s \in Seq(S), NEW e \in S, NEW i \in 1..(Len(s) + 1)
    PROVE  InsertAt(s, i, e) \in Seq(S)
<1>1. SubSeq(s, 1, i - 1) \in Seq(S) /\ SubSeq(s, i, Len(s)) \in Seq(S)
  BY SubSeqProperties
<1>2. <<e>> \in Seq(S)
  OBVIOUS
<1>3. QED
  BY <1>1, <1>2, ConcatProperties DEF InsertAt

LEMMA InToSet ==
    ASSUME NEW S, NEW s \in Seq(S)
    PROVE  s \in Seq(ToSet(s)) /\ ToSet(s) \subseteq S
  BY DEF ToSet

LEMMA ToSetOfSeq ==
    ASSUME NEW S, NEW s \in Seq(S)
    PROVE  ToSet(s) \subseteq S
  BY DEF ToSet

LEMMA Shrinks ==
    ASSUME NEW S, NEW s \in Seq(S), NEW e
    PROVE  ToSet(RemoveFirst(s, e)) \subseteq ToSet(s)
<1>1. RemoveFirst(s, e) \in Seq(ToSet(s))
  BY InToSet, RemoveFirstType
<1>2. QED
  BY <1>1, ToSetOfSeq

LEMMA Grows ==
    ASSUME NEW S, NEW s \in Seq(S), NEW e, NEW i \in 1..(Len(s) + 1)
    PROVE  ToSet(InsertAt(s, i, e)) \subseteq ToSet(s) \cup {e}
<1>1. s \in Seq(ToSet(s) \cup {e})
  BY InToSet
<1>2. InsertAt(s, i, e) \in Seq(ToSet(s) \cup {e})
  BY <1>1, InsertAtType
<1>3. QED
  BY <1>2, ToSetOfSeq

(* The flow and the rule at an index.                                      *)
LEMMA FlowTypes ==
    ASSUME NEW i \in 1..NumRules
    PROVE  /\ FlowOf(i).chain \in Chains
           /\ \A p \in Ports : RuleAt(p, i) \in Rule
           /\ NumRules \in Nat /\ 1 \in 1..NumRules
<1>1. Len(Flows) \in Nat \ {0} /\ DOMAIN Flows = 1..Len(Flows)
  BY FlowsAssumption
<1>2. (i + 1) \div 2 \in DOMAIN Flows /\ NumRules \in Nat /\ 1 \in 1..NumRules
  BY <1>1 DEF NumRules
<1>3. QED
  BY <1>2, FlowsAssumption DEF FlowOf, RuleAt, Rule

-----------------------------------------------------------------------------
(* Where a goroutine goes next.                                            *)

LEMMA GotoInv ==
    ASSUME TaskInv, NEW g \in Goroutines, NEW s \in Step, Goto(g, s),
           UNCHANGED <<task, port, n, todo>>,
           s \in {"list", "destroy"} => ~Enabling(g)
    PROVE  TaskInv'
<1>1. /\ step' \in [Goroutines -> Step]
      /\ \A h \in Goroutines : step'[h] = IF h = g THEN s ELSE step[h]
  BY DEF Goto, TaskInv, TaskTypeOK
<1>2. QED
  BY <1>1 DEF TaskInv, TaskTypeOK, OnlyDisablingDestroys, Enabling

LEMMA AdvanceInv ==
    ASSUME TaskInv, NEW g \in Goroutines, Goto(g, "find"), n[g] < NumRules,
           n' = [n EXCEPT ![g] = n[g] + 1], UNCHANGED <<task, port, todo>>
    PROVE  TaskInv'
<1>1. n[g] + 1 \in 1..NumRules
  <2>1. n[g] \in 1..NumRules
    BY DEF TaskInv, TaskTypeOK
  <2>2. NumRules \in Nat
    BY <2>1, FlowTypes
  <2>3. QED
    BY <2>1, <2>2
<1>2. n' \in [Goroutines -> 1..NumRules]
  BY <1>1 DEF TaskInv, TaskTypeOK
<1>3. /\ step' \in [Goroutines -> Step]
      /\ \A h \in Goroutines : step'[h] = IF h = g THEN "find" ELSE step[h]
  BY DEF Goto, TaskInv, TaskTypeOK, Step
<1>4. QED
  BY <1>2, <1>3 DEF TaskInv, TaskTypeOK, OnlyDisablingDestroys, Enabling

LEMMA ReturnInv ==
    ASSUME TaskInv, NEW g \in Goroutines, Return(g)
    PROVE  TaskInv'
<1>1. AnyPort \in Ports /\ 1 \in 1..NumRules
  <2>1. n[g] \in 1..NumRules
    BY DEF TaskInv, TaskTypeOK
  <2>2. QED
    BY <2>1, FlowTypes, PortsAssumption DEF AnyPort
<1>2. <<>> \in Seq(Ports) /\ "none" \in Task /\ "none" \in Step
  BY DEF Task, Step
<1>3. TaskTypeOK'
  BY <1>1, <1>2 DEF Return, TaskInv, TaskTypeOK
<1>4. /\ step'[g] = "none"
      /\ \A h \in Goroutines \ {g} : step'[h] = step[h] /\ task'[h] = task[h]
  BY DEF Return, TaskInv, TaskTypeOK
<1>5. QED
  BY <1>3, <1>4 DEF TaskInv, OnlyDisablingDestroys, Enabling

LEMMA BeginInv ==
    ASSUME TaskInv, NEW g \in Goroutines, NEW t \in Task, NEW p \in Ports,
           Begin(g, t, p),
           todo' = todo \/ \E ports \in Seq(Ports) : todo' = [todo EXCEPT ![g] = ports]
    PROVE  TaskInv'
<1>1. 1 \in 1..NumRules
  <2>1. n[g] \in 1..NumRules
    BY DEF TaskInv, TaskTypeOK
  <2>2. QED
    BY <2>1, FlowTypes
<1>2. PICK s \in {"set", "find"} : Goto(g, s)
  BY DEF Begin
<1>3. TaskTypeOK'
  BY <1>1, <1>2 DEF Begin, Goto, TaskInv, TaskTypeOK, Step
<1>4. /\ step'[g] \in {"set", "find"}
      /\ \A h \in Goroutines \ {g} : step'[h] = step[h] /\ task'[h] = task[h]
  BY <1>2 DEF Begin, Goto, TaskInv, TaskTypeOK
<1>5. QED
  BY <1>3, <1>4 DEF TaskInv, OnlyDisablingDestroys, Enabling

LEMMA NextRuleInv ==
    ASSUME TaskInv, NEW g \in Goroutines, NextRule(g)
    PROVE  TaskInv'
<1>0. "find" \in Step /\ "list" \in Step /\ "store" \in Step /\ "reapply" \in Task
  BY DEF Step, Task
<1>1. CASE /\ n[g] < NumRules
           /\ n' = [n EXCEPT ![g] = n[g] + 1] /\ Goto(g, "find")
           /\ UNCHANGED <<task, port, todo>>
  BY <1>1, AdvanceInv
<1>2. CASE ~Enabling(g) /\ Goto(g, "list") /\ UNCHANGED <<task, port, n, todo>>
  BY <1>0, <1>2, GotoInv
<1>3. CASE Goto(g, "store") /\ UNCHANGED <<task, port, n, todo>>
  BY <1>0, <1>3, GotoInv
<1>4. CASE /\ todo[g] # <<>> /\ Begin(g, "reapply", Head(todo[g]))
           /\ todo' = [todo EXCEPT ![g] = Tail(todo[g])]
  <2>1. todo[g] \in Seq(Ports)
    BY DEF TaskInv, TaskTypeOK
  <2>2. Head(todo[g]) \in Ports /\ Tail(todo[g]) \in Seq(Ports)
    BY <1>4, <2>1, HeadTailProperties
  <2>3. QED
    BY <1>0, <1>4, <2>2, BeginInv
<1>5. CASE Return(g)
  BY <1>5, ReturnInv
<1>6. QED
  BY <1>1, <1>2, <1>3, <1>4, <1>5 DEF NextRule

LEMMA AfterDisableInv ==
    ASSUME TaskInv, NEW g \in Goroutines, AfterDisable(g)
    PROVE  TaskInv'
<1>1. "store" \in Step
  BY DEF Step
<1>2. CASE Goto(g, "store") /\ UNCHANGED <<task, port, n, todo>>
  BY <1>1, <1>2, GotoInv
<1>3. CASE Return(g)
  BY <1>3, ReturnInv
<1>4. QED
  BY <1>2, <1>3 DEF AfterDisable

-----------------------------------------------------------------------------
(* What a command does to the kernel's tables.                             *)

LEMMA RuleTypes ==
    ASSUME TaskInv, NEW g \in Goroutines
    PROVE  /\ TheChain(g) \in Chains /\ TheRule(g) \in Rule
           /\ TheRule(g).port = port[g] /\ port[g] \in Ports
<1>1. n[g] \in 1..NumRules /\ port[g] \in Ports
  BY DEF TaskInv, TaskTypeOK
<1>2. QED
  BY <1>1, FlowTypes DEF TheChain, TheRule, RuleAt

LEMMA ChainInv ==
    ASSUME KernelTypeOK, NEW c \in Chains, NEW s \in Seq(Rule), NEW r,
           chain' = [chain EXCEPT ![c] = s], UNCHANGED <<sets, granted>>,
           ToSet(s) \subseteq ToSet(chain[c]) \cup {r},
           r \in ToSet(chain[c]) \/ (r.target = "ACCEPT" => r.port \in sets)
    PROVE  KernelTypeOK'
<1>1. /\ chain' \in [Chains -> Seq(Rule)]
      /\ \A d \in Chains : chain'[d] = IF d = c THEN s ELSE chain[d]
  BY DEF KernelTypeOK
<1>2. ASSUME NEW p \in Ports, SetInUse(p)' PROVE p \in sets
  <2>1. PICK d \in Chains : \E q \in ToSet(chain'[d]) : Uses(q, p)
    BY <1>2 DEF SetInUse, RulesIn
  <2>2. PICK q \in ToSet(chain'[d]) : Uses(q, p)
    BY <2>1
  <2>3. CASE q \in ToSet(chain[d])
    BY <2>2, <2>3 DEF KernelTypeOK, SetInUse, RulesIn
  <2>4. CASE q \notin ToSet(chain[d])
    <3>1. q = r /\ d = c
      BY <1>1, <2>2, <2>4
    <3>2. QED
      BY <2>2, <2>4, <3>1 DEF Uses
  <2>5. QED
    BY <2>3, <2>4
<1>3. QED
  BY <1>1, <1>2 DEF KernelTypeOK

LEMMA DeleteInv ==
    ASSUME TaskInv, KernelTypeOK, NEW g \in Goroutines, Present(g),
           chain' = [chain EXCEPT ![TheChain(g)] =
                        RemoveFirst(chain[TheChain(g)], TheRule(g))],
           UNCHANGED <<sets, granted>>
    PROVE  KernelTypeOK'
<1> DEFINE c == TheChain(g)
           s == RemoveFirst(chain[c], TheRule(g))
<1>1. c \in Chains /\ chain[c] \in Seq(Rule)
  BY RuleTypes DEF KernelTypeOK
<1>2. s \in Seq(Rule) /\ ToSet(s) \subseteq ToSet(chain[c])
  BY <1>1, RemoveFirstType, Shrinks
<1>3. TheRule(g) \in ToSet(chain[c])
  BY DEF Present, RulesIn
<1> HIDE DEF c, s
<1>4. chain' = [chain EXCEPT ![c] = s]
  BY DEF c, s
<1>5. QED
  BY <1>1, <1>2, <1>3, <1>4, ChainInv

LEMMA InsertInv ==
    ASSUME TaskInv, KernelTypeOK, NEW g \in Goroutines, Accepted(g),
           chain' = [chain EXCEPT ![TheChain(g)] =
                        InsertAt(chain[TheChain(g)], Position(n[g]), TheRule(g))],
           UNCHANGED <<sets, granted>>
    PROVE  KernelTypeOK'
<1> DEFINE c == TheChain(g)
           s == InsertAt(chain[c], Position(n[g]), TheRule(g))
<1>1. c \in Chains /\ chain[c] \in Seq(Rule) /\ TheRule(g) \in Rule
  BY RuleTypes DEF KernelTypeOK
<1>2. Position(n[g]) \in 1..(Len(chain[c]) + 1)
  BY <1>1 DEF Accepted, Position
<1>3. s \in Seq(Rule) /\ ToSet(s) \subseteq ToSet(chain[c]) \cup {TheRule(g)}
  BY <1>1, <1>2, InsertAtType, Grows
<1>4. TheRule(g).target = "ACCEPT" => TheRule(g).port \in sets
  BY RuleTypes DEF Accepted, Named
<1> HIDE DEF c, s
<1>5. chain' = [chain EXCEPT ![c] = s]
  BY DEF c, s
<1>6. QED
  BY <1>1, <1>3, <1>4, <1>5, ChainInv

LEMMA KernelAside ==
    ASSUME KernelTypeOK, UNCHANGED chain, sets \subseteq sets', sets' \subseteq Ports,
           granted' \in [Ports -> SUBSET IPs]
    PROVE  KernelTypeOK'
  BY DEF KernelTypeOK, SetInUse, RulesIn

LEMMA DestroyInv ==
    ASSUME KernelTypeOK, NEW p \in Ports, ~SetInUse(p), UNCHANGED chain,
           sets' = sets \ {p}, granted' = [granted EXCEPT ![p] = {}]
    PROVE  KernelTypeOK'
  BY DEF KernelTypeOK, SetInUse, RulesIn

-----------------------------------------------------------------------------
LEMMA CommandInv ==
    ASSUME SpaInv, NEW g \in Goroutines, Command(g)
    PROVE  SpaInv'
<1>0. /\ TaskInv /\ KernelTypeOK /\ CountTypeOK
      /\ port[g] \in Ports
      /\ "find" \in Step /\ "remove" \in Step /\ "look" \in Step
      /\ "insert" \in Step /\ "destroy" \in Step
  BY DEF SpaInv, TaskInv, TaskTypeOK, Step
<1>a. ASSUME NEW s \in {"find", "remove", "look", "insert"}, Goto(g, s),
             UNCHANGED <<task, port, n, todo>>
      PROVE  TaskInv'
  <2>1. s \in Step /\ s \notin {"list", "destroy"}
    BY <1>a DEF Step
  <2>2. QED
    BY <1>0, <1>a, <2>1, GotoInv
<1>1. ASSUME UNCHANGED kernel PROVE KernelTypeOK'
  BY <1>0, <1>1, KernelAside DEF kernel, KernelTypeOK
<1>2. ASSUME UNCHANGED <<db, counters>> PROVE CountTypeOK'
  BY <1>0, <1>2 DEF counters, CountTypeOK
<1>3. CASE EnsureIPSet(g)
  <2>1. TaskInv'
    BY <1>3, <1>a DEF EnsureIPSet
  <2>2. KernelTypeOK'
    BY <1>0, <1>3, KernelAside DEF EnsureIPSet, KernelTypeOK
  <2>3. QED
    BY <1>2, <1>3, <2>1, <2>2 DEF EnsureIPSet, SpaInv
<1>4. CASE Find(g)
  <2>1. TaskInv'
    BY <1>0, <1>4, <1>a, NextRuleInv, ReturnInv DEF Find, Fails
  <2>2. QED
    BY <1>1, <1>2, <1>4, <2>1 DEF Find, SpaInv
<1>5. CASE DeleteRule(g)
  <2>1. TaskInv'
    BY <1>0, <1>5, <1>a, ReturnInv DEF DeleteRule, Fails
  <2>2. KernelTypeOK'
    BY <1>0, <1>1, <1>5, DeleteInv DEF DeleteRule, kernel
  <2>3. QED
    BY <1>2, <1>5, <2>1, <2>2 DEF DeleteRule, SpaInv
<1>6. CASE Look(g)
  <2>1. TaskInv'
    BY <1>0, <1>6, <1>a, NextRuleInv, ReturnInv DEF Look, Fails
  <2>2. QED
    BY <1>1, <1>2, <1>6, <2>1 DEF Look, SpaInv
<1>7. CASE InsertRule(g)
  <2>1. TaskInv'
    BY <1>0, <1>7, NextRuleInv, ReturnInv DEF InsertRule, Fails
  <2>2. KernelTypeOK'
    BY <1>0, <1>1, <1>7, InsertInv DEF InsertRule, kernel
  <2>3. QED
    BY <1>2, <1>7, <2>1, <2>2 DEF InsertRule, SpaInv
<1>8. CASE List(g)
  <2>1. ~Enabling(g)
    BY <1>0, <1>8 DEF List, TaskInv, OnlyDisablingDestroys
  <2>2. TaskInv'
    <3>1. CASE Goto(g, "destroy") /\ UNCHANGED <<task, port, n, todo>>
      BY <1>0, <2>1, <3>1, GotoInv
    <3>2. CASE AfterDisable(g)
      BY <1>0, <3>2, AfterDisableInv
    <3>3. QED
      BY <1>8, <3>1, <3>2 DEF List
  <2>3. QED
    BY <1>1, <1>2, <1>8, <2>2 DEF List, SpaInv
<1>9. CASE Destroy(g)
  <2>1. TaskInv'
    BY <1>0, <1>9, AfterDisableInv, ReturnInv DEF Destroy, Fails
  <2>2. KernelTypeOK'
    BY <1>0, <1>1, <1>9, DestroyInv DEF Destroy, kernel
  <2>3. QED
    BY <1>2, <1>9, <2>1, <2>2 DEF Destroy, SpaInv
<1>10. CASE Store(g)
  <2>1. TaskInv'
    BY <1>0, <1>10, ReturnInv DEF Store
  <2>2. CountTypeOK'
    BY <1>0, <1>10 DEF Store, CountTypeOK, counters
  <2>3. QED
    BY <1>1, <1>10, <2>1, <2>2 DEF Store, SpaInv
<1>11. CASE Add(g)
  <2>1. TaskInv'
    BY <1>0, <1>11, ReturnInv DEF Add
  <2>2. granted' \in [Ports -> SUBSET IPs]
    BY <1>0, <1>11 DEF Add, KernelTypeOK
  <2>3. KernelTypeOK'
    BY <1>0, <1>11, <2>2, KernelAside DEF Add, KernelTypeOK
  <2>4. QED
    BY <1>2, <1>11, <2>1, <2>3 DEF Add, SpaInv
<1>12. QED
  BY <1>3, <1>4, <1>5, <1>6, <1>7, <1>8, <1>9, <1>10, <1>11 DEF Command

LEMMA RequestInv ==
    ASSUME SpaInv, NEW g \in Goroutines, NEW p \in Ports,
           Create(g, p) \/ Delete(g, p) \/ Allow(g, p)
    PROVE  SpaInv'
<1>0. TaskInv /\ KernelTypeOK /\ CountTypeOK /\ "create" \in Task /\ "delete" \in Task
  BY DEF SpaInv, Task
<1>1. KernelTypeOK' /\ CountTypeOK'
  <2>1. UNCHANGED kernel
    BY DEF Create, Delete, Allow
  <2>2. UNCHANGED <<db, faults>> /\ requests < MaxRequests /\ requests' = requests + 1
    BY DEF Create, Delete, Allow
  <2>3. KernelTypeOK'
    BY <1>0, <2>1, KernelAside DEF kernel, KernelTypeOK
  <2>4. CountTypeOK'
    BY <1>0, <2>2, BoundsAssumption DEF CountTypeOK
  <2>5. QED
    BY <2>3, <2>4
<1>2. CASE Create(g, p) \/ Delete(g, p)
  BY <1>0, <1>1, <1>2, BeginInv DEF Create, Delete, SpaInv
<1>3. CASE Allow(g, p)
  <2>0. "allow" \in Task /\ "add" \in Step
    BY DEF Task, Step
  <2>1. TaskTypeOK'
    BY <1>0, <1>3, <2>0 DEF Allow, Goto, TaskInv, TaskTypeOK
  <2>2. /\ step'[g] = "add"
        /\ \A h \in Goroutines \ {g} : step'[h] = step[h] /\ task'[h] = task[h]
    BY <1>0, <1>3 DEF Allow, Goto, TaskInv, TaskTypeOK
  <2>3. TaskInv'
    BY <1>0, <2>1, <2>2 DEF TaskInv, OnlyDisablingDestroys, Enabling
  <2>4. QED
    BY <1>1, <2>3 DEF SpaInv
<1>4. QED
  BY <1>2, <1>3

LEMMA ReapplyInv ==
    ASSUME SpaInv, NEW g \in Goroutines, Reapply(g)
    PROVE  SpaInv'
<1>0. TaskInv /\ KernelTypeOK /\ CountTypeOK /\ "reapply" \in Task
  BY DEF SpaInv, Task
<1>1. KernelTypeOK' /\ CountTypeOK'
  BY <1>0, KernelAside DEF Reapply, kernel, counters, KernelTypeOK, CountTypeOK
<1>2. CASE UNCHANGED <<task, step, port, n, todo>>
  BY <1>0, <1>1, <1>2 DEF SpaInv, TaskInv, TaskTypeOK, OnlyDisablingDestroys, Enabling
<1>3. ASSUME NEW ports \in SetToSeqs(db), ports # <<>>,
             Begin(g, "reapply", Head(ports)),
             todo' = [todo EXCEPT ![g] = Tail(ports)]
      PROVE  TaskInv'
  <2>1. IsFiniteSet(db) /\ Cardinality(db) \in Nat
    BY <1>0, PortsAssumption, FS_Subset, FS_CardinalityType DEF CountTypeOK
  <2>2. ports \in [1..Cardinality(db) -> db]
    BY DEF SetToSeqs
  <2>3. ports \in Seq(Ports)
    BY <1>0, <2>1, <2>2 DEF CountTypeOK
  <2>4. Head(ports) \in Ports /\ Tail(ports) \in Seq(Ports)
    BY <1>3, <2>3, HeadTailProperties
  <2>5. QED
    BY <1>0, <1>3, <2>4, BeginInv
<1>4. QED
  BY <1>1, <1>2, <1>3 DEF Reapply, SpaInv

LEMMA FaultInv ==
    ASSUME SpaInv, NEW g \in Goroutines, StoreFails(g) \/ CommandFails(g)
    PROVE  SpaInv'
<1>0. /\ TaskInv /\ KernelTypeOK /\ CountTypeOK
      /\ "uncreate" \in Task /\ "undelete" \in Task /\ port[g] \in Ports
  BY DEF SpaInv, Task, TaskInv, TaskTypeOK
<1>1. KernelTypeOK' /\ CountTypeOK'
  <2>1. UNCHANGED kernel
    BY DEF StoreFails, CommandFails
  <2>2. UNCHANGED <<db, requests>> /\ faults < MaxFaults /\ faults' = faults + 1
    BY DEF StoreFails, CommandFails
  <2>3. KernelTypeOK'
    BY <1>0, <2>1, KernelAside DEF kernel, KernelTypeOK
  <2>4. CountTypeOK'
    BY <1>0, <2>2, BoundsAssumption DEF CountTypeOK
  <2>5. QED
    BY <2>3, <2>4
<1>2. TaskInv'
  BY <1>0, BeginInv, ReturnInv DEF StoreFails, CommandFails, Fails
<1>3. QED
  BY <1>1, <1>2 DEF SpaInv

LEMMA RestartInv ==
    ASSUME SpaInv, Restart
    PROVE  SpaInv'
<1>0. TaskInv /\ KernelTypeOK /\ CountTypeOK
  BY DEF SpaInv
<1>1. TaskInv'
  <2>1. Len(Flows) \in Nat \ {0}
    BY FlowsAssumption
  <2>2. AnyPort \in Ports /\ 1 \in 1..NumRules
    BY <2>1, PortsAssumption DEF AnyPort, NumRules
  <2>3. QED
    BY <2>2 DEF Restart, TaskInv, TaskTypeOK, OnlyDisablingDestroys, Task, Step
<1>2. CountTypeOK'
  BY <1>0, BoundsAssumption DEF Restart, CountTypeOK
<1>3. KernelTypeOK'
  <2>1. CASE UNCHANGED kernel
    BY <1>0, <2>1, KernelAside DEF kernel, KernelTypeOK
  <2>2. CASE /\ chain' = [c \in Chains |-> <<>>] /\ sets' = {}
             /\ granted' = [p \in Ports |-> {}]
    BY <2>2 DEF KernelTypeOK, SetInUse, RulesIn, ToSet
  <2>3. QED
    BY <2>1, <2>2 DEF Restart
<1>4. QED
  BY <1>1, <1>2, <1>3 DEF SpaInv

LEMMA InitInv == Init => SpaInv
<1>1. Len(Flows) \in Nat \ {0}
  BY FlowsAssumption
<1>2. AnyPort \in Ports /\ 1 \in 1..NumRules
  BY <1>1, PortsAssumption DEF AnyPort, NumRules
<1>3. QED
  BY <1>2, BoundsAssumption
  DEF Init, SpaInv, TaskInv, TaskTypeOK, KernelTypeOK, CountTypeOK,
      OnlyDisablingDestroys, Task, Step, SetInUse, RulesIn, ToSet

LEMMA NextInv == SpaInv /\ [Next]_vars => SpaInv'
<1> SUFFICES ASSUME SpaInv, [Next]_vars PROVE SpaInv'
  OBVIOUS
<1>1. CASE UNCHANGED vars
  BY <1>1 DEF vars, SpaInv, TaskInv, TaskTypeOK, KernelTypeOK, CountTypeOK,
              OnlyDisablingDestroys, Enabling, SetInUse, RulesIn
<1>2. ASSUME NEW p \in Ports, Expire(p) PROVE SpaInv'
  <2>1. /\ granted' \in [Ports -> SUBSET IPs]
        /\ UNCHANGED <<db, chain, sets, task, step, port, n, todo, requests, faults>>
    BY <1>2 DEF Expire, SpaInv, KernelTypeOK, counters
  <2>2. KernelTypeOK'
    BY <2>1, KernelAside DEF SpaInv, KernelTypeOK
  <2>3. QED
    BY <2>1, <2>2 DEF SpaInv, TaskInv, TaskTypeOK, CountTypeOK,
                      OnlyDisablingDestroys, Enabling
<1>3. Requests \subseteq Goroutines /\ Maintainer \in Goroutines
  BY DEF Goroutines
<1>4. QED
  BY <1>1, <1>2, <1>3, CommandInv, RequestInv, ReapplyInv, FaultInv, RestartInv
  DEF Next

LEMMA InvIsTypeOK == SpaInv => TypeOK
  BY DEF SpaInv, TaskInv, TaskTypeOK, KernelTypeOK, CountTypeOK, TypeOK

(* Every variable has its type, and no rule matches against a set that the *)
(* kernel does not have.                                                   *)
THEOREM SpaTypeOK == Spec => []TypeOK
  BY InitInv, NextInv, InvIsTypeOK, PTL DEF Spec

-----------------------------------------------------------------------------
(* A member leaves a set by its timeout, with the host's restart, or with  *)
(* a set that is destroyed for a port that is being disabled.              *)
LEMMA MembersStay ==
    ASSUME SpaInv, [Next]_vars, step' # step,
           NEW p \in Ports, ~(granted[p] \subseteq granted'[p])
    PROVE  /\ p \notin sets'
           /\ \/ \E g \in Goroutines : /\ port[g] = p /\ step[g] = "destroy"
                                       /\ ~Enabling(g)
              \/ chain' = [c \in Chains |-> <<>>]
<1>0. granted' # granted /\ granted \in [Ports -> SUBSET IPs]
  BY DEF SpaInv, KernelTypeOK
<1>1. ASSUME NEW g \in Goroutines, Destroy(g)
      PROVE  port[g] = p /\ p \notin sets' /\ step[g] = "destroy" /\ ~Enabling(g)
  <2>1. /\ step[g] = "destroy" /\ ~Enabling(g)
        /\ sets' = sets \ {port[g]} /\ granted' = [granted EXCEPT ![port[g]] = {}]
    BY <1>0, <1>1 DEF Destroy, SpaInv, TaskInv, OnlyDisablingDestroys
  <2>2. port[g] = p
    BY <1>0, <2>1
  <2>3. QED
    BY <2>1, <2>2
<1>2. ASSUME NEW g \in Goroutines, Add(g) PROVE FALSE
  BY <1>0, <1>2 DEF Add
<1>3. CASE Restart
  BY <1>0, <1>3 DEF Restart, kernel
<1>4. ASSUME NEW g \in Goroutines,
             \/ Command(g) /\ ~Destroy(g) /\ ~Add(g)
             \/ StoreFails(g) \/ CommandFails(g)
      PROVE  FALSE
  BY <1>0, <1>4 DEF Command, EnsureIPSet, Find, DeleteRule, Look, InsertRule,
                    List, Store, StoreFails, CommandFails, kernel
<1>5. ASSUME NEW g, NEW q, \/ Create(g, q) \/ Delete(g, q) \/ Allow(g, q)
                           \/ Reapply(g) \/ Expire(q)
      PROVE  FALSE
  BY <1>0, <1>5 DEF Create, Delete, Allow, Reapply, Expire, kernel
<1>6. QED
  BY <1>0, <1>1, <1>2, <1>3, <1>4, <1>5 DEF Next, vars, Command

(* Re-applying a port never costs an address its access.                   *)
THEOREM ReapplyKeepsMembers == Spec => MembersSurviveReapply
<1>1. SpaInv /\ [Next]_vars =>
        [\A p \in Ports :
            step' # step /\ ~(granted[p] \subseteq granted'[p]) =>
                /\ p \notin sets'
                /\ \/ \E g \in Goroutines : /\ port[g] = p /\ step[g] = "destroy"
                                            /\ ~Enabling(g)
                   \/ chain' = [c \in Chains |-> <<>>]]_vars
  BY MembersStay
<1>2. QED
  BY <1>1, InitInv, NextInv, PTL DEF Spec, MembersSurviveReapply

=============================================================================

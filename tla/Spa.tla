-------------------------------- MODULE Spa --------------------------------
(***************************************************************************)
(* Single-packet authorisation: master/spa/spa.go, master/services/spa.go  *)
(* and master/db/spa.go.  A protected port has a row in the database, a    *)
(* kernel ipset of the addresses let through, and for each chain and       *)
(* protocol an ACCEPT rule for the members of the set followed by a DROP   *)
(* rule.  HTTP requests and the Maintain loop change these one shell       *)
(* command at a time, with no lock between them.                           *)
(***************************************************************************)
EXTENDS Naturals, Sequences, SequencesExt, FiniteSets

CONSTANTS
    Ports,        \* the ports an administrator protects
    IPs,          \* the addresses Allow lets through
    Chains,       \* the iptables chains: INPUT and FORWARD in the code
    Flows,        \* the (chain, protocol) pairs, in rulesForPort's order
    Requests,     \* the goroutines of HTTP requests
    Maintainer,   \* the goroutine of Maintain
    MaxRequests,  \* bound on the requests in a behaviour
    MaxFaults     \* bound on failed commands, failed queries and restarts

Goroutines == Requests \cup {Maintainer}

ASSUME FlowsAssumption ==
    /\ Flows # <<>> /\ Flows \in Seq(ToSet(Flows))
    /\ \A f \in DOMAIN Flows : Flows[f].chain \in Chains
ASSUME PortsAssumption == Ports # {} /\ IsFiniteSet(Ports)
ASSUME BoundsAssumption == MaxRequests \in Nat /\ MaxFaults \in Nat

VARIABLES
    db,        \* the ports with a row in spa_ports
    chain,     \* chain[c]: the rules of chain c, first match first
    sets,      \* the ports whose ipset exists
    granted,   \* granted[p]: the members of p's ipset
    task,      \* what each goroutine is doing
    step,      \* the command it runs next
    port,      \* the port it works on
    n,         \* the index in rulesForPort of the rule it works on
    todo,      \* the ports Reapply still has to do
    requests,  \* requests served so far
    faults     \* faults so far

kernel == <<chain, sets, granted>>
counters == <<requests, faults>>
vars == <<db, chain, sets, granted, task, step, port, n, todo, requests,
          faults>>

(* "uncreate" and "undelete" are the rollbacks of Create and Delete.       *)
Task == {"none", "create", "uncreate", "delete", "undelete", "allow",
         "reapply"}
Step == {"none", "query", "set", "find", "remove", "look", "insert", "list",
         "destroy", "store", "add"}

-----------------------------------------------------------------------------
(* rulesForPort                                                            *)

NumRules == 2 * Len(Flows)
FlowOf(i) == Flows[(i + 1) \div 2]
RuleAt(p, i) == [port |-> p, proto |-> FlowOf(i).proto,
                 target |-> IF i % 2 = 1 THEN "ACCEPT" ELSE "DROP"]

(* Bug: every rule goes to the head of its chain.                          *)
PositionHead(i) == 1

Position(i) == IF i % 2 = 1 THEN 1 ELSE 2

RulesIn(c) == ToSet(chain[c])
Uses(r, p) == r.port = p /\ r.target = "ACCEPT"
SetInUse(p) == \E c \in Chains : \E r \in RulesIn(c) : Uses(r, p)

TheChain(g) == FlowOf(n[g]).chain
TheRule(g) == RuleAt(port[g], n[g])
Present(g) == TheRule(g) \in RulesIn(TheChain(g))

(* iptables refuses to look at, to add or to delete a rule that names a    *)
(* set the kernel does not have; the exit code is not that of "no such     *)
(* rule", so the code takes it for an error.                               *)
Named(g) == TheRule(g).target = "ACCEPT" => port[g] \in sets

Enabling(g) == task[g] \in {"create", "undelete", "reapply"}

-----------------------------------------------------------------------------
AnyPort == CHOOSE p \in Ports : TRUE

Goto(g, s) == step' = [step EXCEPT ![g] = s]

(* The goroutine's operation returns.                                      *)
Return(g) ==
    /\ task' = [task EXCEPT ![g] = "none"]
    /\ step' = [step EXCEPT ![g] = "none"]
    /\ todo' = [todo EXCEPT ![g] = <<>>]
    /\ n' = [n EXCEPT ![g] = 1]
    /\ port' = [port EXCEPT ![g] = AnyPort]

(* Bug: an index that counts from zero.                                    *)
BeginAtZero(g, t, p) ==
    /\ task' = [task EXCEPT ![g] = t]
    /\ port' = [port EXCEPT ![g] = p]
    /\ n' = [n EXCEPT ![g] = 0]
    /\ Goto(g, IF t \in {"create", "undelete", "reapply"} THEN "set" ELSE "find")

(* EnableSPA(p) begins with the ipset, DisableSPA(p) with the rules.       *)
Begin(g, t, p) ==
    /\ task' = [task EXCEPT ![g] = t]
    /\ port' = [port EXCEPT ![g] = p]
    /\ n' = [n EXCEPT ![g] = 1]
    /\ Goto(g, IF t \in {"create", "undelete", "reapply"} THEN "set" ELSE "find")

(* A command failed: EnableSPA and DisableSPA return the error, and so     *)
(* does every caller, Reapply included, which gives up on the other ports. *)
Fails(g) == Return(g)

(* The next rule, or the end of EnableSPA or DisableSPA's loop.            *)
NextRule(g) ==
    \/ /\ n[g] < NumRules
       /\ n' = [n EXCEPT ![g] = @ + 1]
       /\ Goto(g, "find")
       /\ UNCHANGED <<task, port, todo>>
    \/ /\ n[g] = NumRules /\ ~Enabling(g)
       /\ Goto(g, "list")
       /\ UNCHANGED <<task, port, n, todo>>
    \/ /\ n[g] = NumRules /\ task[g] = "create"
       /\ Goto(g, "store")
       /\ UNCHANGED <<task, port, n, todo>>
    \/ /\ n[g] = NumRules /\ task[g] = "reapply" /\ todo[g] # <<>>
       /\ Begin(g, "reapply", Head(todo[g]))
       /\ todo' = [todo EXCEPT ![g] = Tail(@)]
    \/ /\ n[g] = NumRules
       /\ \/ task[g] = "reapply" /\ todo[g] = <<>>
          \/ task[g] = "undelete"
       /\ Return(g)

-----------------------------------------------------------------------------
(* The requests.                                                           *)

Create(g, p) ==
    /\ task[g] = "none" /\ requests < MaxRequests
    /\ Begin(g, "create", p)
    /\ requests' = requests + 1
    /\ UNCHANGED <<db, kernel, todo, faults>>

(* Delete's look at the row: with none it returns ErrSPAPortNotFound.      *)
Delete(g, p) ==
    /\ task[g] = "none" /\ requests < MaxRequests
    /\ p \in db
    /\ Begin(g, "delete", p)
    /\ requests' = requests + 1
    /\ UNCHANGED <<db, kernel, todo, faults>>

(* Allow's look at the row and the right password.                         *)
Allow(g, p) ==
    /\ task[g] = "none" /\ requests < MaxRequests
    /\ p \in db
    /\ task' = [task EXCEPT ![g] = "allow"]
    /\ port' = [port EXCEPT ![g] = p]
    /\ Goto(g, "add")
    /\ requests' = requests + 1
    /\ UNCHANGED <<db, kernel, n, todo, faults>>

(* Maintain's ticker fires, or main starts: Reapply takes the list of rows *)
(* and enables each.                                                       *)
Reapply(g) ==
    /\ task[g] = "none"
    /\ \/ /\ db = {}
          /\ UNCHANGED <<task, step, port, n, todo>>
       \/ \E ports \in SetToSeqs(db) :
            /\ ports # <<>>
            /\ Begin(g, "reapply", Head(ports))
            /\ todo' = [todo EXCEPT ![g] = Tail(ports)]
    /\ UNCHANGED <<db, kernel, counters>>

-----------------------------------------------------------------------------
(* The commands of EnableSPA and DisableSPA.                               *)

(* Bug: the set is made anew, which empties it.                            *)
EnsureEmptyIPSet(g) ==
    /\ step[g] = "set"
    /\ sets' = sets \cup {port[g]}
    /\ granted' = [granted EXCEPT ![port[g]] = {}]
    /\ Goto(g, "find")
    /\ UNCHANGED <<db, chain, task, port, n, todo, counters>>

(* ensureIPSet: create -exist changes nothing if the set is there.         *)
EnsureIPSet(g) ==
    /\ step[g] = "set"
    /\ sets' = sets \cup {port[g]}
    /\ Goto(g, "find")
    /\ UNCHANGED <<db, chain, granted, task, port, n, todo, counters>>

(* deleteAllMatchingRules: iptables -C.                                    *)
Find(g) ==
    /\ step[g] = "find"
    /\ \/ /\ ~Named(g)
          /\ Fails(g)
       \/ /\ Present(g)
          /\ Goto(g, "remove")
          /\ UNCHANGED <<task, port, n, todo>>
       \/ /\ Named(g) /\ ~Present(g) /\ Enabling(g)
          /\ Goto(g, "look")
          /\ UNCHANGED <<task, port, n, todo>>
       \/ /\ Named(g) /\ ~Present(g) /\ ~Enabling(g)
          /\ NextRule(g)
    /\ UNCHANGED <<db, kernel, counters>>

(* iptables -D deletes the first match and fails if there is none left.    *)
DeleteRule(g) ==
    /\ step[g] = "remove"
    /\ \/ /\ Present(g)
          /\ chain' = [chain EXCEPT ![TheChain(g)] = RemoveFirst(@, TheRule(g))]
          /\ Goto(g, "find")
          /\ UNCHANGED <<task, port, n, todo>>
       \/ /\ ~Present(g)
          /\ Fails(g)
          /\ UNCHANGED chain
    /\ UNCHANGED <<db, sets, granted, counters>>

(* ensureIptablesRule: iptables -C.                                        *)
Look(g) ==
    /\ step[g] = "look"
    /\ \/ /\ ~Named(g)
          /\ Fails(g)
       \/ /\ Present(g)
          /\ NextRule(g)
       \/ /\ Named(g) /\ ~Present(g)
          /\ Goto(g, "insert")
          /\ UNCHANGED <<task, port, n, todo>>
    /\ UNCHANGED <<db, kernel, counters>>

(* iptables -I also refuses a position beyond the end of the chain.        *)
Accepted(g) ==
    /\ Named(g)
    /\ Position(n[g]) <= Len(chain[TheChain(g)]) + 1

InsertRule(g) ==
    /\ step[g] = "insert"
    /\ \/ /\ Accepted(g)
          /\ chain' = [chain EXCEPT ![TheChain(g)] =
                            InsertAt(@, Position(n[g]), TheRule(g))]
          /\ NextRule(g)
       \/ /\ ~Accepted(g)
          /\ Fails(g)
          /\ UNCHANGED chain
    /\ UNCHANGED <<db, sets, granted, counters>>

(* destroyIPSet: ipset list; with no set DisableSPA is done.               *)
AfterDisable(g) ==
    \/ /\ task[g] = "delete"
       /\ Goto(g, "store")
       /\ UNCHANGED <<task, port, n, todo>>
    \/ task[g] = "uncreate" /\ Return(g)

List(g) ==
    /\ step[g] = "list"
    /\ \/ /\ port[g] \in sets
          /\ Goto(g, "destroy")
          /\ UNCHANGED <<task, port, n, todo>>
       \/ /\ port[g] \notin sets
          /\ AfterDisable(g)
    /\ UNCHANGED <<db, kernel, counters>>

(* ipset destroy fails on a set that a rule uses or that is gone.          *)
Destroy(g) ==
    /\ step[g] = "destroy"
    /\ \/ /\ port[g] \in sets /\ ~SetInUse(port[g])
          /\ sets' = sets \ {port[g]}
          /\ granted' = [granted EXCEPT ![port[g]] = {}]
          /\ AfterDisable(g)
       \/ /\ port[g] \notin sets \/ SetInUse(port[g])
          /\ Fails(g)
          /\ UNCHANGED <<sets, granted>>
    /\ UNCHANGED <<db, chain, counters>>

(* UpsertSPAPort and DeleteSPAPort; a row already gone is ErrNoRows, which *)
(* rolls nothing back.                                                     *)
Store(g) ==
    /\ step[g] = "store"
    /\ \/ task[g] = "create" /\ db' = db \cup {port[g]}
       \/ task[g] = "delete" /\ db' = db \ {port[g]}
    /\ Return(g)
    /\ UNCHANGED <<kernel, counters>>

(* The query fails: Create disables the port again and Delete enables it.  *)
StoreFails(g) ==
    /\ step[g] = "store" /\ faults < MaxFaults
    /\ \/ task[g] = "create" /\ Begin(g, "uncreate", port[g])
       \/ task[g] = "delete" /\ Begin(g, "undelete", port[g])
    /\ faults' = faults + 1
    /\ UNCHANGED <<db, kernel, todo, requests>>

(* AllowIP: ipset add.                                                     *)
Add(g) ==
    /\ step[g] = "add"
    /\ \/ /\ port[g] \in sets
          /\ \E ip \in IPs :
                granted' = [granted EXCEPT ![port[g]] = @ \cup {ip}]
       \/ /\ port[g] \notin sets
          /\ UNCHANGED granted
    /\ Return(g)
    /\ UNCHANGED <<db, chain, sets, counters>>

-----------------------------------------------------------------------------
(* The environment.                                                        *)

(* A command fails for a reason of its own.                                *)
CommandFails(g) ==
    /\ step[g] \in {"set", "find", "remove", "look", "insert", "list",
                    "destroy"}
    /\ faults < MaxFaults
    /\ Fails(g)
    /\ faults' = faults + 1
    /\ UNCHANGED <<db, kernel, requests>>

(* A member's timeout runs out.                                            *)
Expire(p) ==
    /\ \E ip \in granted[p] : granted' = [granted EXCEPT ![p] = @ \ {ip}]
    /\ UNCHANGED <<db, chain, sets, task, step, port, n, todo, counters>>

(* The master stops in the middle of what it was doing and starts again;   *)
(* the kernel's tables are kept unless the whole host restarted.           *)
Restart ==
    /\ faults < MaxFaults
    /\ task' = [g \in Goroutines |-> "none"]
    /\ step' = [g \in Goroutines |-> "none"]
    /\ todo' = [g \in Goroutines |-> <<>>]
    /\ n' = [g \in Goroutines |-> 1]
    /\ \/ UNCHANGED kernel
       \/ /\ chain' = [c \in Chains |-> <<>>]
          /\ sets' = {}
          /\ granted' = [p \in Ports |-> {}]
    /\ faults' = faults + 1
    /\ port' = [g \in Goroutines |-> AnyPort]
    /\ UNCHANGED <<db, requests>>

-----------------------------------------------------------------------------
Init ==
    /\ db = {}
    /\ chain = [c \in Chains |-> <<>>]
    /\ sets = {}
    /\ granted = [p \in Ports |-> {}]
    /\ task = [g \in Goroutines |-> "none"]
    /\ step = [g \in Goroutines |-> "none"]
    /\ port = [g \in Goroutines |-> AnyPort]
    /\ n = [g \in Goroutines |-> 1]
    /\ todo = [g \in Goroutines |-> <<>>]
    /\ requests = 0
    /\ faults = 0

Command(g) ==
    \/ EnsureIPSet(g) \/ Find(g) \/ DeleteRule(g) \/ Look(g) \/ InsertRule(g)
    \/ List(g) \/ Destroy(g) \/ Store(g) \/ Add(g)

Next ==
    \/ \E g \in Goroutines : Command(g) \/ StoreFails(g) \/ CommandFails(g)
    \/ \E g \in Requests, p \in Ports : Create(g, p) \/ Delete(g, p) \/ Allow(g, p)
    \/ Reapply(Maintainer)
    \/ \E p \in Ports : Expire(p)
    \/ Restart

(* Goroutines are scheduled, commands return, and the ticker ticks.        *)
Fairness ==
    /\ \A g \in Goroutines : WF_vars(Command(g))
    /\ WF_vars(Reapply(Maintainer))

Spec == Init /\ [][Next]_vars /\ Fairness

-----------------------------------------------------------------------------
Rule == [port: Ports, proto: {Flows[i].proto : i \in DOMAIN Flows},
         target: {"ACCEPT", "DROP"}]

(* Every variable has its type, and no rule matches against a set that the *)
(* kernel does not have.                                                   *)
TypeOK ==
    /\ db \subseteq Ports
    /\ chain \in [Chains -> Seq(Rule)]
    /\ sets \subseteq Ports
    /\ granted \in [Ports -> SUBSET IPs]
    /\ task \in [Goroutines -> Task]
    /\ step \in [Goroutines -> Step]
    /\ port \in [Goroutines -> Ports]
    /\ n \in [Goroutines -> 1..NumRules]
    /\ todo \in [Goroutines -> Seq(Ports)]
    /\ requests \in 0..MaxRequests
    /\ faults \in 0..MaxFaults
    /\ \A p \in Ports : SetInUse(p) => p \in sets

RulesOf(p, f) ==
    SelectSeq(chain[f.chain], LAMBDA r : r.port = p /\ r.proto = f.proto)

(* What EnableSPA promises for a port: members of the set get through in   *)
(* every flow and nobody else does.                                        *)
Protected(p) ==
    /\ p \in sets
    /\ \A i \in DOMAIN Flows :
        RulesOf(p, Flows[i]) =
            <<[port |-> p, proto |-> Flows[i].proto, target |-> "ACCEPT"],
              [port |-> p, proto |-> Flows[i].proto, target |-> "DROP"]>>

(* Maintain repairs whatever races between requests, failed commands,      *)
(* rollbacks and restarts leave behind: once they stop, each configured    *)
(* port is protected again, with its rules in order and no duplicates.     *)
ConfiguredPortsAreRepaired ==
    <>[](\A r \in Requests : task[r] = "none") => []<>(\A p \in db : Protected(p))

(* Re-applying a port never costs an address its access: short of a        *)
(* timeout, members leave a set only when the set is destroyed, and that   *)
(* happens only to a port that is being disabled (or with the host).       *)
MembersSurviveReapply ==
    [][\A p \in Ports :
        step' # step /\ ~(granted[p] \subseteq granted'[p]) =>
            /\ p \notin sets'
            /\ \/ \E g \in Goroutines : /\ port[g] = p /\ step[g] = "destroy"
                                        /\ ~Enabling(g)
               \/ chain' = [c \in Chains |-> <<>>]
      ]_vars

(* spa.go:11, "only allows traffic from IPs present in the ipset": when    *)
(* nothing is running and every command has succeeded, a configured port   *)
(* that blocks anybody lets the members of its set through first.          *)
MembersGetThrough ==
    (\A g \in Goroutines : task[g] = "none") =>
        \A p \in db, i \in DOMAIN Flows :
            RulesOf(p, Flows[i]) # <<>> =>
                Head(RulesOf(p, Flows[i])).target = "ACCEPT"

=============================================================================

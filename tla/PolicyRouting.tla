--------------------------- MODULE PolicyRouting ----------------------------
(***************************************************************************)
(* The policy-routing part of a plan (internal/apply/apply.go, ip.go): the *)
(* commands Plan builds for policies, routes and explicit ip rules, and    *)
(* what they do to the kernel's rule list, its routing tables, the         *)
(* registry file /etc/iproute2/rt_tables and the connections pinned by     *)
(* conntrack.  Each command is a step of its own, so connections open,     *)
(* devices come and go and the daemon dies between any two of them.  Only  *)
(* one plan runs at a time (theorem Serial of ApplyServerProofs).          *)
(*                                                                         *)
(* Data.  A source is one client address; an egress is a device name; the  *)
(* default route is the only route of a table.                             *)
(***************************************************************************)
EXTENDS Naturals, Sequences, FiniteSets

CONSTANTS
  Sources,        \* client addresses
  NameOrder,      \* egress names, in the order sort.Strings gives them
  Handmade,       \* rules an operator wrote by hand, outside the managed band
  Scenarios       \* what the control plane pushes, with bounds (see Scenario)

Main      == 254   \* the main table
Blackhole == 0     \* the action of a blackhole rule, in place of a table
NoTable   == 0     \* no line in rt_tables
All       == "all"
NoDevice  == "none"
TableBase == 100
DirectMark == 122  \* directFwMark
DirectPrio == 9000 \* directRulePrio
BandMin == 10000
BandMax == 10999

Egress == {NameOrder[i] : i \in DOMAIN NameOrder}
TableIds == TableBase..(TableBase + Len(NameOrder))

Policy == [action : {"egress", "direct"}, src : Sources, egress : Egress,
           dest : {"any", "list"}, prio : Nat, mark : Nat]
ExplicitRule == [from : Sources \cup {All}, prio : Nat, table : Nat]
Desired == [policies : SUBSET Policy, rules : SUBSET ExplicitRule,
            routes : SUBSET [dev : Egress, table : TableIds]]
Rule == [from : Sources \cup {All}, mark : Nat, prio : Nat, table : Nat]

\* A scenario: the desired states that are pushed, whether connections are looked at and the
\* conntrack tool is installed, and how many applies, failing commands, torn registry lines
\* and crashes or lost devices there are.
Scenario == [pushes : SUBSET Desired, flows : BOOLEAN, conntrack : BOOLEAN,
             applies : Nat, failures : Nat, torn : Nat, events : Nat]

ASSUME ScenariosAssumption == Scenarios \subseteq Scenario
ASSUME FiniteAssumption ==
  \A s \in Scenarios : \A D \in s.pushes :
    IsFiniteSet(D.policies) /\ IsFiniteSet(D.rules) /\ IsFiniteSet(D.routes)
ASSUME SourcesAssumption == All \notin Sources
\* No egress has the name of another exit, and the ids stay below those of the kernel's own tables, 253 to 255.
ASSUME NamesAssumption ==
  /\ NameOrder \in Seq(STRING)
  /\ Len(NameOrder) < 253 - TableBase
  /\ Egress \cap {NoDevice, "main", "blackhole"} = {}
ASSUME HandmadeAssumption ==
  Handmade \subseteq {r \in Rule : r.prio \notin BandMin..BandMax}

VARIABLES
  registry,   \* rt_tables: the id on the line of each egress, or NoTable
  ipRules,    \* ip rule show, without the kernel's own
  left,       \* those of them that a failing ip rule del left, and none has taken since
  route,      \* the device of each table's default route, or NoDevice
  up,         \* devices that exist
  flows,      \* exits over which conntrack keeps each source's connections
  racing,     \* those of them that opened while a plan ran
  todo,       \* what the running plan has left; its head is being executed
  step,       \* the next command of the head of todo, or "idle"
  keep,       \* the last plan's keep-list: (from, priority)
  wanted,     \* the rules the last plan installs
  desired,    \* what the last plan was built from
  clean,      \* no command of the last plan failed, reported or not, was skipped or cut off
  chosen,     \* egresses chosen for each source since its last clean apply
  scenario,   \* the scenario of this behaviour
  applies, failures, torn, events   \* counters

ruleVars  == <<ipRules, left>>
planVars  == <<todo, step, keep, wanted>>
countVars == <<scenario, applies, failures, torn, events>>
flowVars  == <<flows, racing>>
vars == <<registry, ruleVars, route, up, flowVars, planVars, desired, clean, chosen, countVars>>

-----------------------------------------------------------------------------
(* Plan *)

\* Sequences of a set's elements by priority, equal priorities in any order: Snapshot
\* sorts what it took out of a map, and the sort is not stable.
Snapshots(S) ==
  {q \in [1..Cardinality(S) -> S] :
     \A i, j \in DOMAIN q : i < j => q[i] # q[j] /\ q[i].prio <= q[j].prio}

Position(e) == CHOOSE i \in DOMAIN NameOrder : NameOrder[i] = e

\* Table ids: a registered egress keeps its id; new ones take, in name order, the ids
\* free from TableBase on.  Only netpolicyd's own lines count as used.
Selected(D) == {p.egress : p \in {q \in D.policies : q.action = "egress"}}
\* Mutant of UsedIds: the ids in rt_tables are not read.
UsedIdsNone == {}

UsedIds == {registry[e] : e \in Egress} \ {NoTable}
FreeId(k) == CHOOSE n \in TableIds :
               n \notin UsedIds /\ Cardinality({m \in TableBase..(n - 1) : m \notin UsedIds}) = k
\* Mutant of TableOf: ids by position, whatever is registered.
TableOfPosition(e, D) ==
  TableBase + Cardinality({d \in Selected(D) : Position(d) < Position(e)})

TableOf(e, D) ==
  IF registry[e] # NoTable THEN registry[e]
  ELSE FreeId(Cardinality({d \in Selected(D) : registry[d] = NoTable
                                               /\ Position(d) < Position(e)}))

\* The items of a plan.  An item is a run of commands: step is the first of them.
NoRule == [from |-> All, mark |-> 0, prio |-> 0, table |-> 0]
Item(s, e, tab, rule, mark) ==
  [step |-> s, egress |-> e, table |-> tab, rule |-> rule, mark |-> mark]

\* Names, sorted.
InNameOrder(S) ==
  {q \in [1..Cardinality(S) -> S] :
     \A i, j \in DOMAIN q : i < j => Position(q[i]) < Position(q[j])}
TableItems(names, D) ==
  [i \in DOMAIN names |-> Item("forget", names[i], TableOf(names[i], D), NoRule, NoRule)]

RouteItems(routes) ==
  [i \in DOMAIN routes |-> Item("route", routes[i].dev, routes[i].table, NoRule, NoRule)]

\* planIPRules; a rule without a priority gets 11000 and its position.
ipRulePrio(r, i) == IF r.prio > 0 THEN r.prio ELSE 11000 + i - 1
ExplicitRuleOf(r, i) == [from |-> r.from, mark |-> 0, prio |-> ipRulePrio(r, i), table |-> r.table]
RuleItems(rules) ==
  [i \in DOMAIN rules |->
     Item("delete", NoDevice, NoTable, ExplicitRuleOf(rules[i], i), NoRule)]

\* A policy's rule and its mark's rule.  Direct to a list has neither: it is marked.
PolicyRule(p, D) ==
  [from |-> p.src, mark |-> 0, prio |-> BandMin + p.prio,
   table |-> IF p.action = "egress" THEN TableOf(p.egress, D) ELSE Main]
MarkRule(p, D) ==
  IF p.action = "egress" /\ p.mark # 0
  THEN [from |-> All, mark |-> p.mark, prio |-> BandMin + p.prio + 1, table |-> TableOf(p.egress, D)]
  ELSE NoRule
HasRule(p) == p.action = "egress" \/ p.dest = "any"
\* The loop skips the other policies.
Ruled(D) == {p \in D.policies : HasRule(p)}
PolicyItem(p, D) ==
  Item(IF p.action = "egress" THEN "flush" ELSE "clear", p.egress,
       PolicyRule(p, D).table, PolicyRule(p, D), MarkRule(p, D))
PolicyItems(policies, D) == [i \in DOMAIN policies |-> PolicyItem(policies[i], D)]

\* One rule sends what any direct policy marked through main.
DirectRule == [from |-> All, mark |-> DirectMark, prio |-> DirectPrio, table |-> Main]
DirectItems(D) ==
  IF \E p \in D.policies : ~HasRule(p)
  THEN <<Item("clear", NoDevice, NoTable, DirectRule, NoRule)>> ELSE <<>>

Explicit(rules) == {ExplicitRuleOf(rules[i], i) : i \in DOMAIN rules}
PolicyRules(D)  == {PolicyRule(p, D) : p \in Ruled(D)}
\* Mutant of KeepList: only the explicit rules are kept.
KeepListExplicit(rules, D) ==
  {<<r.from, r.prio>> : r \in {q \in Explicit(rules) : q.from # All}}

KeepList(rules, D) ==
  {<<r.from, r.prio>> : r \in {q \in Explicit(rules) : q.from # All} \cup PolicyRules(D)}
Wanted(rules, D) ==
  Explicit(rules) \cup PolicyRules(D)
    \cup ({MarkRule(p, D) : p \in D.policies} \ {NoRule})
    \cup (IF DirectItems(D) = <<>> THEN {} ELSE {DirectRule})

\* Mutant of PruneItems: an empty keep-list prunes as well.
PruneItemsAlways(keepList) == <<Item("prune", NoDevice, NoTable, NoRule, NoRule)>>

\* Nothing is pruned when nothing is to be kept.
PruneItems(keepList) ==
  IF keepList = {} THEN <<>> ELSE <<Item("prune", NoDevice, NoTable, NoRule, NoRule)>>

Plan(names, policies, rules, routes, D) ==
  TableItems(names, D) \o RouteItems(routes) \o RuleItems(rules) \o PolicyItems(policies, D)
    \o DirectItems(D) \o PruneItems(KeepList(rules, D))

FirstStep(items) == IF items = <<>> THEN "idle" ELSE Head(items).step

\* The egresses D selects for s.
ChosenBy(D, s) == {p.egress : p \in {q \in D.policies : q.action = "egress" /\ q.src = s}}

\* An apply of D.
Start(D) ==
  /\ step = "idle"
  /\ applies < scenario.applies
  /\ applies' = applies + 1
  /\ \E names \in InNameOrder(Selected(D)), policies \in Snapshots(Ruled(D)),
        rules \in Snapshots(D.rules), routes \in [1..Cardinality(D.routes) -> D.routes] :
       /\ \A x \in D.routes : \E i \in DOMAIN routes : routes[i] = x
       /\ todo' = Plan(names, policies, rules, routes, D)
       /\ keep' = KeepList(rules, D)
       /\ wanted' = Wanted(rules, D)
  /\ step' = FirstStep(todo')
  /\ clean' = TRUE
  /\ desired' = D
  /\ chosen' = [s \in Sources |->
       (IF clean /\ keep # {} THEN ChosenBy(desired, s) ELSE chosen[s]) \cup ChosenBy(D, s)]
  /\ UNCHANGED <<registry, ruleVars, route, up, flowVars, scenario, failures, torn, events>>

-----------------------------------------------------------------------------
(* Commands *)

it == Head(todo)

\* The head's next command is s, or (Finish) the next item's first.
Continue(s) == step' = s /\ todo' = todo
\* Mutant of Finish: the plan stops after one item.
FinishIdle == todo' = Tail(todo) /\ step' = "idle"

Finish == todo' = Tail(todo) /\ step' = FirstStep(Tail(todo))

\* A command that fails is reported, or hides it, and the plan goes on.
Fails == failures < scenario.failures /\ failures' = failures + 1 /\ clean' = FALSE
envVars  == <<up, flowVars, scenario, applies, events>>
factVars == <<keep, wanted, desired, chosen>>

\* The registry line is rewritten by sed -i and echo >>, in one shell command.
Forget ==
  /\ step = "forget"
  /\ registry' = [registry EXCEPT ![it.egress] = NoTable]
  /\ Continue("register")
  /\ UNCHANGED <<ruleVars, route, clean, envVars, factVars, failures, torn>>

Register ==
  /\ step = "register"
  /\ registry' = [registry EXCEPT ![it.egress] = it.table]
  /\ Continue("route")
  /\ UNCHANGED <<ruleVars, route, clean, envVars, factVars, failures, torn>>

\* The line was deleted but could not be appended (the disk is full).  scenario.torn
\* bounds these and the crashes that have the same effect.
TornRegister ==
  /\ step = "register"
  /\ torn < scenario.torn
  /\ torn' = torn + 1
  /\ clean' = FALSE
  /\ Continue("route")
  /\ UNCHANGED <<registry, ruleVars, route, envVars, factVars, failures>>

ReplaceRoute ==
  /\ step = "route"
  /\ it.egress \in up
  /\ route' = [route EXCEPT ![it.table] = it.egress]
  /\ Finish
  /\ UNCHANGED <<registry, ruleVars, clean, envVars, factVars, failures, torn>>

\* The device is missing: the command is skipped, what follows is not.
SkipRoute ==
  /\ step = "route"
  /\ it.egress \notin up
  /\ clean' = FALSE
  /\ Finish
  /\ UNCHANGED <<registry, ruleVars, route, envVars, factVars, failures, torn>>

FailRoute ==
  /\ step = "route"
  /\ Fails
  /\ Finish
  /\ UNCHANGED <<registry, ruleVars, route, envVars, factVars, torn>>

\* Mutant of Selects: the table is a selector, too.
SelectsTable(s, r) ==
  s.from \in {All, r.from} /\ s.mark \in {0, r.mark} /\ s.prio = r.prio /\ s.table = r.table

\* What ip rule del selects with the source, the mark and the priority of s: a source or a
\* mark that is not given is not compared.
Selects(s, r) == s.from \in {All, r.from} /\ s.mark \in {0, r.mark} /\ s.prio = r.prio

\* The rules of S are deleted -- or an ip rule del fails, its error goes to /dev/null, and
\* some of them are left.
Delete(S) ==
  \/ /\ ipRules' = ipRules \ S /\ left' = left \ S
     /\ UNCHANGED <<clean, failures>>
  \/ /\ Fails
     /\ \E some \in SUBSET S \ {{}} :
          ipRules' = ipRules \ (S \ some) /\ left' = (left \ S) \cup some

\* What one ip rule del takes of the rules it selects: the first.
FirstOf(S) == {T \in SUBSET S : /\ \A r \in T, q \in S : r.prio <= q.prio
                                /\ Cardinality(T) = IF S = {} THEN 0 ELSE 1}

\* ip rule del with every selector and the table of the rule to come.
DeleteRule ==
  /\ step = "delete"
  /\ \E S \in FirstOf({r \in ipRules : Selects(it.rule, r) /\ r.table = it.rule.table}) : Delete(S)
  /\ Continue("add")
  /\ UNCHANGED <<registry, route, envVars, factVars, torn>>

\* Mutant of LooksElsewhere: the priority is compared instead of the table.
LooksElsewhereByPrio(r) == r.prio # it.rule.prio

LooksElsewhere(r) == r.table # it.table

\* conntrackFlushOnEgressChange: when the rule there now looks up another table -- if the tool
\* is there.  When it fails, its error is hidden.
Flush ==
  /\ step = "flush"
  /\ LET current == {r \in ipRules : /\ r.from = it.rule.from /\ r.prio = it.rule.prio
                                     /\ r.table # Blackhole}
         moved   == {r \in current : LooksElsewhere(r)}
         Flushes == scenario.conntrack /\ moved # {}
     IN  \/ /\ current = {} \/ current # moved \/ ~scenario.conntrack
            /\ UNCHANGED <<flowVars, clean, failures>>
         \/ /\ Flushes
            /\ flows'  = [flows EXCEPT ![it.rule.from] = {}]
            /\ racing' = [racing EXCEPT ![it.rule.from] = {}]
            /\ UNCHANGED <<clean, failures>>
         \/ /\ Flushes
            /\ Fails
            /\ UNCHANGED flowVars
  /\ Continue("clear")
  /\ UNCHANGED <<registry, ruleVars, route, up, scenario, applies, events, factVars, torn>>

\* while ip rule del ...; do :; done: every rule with the selectors and the priority.  Any
\* error ends the loop.
Clear ==
  /\ step = "clear"
  /\ Delete({r \in ipRules : Selects(it.rule, r)})
  /\ Continue("add")
  /\ UNCHANGED <<registry, route, envVars, factVars, torn>>

AfterAdd == IF it.mark = NoRule THEN Finish ELSE Continue("unmark")

\* A rule that is already there is an error, and stays.
AddRule ==
  /\ step = "add"
  /\ ipRules' = ipRules \cup {it.rule}
  /\ clean' = (clean /\ it.rule \notin ipRules)
  /\ AfterAdd
  /\ UNCHANGED <<registry, left, route, envVars, factVars, failures, torn>>

FailAdd ==
  /\ step = "add"
  /\ Fails
  /\ AfterAdd
  /\ UNCHANGED <<registry, ruleVars, route, envVars, factVars, torn>>

\* ip rule del fwmark M table T: the first rule that matches, whatever its priority.
Unmark ==
  /\ step = "unmark"
  /\ \E S \in FirstOf({r \in ipRules : r.mark = it.mark.mark /\ r.table = it.mark.table}) : Delete(S)
  /\ Continue("mark")
  /\ UNCHANGED <<registry, route, envVars, factVars, torn>>

AddMark ==
  /\ step = "mark"
  /\ ipRules' = ipRules \cup {it.mark}
  /\ clean' = (clean /\ it.mark \notin ipRules)
  /\ Finish
  /\ UNCHANGED <<registry, left, route, envVars, factVars, failures, torn>>

\* pruneIPRules: source rules of the managed band that are not on the keep-list.
\* Mutant of Managed: the band has no upper end.
ManagedOpen(r) == r.from # All /\ r.prio >= BandMin

Managed(r) == r.from # All /\ r.prio \in BandMin..BandMax
Prune ==
  /\ step = "prune"
  /\ Delete({r \in ipRules : Managed(r) /\ <<r.from, r.prio>> \notin keep})
  /\ Finish
  /\ UNCHANGED <<registry, route, envVars, factVars, torn>>

\* The daemon dies.  Its successor plans from an empty store until the next push:
\* Start with the empty desired state.
Crash ==
  /\ step # "idle"
  /\ events < scenario.events
  /\ events' = events + 1
  /\ IF step = "register" THEN torn < scenario.torn /\ torn' = torn + 1 ELSE torn' = torn
  /\ todo' = <<>>
  /\ step' = "idle"
  /\ clean' = FALSE
  /\ UNCHANGED <<registry, ruleVars, route, up, flowVars, factVars, scenario, applies, failures>>

-----------------------------------------------------------------------------
(* The host *)

\* Where a source's unmarked packets go: by the first rule for it, or for all sources, whose
\* table has a route, else through main.
Exit(r) == IF r.table \in TableIds THEN route[r.table]
           ELSE IF r.table = Blackhole THEN "blackhole" ELSE "main"
Exits(s) ==
  LET live  == {r \in ipRules : r.from \in {s, All} /\ r.mark = 0 /\ Exit(r) # NoDevice}
      first == {r \in live : \A q \in live : r.prio <= q.prio}
  IN  IF live = {} THEN {"main"} ELSE {Exit(r) : r \in first}

OpenFlow(s) ==
  /\ scenario.flows
  /\ \E x \in Exits(s) \ flows[s] :
       /\ flows'  = [flows EXCEPT ![s] = @ \cup {x}]
       /\ racing' = IF step = "idle" THEN racing ELSE [racing EXCEPT ![s] = @ \cup {x}]
  /\ UNCHANGED <<registry, ruleVars, route, up, todo, step, clean, factVars, countVars>>

DeviceGone(e) ==
  /\ e \in up
  /\ events < scenario.events
  /\ events' = events + 1
  /\ up' = up \ {e}
  /\ route' = [i \in TableIds |-> IF route[i] = e THEN NoDevice ELSE route[i]]
  /\ UNCHANGED <<registry, ruleVars, flowVars, todo, step, clean, factVars, scenario, applies, failures, torn>>

DeviceBack(e) ==
  /\ e \notin up
  /\ up' = up \cup {e}
  /\ UNCHANGED <<registry, ruleVars, route, flowVars, todo, step, clean, factVars, countVars>>

Init ==
  /\ registry = [e \in Egress |-> NoTable]
  /\ ipRules = Handmade /\ left = {}
  /\ route = [i \in TableIds |-> NoDevice]
  /\ up = Egress
  /\ flows = [s \in Sources |-> {}]
  /\ racing = flows
  /\ todo = <<>>
  /\ step = "idle"
  /\ keep = {}
  /\ wanted = {}
  /\ desired = [policies |-> {}, rules |-> {}, routes |-> {}]
  /\ clean = FALSE
  /\ chosen = [s \in Sources |-> {}]
  /\ scenario \in Scenarios
  /\ applies = 0 /\ failures = 0 /\ torn = 0 /\ events = 0

Command ==
  \/ Forget \/ Register \/ TornRegister \/ ReplaceRoute \/ SkipRoute \/ FailRoute
  \/ DeleteRule \/ Flush \/ Clear \/ AddRule \/ FailAdd \/ Unmark \/ AddMark \/ Prune

Next ==
  \/ \E D \in scenario.pushes : Start(D)
  \/ Command
  \/ Crash
  \/ \E s \in Sources : OpenFlow(s)
  \/ \E e \in Egress : DeviceGone(e) \/ DeviceBack(e)

Spec == Init /\ [][Next]_vars
-----------------------------------------------------------------------------
(* Properties *)

\* Every variable has its type.
TypeOK ==
  /\ registry \in [Egress -> TableIds \cup {NoTable}]
  /\ left \subseteq ipRules /\ ipRules \subseteq Rule
  /\ route \in [TableIds -> Egress \cup {NoDevice}]
  /\ up \subseteq Egress
  /\ {flows, racing} \subseteq [Sources -> SUBSET (Egress \cup {"main", "blackhole"})]
  /\ \A s \in Sources : racing[s] \subseteq flows[s]
  /\ \A i \in DOMAIN todo : todo[i].rule \in Rule /\ todo[i].mark \in Rule
  /\ (step = "idle") <=> (todo = <<>>)
  /\ keep \subseteq Sources \X Nat
  /\ wanted \subseteq Rule
  /\ scenario \in Scenarios
  /\ desired \in scenario.pushes \cup {[policies |-> {}, rules |-> {}, routes |-> {}]}
  /\ clean \in BOOLEAN
  /\ chosen \in [Sources -> SUBSET Egress]
  /\ applies \in Nat /\ failures \in Nat /\ torn \in Nat /\ events \in Nat

\* The rules a scenario's explicit rules may become, wherever a snapshot puts them.
Explicits(D) == {ExplicitRuleOf(x, i) : x \in D.rules, i \in 1..Cardinality(D.rules)}
Foreign(r) == r \in Handmade \/ \E D \in scenario.pushes : r \in Explicits(D)

\* Policies never leave a source with two rules at one priority: changing an egress never
\* leaves the old rule beside the new one (apply.go:218-226), whatever failed or died before.
\* Two are left when one of them is an explicit rule, whose delete names its table, or when an
\* ip rule del failed, which its loop hides, until a later one takes what that one left.
NoSiblings ==
  \A q, r \in ipRules :
    /\ q.from # All /\ q.from = r.from /\ q.prio = r.prio
    /\ ~Foreign(q) /\ ~Foreign(r) /\ {q, r} \cap left = {}
    => q = r

\* No command that deletes one of the rules a plan wants takes another of them.
Compatible ==
  \A q, r \in wanted :
    Selects(q, r) \/ (q.mark # 0 /\ q.mark = r.mark /\ q.table = r.table) => q = r

\* A command of a scenario's plans may delete h.
Addressed(h) ==
  \/ Selects(DirectRule, h)
  \/ \E D \in scenario.pushes :
       \/ \E e \in Explicits(D) : Selects(e, h) /\ e.table = h.table
       \/ \E p \in D.policies : Selects(PolicyRule(p, D), h) \/ (h.mark # 0 /\ p.mark = h.mark)

\* After a plan all of whose commands succeeded, those that hide their errors included, every
\* rule it wanted is there, and a source has no other rule in the managed band, however earlier
\* plans ended, unless the plan kept none or the rule has the priority of an explicit one.
\* What an operator wrote outside the band is always there, unless a policy or explicit rule has
\* its selectors (apply.go:513-515).
Converged ==
  /\ step = "idle" /\ clean =>
       /\ Compatible => wanted \subseteq ipRules
       /\ keep # {} => \A r \in ipRules : Managed(r) =>
            r \in wanted \/ \E x \in desired.rules : x.from = r.from /\ x.prio = r.prio
  /\ \A h \in Handmade : ~Addressed(h) => h \in ipRules

\* A client's route goes into a table by its number.
Rerouted(t) == \E D \in scenario.pushes : \E x \in D.routes : x.table = t

\* Only policies lead s through tables of egresses, from within the band, at priorities that
\* no explicit rule of s has.
OnlyPolicies(s) ==
  /\ \A h \in Handmade : h.from \in {s, All} /\ h.mark = 0 => h.table \notin TableIds
  /\ \A D \in scenario.pushes :
       /\ \A p \in D.policies : p.src = s => p.prio <= BandMax - BandMin
       /\ \A e \in Explicits(D) : e.from \in {s, All} => e.table \notin TableIds
       /\ \A e \in Explicits(D) : e.from = s =>
            \A C \in scenario.pushes : \A p \in C.policies : p.src = s => e.prio # BandMin + p.prio

\* Such a source, save for what is marked, leaves through main, a guard, or an egress chosen for
\* it by the running plan or one not replaced since -- never through a tunnel nobody selected
\* (apply.go:88-89), as long as every registry line that was removed was written again, and no
\* client's route is in a table its rules look up.
NeverElsewhere ==
  torn = 0 => \A s \in Sources :
    OnlyPolicies(s) /\ (\A r \in ipRules : r.from = s => ~Rerouted(r.table)) =>
      Exits(s) \subseteq chosen[s] \cup {"main", "blackhole"}

\* The table of an egress leads to that egress or nowhere, and to it alone, as long as
\* every registry line that was removed was written again, and no client's route goes there.
TablesLeadHome ==
  torn = 0 => \A e \in Egress : registry[e] # NoTable =>
    /\ Rerouted(registry[e]) \/ route[registry[e]] \in {e, NoDevice}
    /\ \A d \in Egress : registry[d] = registry[e] => d = e

\* A plan that wants no source rule -- the first after a restart -- removes none
\* (apply.go:416-425) but those that a rule it wants for all sources takes the place of.
EmptyPlanPrunesNothing ==
  [][keep' = {} =>
       \A r \in ipRules \ ipRules' : r.from # All => \E q \in wanted' : Selects(q, r)]_vars

\* Every push gives s an egress, by policies of one priority, and no explicit rule's delete
\* can take one of theirs.
AlwaysRouted(s) ==
  /\ OnlyPolicies(s)
  /\ \A D \in scenario.pushes :
       /\ ChosenBy(D, s) # {}
       /\ \A e \in Explicits(D) : e.table \notin TableIds
       /\ \A C \in scenario.pushes : \A p \in D.policies, q \in C.policies :
            p.src = s /\ q.src = s => p.prio = q.prio /\ p.action = "egress"

\* Where the conntrack tool is installed: after a plan all of whose commands succeeded, no
\* connection of such a source is left on another egress than those chosen (apply.go:228-240)
\* -- except for one that opened while a plan ran, between the flush and the new rule, and as
\* long as no command failed, no daemon died and no device went away: a plan that finds no
\* rule to compare flushes nothing.
FlowsFollowEgress ==
  scenario.conntrack /\ failures = 0 /\ torn = 0 /\ events = 0 /\ (\A e \in Egress : ~Rerouted(registry[e])) =>
    \A s \in Sources :
      step = "idle" /\ clean /\ AlwaysRouted(s) =>
        flows[s] \cap Egress \subseteq ChosenBy(desired, s) \cup racing[s]

(* What comments say and the code does not do. *)

\* The rule of a policy that is gone is pruned (apply.go:408-414): once a plan ran to its
\* end and had something to keep, a source has no rule but those it wants and those an
\* operator wrote.
GoneIsPruned ==
  step = "idle" /\ clean /\ keep # {} =>
    \A r \in ipRules \ Handmade : r.from # All => r \in wanted

\* While its guard stays desired, a source that is shut never gets out through main
\* (apply.go:188-193).
Guarded(s) == \E r \in desired.rules : r.from = s /\ r.table = Blackhole
FailClosed ==
  [][\A s \in Sources :
       Guarded(s) /\ Guarded(s)' /\ "main" \notin Exits(s) => "main" \notin Exits(s)']_vars
=============================================================================

---------------------------- MODULE RoutingProofs ----------------------------
(***************************************************************************)
(* Theorems about PolicyRouting, for every scenario: what is pushed, how   *)
(* often, and which commands fail, registry lines tear, devices go or      *)
(* daemons die.                                                            *)
(*                                                                         *)
(* The inductive invariant (IInv) says of a plan where it may be (Shape),  *)
(* what its items add (Kept), and, as long as none of its commands failed, *)
(* what of them is still to be done (Converging).  What a failing delete   *)
(* left stands apart from the rest (NoneLeft, Cleared).  Tables, Led and   *)
(* Following say the same of tables, of the rules that lead through them   *)
(* and of connections: a table belongs to the egress it is registered for, *)
(* promised to or being written for, to no other, and every rule and every *)
(* connection of a source agrees with that.                                *)
(*                                                                         *)
(* A plan is a sequence built from the sequences Plan's loops walk: the    *)
(* lemmas of the first sections say which items it has, whatever order the *)
(* snapshot gave them (PlanElems), and which table ids it finds (TablesOf).*)
(***************************************************************************)
EXTENDS PolicyRouting, FiniteSetTheorems, SequenceTheorems, WellFoundedInduction, TLAPS

-----------------------------------------------------------------------------
(* The inductive invariant *)

\* The items a plan for D may have, whatever tables it finds free.
To(p, t)     == [from |-> p.src, mark |-> 0, prio |-> BandMin + p.prio, table |-> t]
MarkTo(p, t) == [from |-> All, mark |-> p.mark, prio |-> BandMin + p.prio + 1, table |-> t]
Chosen(D)    == {p \in D.policies : p.action = "egress"}
MarksOf(D)   == {NoRule} \cup {MarkTo(p, t) : p \in {q \in Chosen(D) : q.mark # 0}, t \in TableIds}

ItemsOf(D) ==
  {Item("forget", e, t, NoRule, NoRule) : e \in Selected(D), t \in TableIds}
    \cup {Item("route", x.dev, x.table, NoRule, NoRule) : x \in D.routes}
    \cup {Item("delete", NoDevice, NoTable, r, NoRule) : r \in Explicits(D)}
    \cup {Item("flush", p.egress, t, To(p, t), m) :
             p \in Chosen(D), t \in TableIds, m \in MarksOf(D)}
    \cup {Item("clear", p.egress, Main, To(p, Main), NoRule) : p \in Ruled(D) \ Chosen(D)}
    \cup {Item("clear", NoDevice, NoTable, DirectRule, NoRule)}
    \cup {Item("prune", NoDevice, NoTable, NoRule, NoRule)}

\* The items the running plan has left, the one being executed among them.
Elems(q) == {q[i] : i \in DOMAIN q}
Left == Elems(todo)
Adds(x) == x.step \in {"delete", "flush", "clear"}

\* Where a plan may be: what is left of it is of the plan for desired, tables come first, and the
\* step is one of the head's.
Shape ==
  /\ todo \in Seq(ItemsOf(desired))
  /\ \A i, j \in DOMAIN todo : i < j /\ todo[j].step = "forget" => todo[i].step = "forget"
  /\ step = "idle" <=> todo = <<>>
  /\ todo # <<>> =>
       /\ desired \in scenario.pushes
       /\ \/ step = it.step
          \/ it.step = "forget" /\ step \in {"register", "route"}
          \/ Adds(it) /\ step = "add"
          \/ it.step = "flush" /\ step = "clear"
          \/ it.step = "flush" /\ it.mark # NoRule /\ step \in {"unmark", "mark"}

\* The policy or explicit rule that a place on the keep-list is for.
Source(k) ==
  \/ \E p \in Ruled(desired) : k = <<p.src, BandMin + p.prio>>
  \/ \E x \in desired.rules : k[1] = x.from /\ (k[2] = x.prio \/ k[2] >= 11000)

\* What the last plan wants: the rules of its items, all of which it keeps.
Kept ==
  /\ clean => desired \in scenario.pushes
  /\ \A w \in wanted : w # NoRule /\ (w.from # All => <<w.from, w.prio>> \in keep)
  /\ \A k \in keep : Source(k)
  /\ \A p \in Ruled(desired) : <<p.src, BandMin + p.prio>> \in keep
  /\ \A x \in Left :
       /\ Adds(x) => x.rule \in wanted
       /\ x.mark \in wanted \cup {NoRule}
       /\ x.step = "prune" => keep # {}

\* Between the delete and the add of a policy's rule there is none with its selectors, but for
\* what a failing delete left.
Cleared ==
  step = "add" /\ it.step # "delete" => \A r \in ipRules : Selects(it.rule, r) => r \in left

\* Only a failure leaves a rule.
NoneLeft == failures = 0 => left = {}

\* Only the operator and explicit rules say what all sources do.
WideForeign == \A r \in ipRules : r.from = All /\ r.mark = 0 => Foreign(r)

Untouched == \A h \in Handmade : ~Addressed(h) => h \in ipRules

\* What a plan without a failure has still to do before it converges.
Unadded(w) == \E x \in Left :
  \/ Adds(x) /\ x.rule = w /\ (x = it => step \notin {"unmark", "mark"})
  \/ x.mark = w
Uncleared(p) == \E x \in Left :
  /\ x.step \in {"flush", "clear"} /\ x.rule.from = p.src /\ x.rule.prio = BandMin + p.prio
  /\ x = it => step \in {"flush", "clear"}
Unpruned == \E x \in Left : x.step = "prune"

Converging ==
  clean =>
    /\ Compatible => \A w \in wanted : w \in ipRules \/ Unadded(w)
    /\ keep # {} => Unpruned \/ \A r \in ipRules : Managed(r) => <<r.from, r.prio>> \in keep
    /\ \A p \in Ruled(desired), r \in ipRules :
         r.from = p.src /\ r.prio = BandMin + p.prio => r \in wanted \/ Uncleared(p)

\* The table of an egress: the one registered, the one whose line is being rewritten, or
\* the one the running plan will register.
Holds(e, t) ==
  \/ registry[e] = t
  \/ step = "register" /\ it.egress = e /\ it.table = t
Promised(e, t) == \E x \in Left : x.step = "forget" /\ x.egress = e /\ x.table = t
Has(e, t) == registry[e] = t \/ Promised(e, t)

OneTable ==
  \A e, d \in Egress, t, u \in TableIds : Has(e, t) /\ Has(d, u) => (e = d <=> t = u)
Homes == \A t \in TableIds : route[t] # NoDevice => Rerouted(t) \/ Holds(route[t], t)
Registered == step = "route" /\ it.step = "forget" => registry[it.egress] = it.table
Tables == OneTable /\ Homes /\ Registered

\* Rules that lead policies' sources through tables lead them through those of egresses
\* chosen for them.
AtPolicy(r) == \E D \in scenario.pushes : \E p \in D.policies :
  p.src = r.from /\ r.prio = BandMin + p.prio
LedItems == \A x \in Left : x.step = "flush" => Has(x.egress, x.table)
LedRules(s) == \A r \in ipRules : r.from = s /\ r.mark = 0 /\ r.table \in TableIds =>
                 AtPolicy(r) /\ \E e \in chosen[s] : Holds(e, r.table)
LedWanted(s) == \A w \in wanted : w.from = s /\ w.table \in TableIds =>
                  \E e \in ChosenBy(desired, s) : Has(e, w.table)
Led ==
  /\ LedItems
  /\ \A s \in Sources :
       /\ ChosenBy(desired, s) \subseteq chosen[s]
       /\ OnlyPolicies(s) => LedRules(s)
       /\ OnlyPolicies(s) /\ clean => LedWanted(s)

\* The connections of a source that always has an egress, as far as they opened between plans.
Settled(s) == (flows[s] \cap Egress) \ racing[s]
OwnRules(s) == {r \in ipRules : r.from = s /\ AtPolicy(r)}
Flushed(s) == step \in {"clear", "add"} /\ it.step = "flush" /\ it.rule.from = s
Rerouting == \E t \in TableIds : Rerouted(t) /\ \E e \in Egress : Has(e, t)
OneOwn(s)  == \A q, r \in OwnRules(s) : q = r
OwnForm(s) == \A r \in OwnRules(s) : r.table \in TableIds /\ r.mark = 0
Settling(s) ==
  \A e \in Settled(s) :
    IF Flushed(s) THEN e = it.egress ELSE \E r \in OwnRules(s) : Holds(e, r.table)
Following ==
  scenario.conntrack /\ failures = 0 /\ events = 0 /\ ~Rerouting =>
    \A s \in Sources : AlwaysRouted(s) => OneOwn(s) /\ OwnForm(s) /\ Settling(s)

IInv ==
  /\ TypeOK /\ Shape /\ Kept /\ Cleared /\ NoneLeft /\ WideForeign
  /\ Untouched /\ NoSiblings /\ Converging
  /\ torn = 0 => Tables /\ Led /\ Following
-----------------------------------------------------------------------------
(* Table ids *)

\* Table ids are natural numbers and none of the ids and names with a meaning of their own.
LEMMA Constants ==
  /\ TableIds \subseteq Nat /\ Main \notin TableIds /\ Blackhole \notin TableIds
  /\ NoTable \notin TableIds /\ Len(NameOrder) \in Nat
  /\ NoDevice \notin Egress /\ "main" \notin Egress /\ "blackhole" \notin Egress
<1>1. Len(NameOrder) \in Nat /\ Len(NameOrder) < 253 - TableBase
  BY NamesAssumption
<1> QED BY <1>1, NamesAssumption DEF TableIds, TableBase, Main, Blackhole, NoTable

\* Position finds a name where NameOrder has it.
LEMMA Positions ==
  \A e \in Egress : Position(e) \in 1..Len(NameOrder) /\ NameOrder[Position(e)] = e
<1> SUFFICES ASSUME NEW e \in Egress
             PROVE  Position(e) \in 1..Len(NameOrder) /\ NameOrder[Position(e)] = e
  OBVIOUS
<1>1. DOMAIN NameOrder = 1..Len(NameOrder)
  BY NamesAssumption
<1>2. \E i \in DOMAIN NameOrder : NameOrder[i] = e
  BY DEF Egress
<1> QED BY <1>1, <1>2 DEF Position

\* There are no more egresses than names.
LEMMA EgressFinite == IsFiniteSet(Egress) /\ Cardinality(Egress) <= Len(NameOrder)
<1>1. NameOrder \in Surjection(1..Len(NameOrder), Egress)
  BY NamesAssumption DEF Surjection, Egress
<1>2. IsFiniteSet(1..Len(NameOrder)) /\ Cardinality(1..Len(NameOrder)) = Len(NameOrder)
  <2> DEFINE n == Len(NameOrder)
  <2>1. n \in Nat
    BY Constants
  <2> HIDE DEF n
  <2>2. 1 \in Int /\ n \in Int
    BY <2>1
  <2>3. IsFiniteSet(1..n) /\ Cardinality(1..n) = IF 1 > n THEN 0 ELSE n - 1 + 1
    BY <2>2, FS_Interval
  <2>4. IsFiniteSet(1..n) /\ Cardinality(1..n) = n
    BY <2>1, <2>3
  <2> QED BY <2>4 DEF n
<1> QED BY <1>1, <1>2, FS_Surjection

\* FreeId(k) is the id with k free ones below it, as long as more than k are free.
LEMMA FreeIds ==
  ASSUME UsedIds \subseteq TableIds, NEW k \in Nat,
         k + Cardinality(UsedIds) <= Len(NameOrder)
  PROVE  /\ FreeId(k) \in TableIds \ UsedIds
         /\ Cardinality({m \in TableBase..(FreeId(k) - 1) : m \notin UsedIds}) = k
<1> DEFINE Free(n) == {m \in TableBase..n : m \notin UsedIds}
           Full    == {n \in TableIds : Cardinality(Free(n)) > k}
           Below   == {p \in Nat \X Nat : p[1] < p[2]}
           Top     == TableBase + Len(NameOrder)
<1>1. TableBase \in Nat /\ Top \in TableIds /\ TableIds = TableBase..Top
  BY Constants DEF TableIds, TableBase
<1>2. \A n \in Int : IsFiniteSet(Free(n)) /\ Cardinality(Free(n)) \in Nat
  <2> SUFFICES ASSUME NEW n \in Int
               PROVE  IsFiniteSet(Free(n)) /\ Cardinality(Free(n)) \in Nat
    OBVIOUS
  <2>1. TableBase \in Int
    BY <1>1
  <2>2. IsFiniteSet(TableBase..n) /\ Free(n) \subseteq TableBase..n
    BY <2>1, FS_Interval
  <2> QED BY <2>2, FS_Subset, FS_CardinalityType
<1>3. Top \in Full
  <2>1. IsFiniteSet(TableIds) /\ Cardinality(TableIds) = Len(NameOrder) + 1
    BY <1>1, Constants, FS_Interval DEF TableBase
  <2>2. IsFiniteSet(UsedIds) /\ Cardinality(UsedIds) \in Nat
    BY <2>1, FS_Subset, FS_CardinalityType
  <2>3. TableIds = Free(Top) \cup UsedIds /\ Free(Top) \cap UsedIds = {}
    BY <1>1
  <2>4. IsFiniteSet(Free(Top)) /\ Cardinality(Free(Top)) \in Nat
    BY <1>1, <1>2
  <2> HIDE DEF Free, Top
  <2>5. Cardinality(TableIds) = Cardinality(Free(Top)) + Cardinality(UsedIds) - Cardinality({})
    BY <2>2, <2>3, <2>4, FS_Union
  <2>6. Cardinality(TableIds) = Cardinality(Free(Top)) + Cardinality(UsedIds)
    BY <2>2, <2>4, <2>5, FS_EmptySet
  <2> QED BY <1>1, <2>1, <2>2, <2>4, <2>6, Constants
<1>4. PICK n \in Full : \A j \in Full : ~(<<j, n>> \in Below)
  <2>1. Full \subseteq Nat
    BY Constants
  <2>2. IsWellFoundedOn(Below, Nat)
    BY NatLessThanWellFounded DEF OpToRel
  <2> QED BY <1>3, <2>1, <2>2, WFMin
<1>5. n \in TableIds /\ n \in Nat /\ Cardinality(Free(n)) > k
  BY Constants
<1>6. Cardinality(Free(n - 1)) <= k
  <2>1. CASE n = TableBase
    <3>1. Free(n - 1) = {}
      BY <1>1, <2>1
    <3>2. Cardinality(Free(n - 1)) = 0
      BY <3>1, FS_EmptySet
    <3> HIDE DEF Free
    <3> QED BY <3>2
  <2>2. CASE n # TableBase
    <3>1. n - 1 \in TableIds /\ n - 1 \in Nat /\ n - 1 < n
      BY <1>1, <1>5, <2>2
    <3>2. n - 1 \notin Full
      BY <1>4, <1>5, <3>1
    <3>3. ~(Cardinality(Free(n - 1)) > k)
      BY <3>1, <3>2
    <3> HIDE DEF Free
    <3> QED BY <1>2, <3>1, <3>3
  <2> QED BY <2>1, <2>2
<1>7. n \notin UsedIds /\ Cardinality(Free(n)) = Cardinality(Free(n - 1)) + 1
  <2>1. n \in UsedIds => Free(n) = Free(n - 1)
    BY <1>1, <1>5
  <2>2. n \notin UsedIds => Free(n) = Free(n - 1) \cup {n} /\ n \notin Free(n - 1)
    BY <1>1, <1>5
  <2> HIDE DEF Free
  <2>3. IsFiniteSet(Free(n - 1)) /\ Cardinality(Free(n - 1)) \in Nat /\ Cardinality(Free(n)) \in Nat
    BY <1>2, <1>5
  <2>4. n \notin UsedIds => Cardinality(Free(n)) = Cardinality(Free(n - 1)) + 1
    BY <2>2, <2>3, FS_AddElement
  <2> QED BY <1>5, <1>6, <2>1, <2>3, <2>4
<1>8. Cardinality(Free(n - 1)) = k
  <2> HIDE DEF Free
  <2> QED BY <1>2, <1>5, <1>6, <1>7
<1> QED BY <1>5, <1>7, <1>8 DEF FreeId

\* An egress that is selected and has no table gets one of its own that is free.
LEMMA NewTables ==
  ASSUME registry \in [Egress -> TableIds \cup {NoTable}],
         NEW D \in Desired, NEW e \in Selected(D), registry[e] = NoTable
  PROVE  /\ TableOf(e, D) \in TableIds \ UsedIds
         /\ Cardinality({m \in TableBase..(TableOf(e, D) - 1) : m \notin UsedIds})
              = Cardinality({d \in Selected(D) : registry[d] = NoTable /\ Position(d) < Position(e)})
<1> DEFINE Known == {d \in Egress : registry[d] # NoTable}
           New   == {d \in Egress : registry[d] = NoTable}
           Prior == {d \in Selected(D) : registry[d] = NoTable /\ Position(d) < Position(e)}
<1>1. Selected(D) \subseteq Egress
  BY DEF Selected, Desired, Policy
<1>2. IsFiniteSet(Known) /\ IsFiniteSet(New) /\ IsFiniteSet(Prior) /\ Prior \subseteq New
  BY <1>1, EgressFinite, FS_Subset
<1>3. Cardinality(Known) \in Nat /\ Cardinality(New) \in Nat /\ Cardinality(Prior) \in Nat
  BY <1>2, FS_CardinalityType
<1>4. Cardinality(Known) + Cardinality(New) <= Len(NameOrder)
  <2>1. Known \cup New = Egress /\ Known \cap New = {}
    OBVIOUS
  <2> HIDE DEF Known, New
  <2>2. Cardinality(Egress) = Cardinality(Known) + Cardinality(New) - Cardinality({})
    BY <1>2, <2>1, FS_Union
  <2>3. Cardinality(Egress) = Cardinality(Known) + Cardinality(New)
    BY <1>3, <2>2, FS_EmptySet
  <2> QED BY <2>3, EgressFinite
<1>5. Cardinality(Prior) < Cardinality(New)
  <2>1. e \in New /\ e \notin Prior /\ Prior \cup {e} \subseteq New
    BY <1>1, Positions
  <2>2. Cardinality(Prior \cup {e}) = Cardinality(Prior) + 1
    BY <1>2, <2>1, FS_AddElement
  <2>3. Cardinality(Prior \cup {e}) <= Cardinality(New)
    BY <1>2, <2>1, FS_Subset
  <2> QED BY <1>3, <2>2, <2>3
<1>6. UsedIds \subseteq TableIds /\ Cardinality(UsedIds) \in Nat
      /\ Cardinality(UsedIds) <= Cardinality(Known)
  <2>1. [d \in Known |-> registry[d]] \in Surjection(Known, UsedIds)
    BY DEF Surjection, UsedIds
  <2>2. IsFiniteSet(UsedIds) /\ Cardinality(UsedIds) <= Cardinality(Known)
    BY <1>2, <2>1, FS_Surjection
  <2> QED BY <2>2, FS_CardinalityType DEF UsedIds
<1>7. TableOf(e, D) = FreeId(Cardinality(Prior))
  BY DEF TableOf
<1> HIDE DEF Known, New
<1>8. Cardinality(Prior) + Cardinality(UsedIds) <= Len(NameOrder)
  BY <1>3, <1>4, <1>5, <1>6, Constants
<1> QED BY <1>3, <1>6, <1>7, <1>8, FreeIds

\* The tables of a plan: an egress has the one that is registered, and no two have the same
\* if no two registered ones have.
LEMMA TablesOf ==
  ASSUME registry \in [Egress -> TableIds \cup {NoTable}], NEW D \in Desired
  PROVE  /\ \A e \in Selected(D) : e \in Egress /\ TableOf(e, D) \in TableIds
         /\ \A e \in Egress : registry[e] # NoTable => TableOf(e, D) = registry[e]
         /\ \A d \in Egress, e \in Selected(D) :
              registry[e] = NoTable => registry[d] # TableOf(e, D)
         /\ \A d, e \in Selected(D) :
              registry[d] = NoTable /\ registry[e] = NoTable /\ TableOf(d, D) = TableOf(e, D) => d = e
<1>1. Selected(D) \subseteq Egress
  BY DEF Selected, Desired, Policy
<1>2. \A e \in Egress : registry[e] # NoTable => TableOf(e, D) = registry[e]
  BY DEF TableOf
<1>3. ASSUME NEW e \in Selected(D) PROVE TableOf(e, D) \in TableIds
  BY <1>1, <1>2, NewTables
<1>4. ASSUME NEW d \in Egress, NEW e \in Selected(D), registry[e] = NoTable
      PROVE  registry[d] # TableOf(e, D)
  <2>1. TableOf(e, D) \in TableIds \ UsedIds
    BY <1>4, NewTables
  <2> QED BY <2>1, Constants DEF UsedIds
<1>5. ASSUME NEW d \in Selected(D), NEW e \in Selected(D), registry[d] = NoTable,
             registry[e] = NoTable, TableOf(d, D) = TableOf(e, D)
      PROVE  ~(Position(d) < Position(e))
  <2> DEFINE Prior(x) == {c \in Selected(D) : registry[c] = NoTable /\ Position(c) < Position(x)}
  <2>1. Cardinality(Prior(d)) = Cardinality(Prior(e))
    BY <1>5, NewTables
  <2> SUFFICES ASSUME Position(d) < Position(e) PROVE FALSE
    OBVIOUS
  <2>2. \A c \in Selected(D) : Position(c) \in Nat
    BY <1>1, Positions
  <2>3. Prior(d) \subseteq Prior(e) /\ d \in Prior(e) /\ d \notin Prior(d)
    BY <1>5, <2>2
  <2>4. IsFiniteSet(Prior(e))
    BY <1>1, EgressFinite, FS_Subset
  <2>5. Prior(d) = Prior(e)
    BY <2>1, <2>3, <2>4, FS_Subset
  <2> QED BY <2>3, <2>5
<1>6. ASSUME NEW d \in Selected(D), NEW e \in Selected(D), registry[d] = NoTable,
             registry[e] = NoTable, TableOf(d, D) = TableOf(e, D)
      PROVE  d = e
  <2>1. ~(Position(d) < Position(e)) /\ ~(Position(e) < Position(d))
    BY <1>5, <1>6
  <2> QED BY <1>1, <2>1, Positions
<1> QED BY <1>1, <1>2, <1>3, <1>4, <1>6
-----------------------------------------------------------------------------
(* What Plan builds *)

\* A duplicate-free list as long as its set has all the elements of the set.
LEMMA Listed ==
  ASSUME NEW S, IsFiniteSet(S), NEW q \in [1..Cardinality(S) -> S],
         \A i, j \in DOMAIN q : i < j => q[i] # q[j]
  PROVE  Elems(q) = S
<1>1. Cardinality(S) \in Nat
  BY FS_CardinalityType
<1> DEFINE n == Cardinality(S)
<1>2. \A i, j \in 1..n : q[i] = q[j] => i = j
  <2> SUFFICES ASSUME NEW i \in 1..n, NEW j \in 1..n, q[i] = q[j] PROVE i = j
    OBVIOUS
  <2>1. ~(i < j) /\ ~(j < i)
    OBVIOUS
  <2> HIDE DEF n
  <2> QED BY <1>1, <2>1 DEF n
<1>3. q \in Injection(1..n, S)
  <2>1. q \in [1..n -> S]
    OBVIOUS
  <2> HIDE DEF n
  <2> QED BY <1>2, <2>1 DEF Injection, IsInjective
<1>4. Cardinality(1..n) = n
  <2> HIDE DEF n
  <2>1. n \in Nat /\ 1 \in Int /\ n \in Int
    BY <1>1 DEF n
  <2>2. Cardinality(1..n) = IF 1 > n THEN 0 ELSE n - 1 + 1
    BY <2>1, FS_Interval
  <2> QED BY <2>1, <2>2
<1>5. q \in Surjection(1..n, S)
  BY <1>3, <1>4, FS_Injection
<1> QED BY <1>5 DEF Surjection, Elems

\* A function on 1..n is a sequence.
LEMMA SeqOf ==
  ASSUME NEW S, NEW T, S \subseteq T, NEW n \in Nat, NEW q \in [1..n -> S]
  PROVE  q \in Seq(T)
<1>1. q \in [1..n -> T]
  OBVIOUS
<1> QED BY <1>1, SeqDef

\* The elements of a concatenation are those of its parts.
LEMMA ConcatElems ==
  ASSUME NEW S, NEW p \in Seq(S), NEW q \in Seq(S)
  PROVE  p \o q \in Seq(S) /\ Elems(p \o q) = Elems(p) \cup Elems(q)
<1>1. /\ p \o q \in Seq(S) /\ Len(p \o q) = Len(p) + Len(q)
      /\ \A i \in 1..Len(p) + Len(q) : (p \o q)[i] = IF i <= Len(p) THEN p[i] ELSE q[i - Len(p)]
  BY ConcatProperties
<1>2. /\ DOMAIN (p \o q) = 1..(Len(p) + Len(q)) /\ DOMAIN p = 1..Len(p) /\ DOMAIN q = 1..Len(q)
      /\ Len(p) \in Nat /\ Len(q) \in Nat
  BY <1>1
<1>3. ASSUME NEW i \in DOMAIN p PROVE p[i] \in Elems(p \o q)
  BY <1>1, <1>2 DEF Elems
<1>4. ASSUME NEW i \in DOMAIN q PROVE q[i] \in Elems(p \o q)
  <2>1. i + Len(p) \in DOMAIN (p \o q) /\ (p \o q)[i + Len(p)] = q[i]
    BY <1>1, <1>2
  <2> QED BY <2>1 DEF Elems
<1>5. ASSUME NEW i \in DOMAIN (p \o q) PROVE (p \o q)[i] \in Elems(p) \cup Elems(q)
  <2>1. CASE i <= Len(p)
    <3>1. i \in DOMAIN p /\ (p \o q)[i] = p[i]
      BY <1>1, <1>2, <2>1
    <3> QED BY <3>1 DEF Elems
  <2>2. CASE ~(i <= Len(p))
    <3>1. i - Len(p) \in DOMAIN q /\ (p \o q)[i] = q[i - Len(p)]
      BY <1>1, <1>2, <2>2
    <3> QED BY <3>1 DEF Elems
  <2> QED BY <2>1, <2>2
<1> QED BY <1>1, <1>3, <1>4, <1>5 DEF Elems

\* The choices of an apply of D, and what they have in common.
Choices(D, names, policies, rules, routes) ==
  /\ names \in InNameOrder(Selected(D)) /\ policies \in Snapshots(Ruled(D))
  /\ rules \in Snapshots(D.rules) /\ routes \in [1..Cardinality(D.routes) -> D.routes]
Finite(D) == IsFiniteSet(D.policies) /\ IsFiniteSet(D.rules) /\ IsFiniteSet(D.routes)

\* Each of Plan's loops walks all of the set it walks.
LEMMA Lists ==
  ASSUME NEW D \in Desired, Finite(D), NEW names, NEW policies, NEW rules, NEW routes,
         Choices(D, names, policies, rules, routes)
  PROVE  /\ Elems(names) = Selected(D) /\ names \in Seq(Egress)
         /\ Elems(policies) = Ruled(D) /\ policies \in Seq(Policy)
         /\ Elems(rules) = D.rules /\ rules \in Seq(ExplicitRule)
         /\ DOMAIN rules = 1..Cardinality(D.rules)
         /\ Elems(routes) \subseteq D.routes /\ routes \in Seq([dev : Egress, table : TableIds])
<1>1. Selected(D) \subseteq Egress /\ Ruled(D) \subseteq D.policies /\ D.policies \subseteq Policy
      /\ D.rules \subseteq ExplicitRule /\ D.routes \subseteq [dev : Egress, table : TableIds]
  BY DEF Selected, Ruled, Desired, Policy
<1>2. IsFiniteSet(Selected(D)) /\ IsFiniteSet(Ruled(D)) /\ IsFiniteSet(D.rules)
      /\ IsFiniteSet(D.routes)
  BY <1>1, EgressFinite, FS_Subset DEF Finite
<1>3. Cardinality(Selected(D)) \in Nat /\ Cardinality(Ruled(D)) \in Nat
      /\ Cardinality(D.rules) \in Nat /\ Cardinality(D.routes) \in Nat
  BY <1>2, FS_CardinalityType
<1>4. names \in [1..Cardinality(Selected(D)) -> Selected(D)]
      /\ policies \in [1..Cardinality(Ruled(D)) -> Ruled(D)]
      /\ rules \in [1..Cardinality(D.rules) -> D.rules]
      /\ routes \in [1..Cardinality(D.routes) -> D.routes]
  BY DEF Choices, InNameOrder, Snapshots
<1>5. Elems(names) = Selected(D)
  <2>1. \A i, j \in DOMAIN names : i < j => Position(names[i]) < Position(names[j])
    BY DEF Choices, InNameOrder
  <2>2. \A i \in DOMAIN names : Position(names[i]) \in Nat
    BY <1>1, <1>4, Positions
  <2>3. \A i, j \in DOMAIN names : i < j => names[i] # names[j]
    BY <2>1, <2>2
  <2> QED BY <1>2, <1>4, <2>3, Listed
<1>6. Elems(policies) = Ruled(D)
  BY <1>2, <1>4, Listed DEF Choices, Snapshots
<1>7. Elems(rules) = D.rules
  BY <1>2, <1>4, Listed DEF Choices, Snapshots
<1>8. Elems(routes) \subseteq D.routes
  BY <1>4 DEF Elems
<1>9. names \in Seq(Egress) /\ policies \in Seq(Policy) /\ rules \in Seq(ExplicitRule)
      /\ routes \in Seq([dev : Egress, table : TableIds])
  <2>1. names \in Seq(Egress)
    BY <1>1, <1>3, <1>4, SeqOf
  <2>2. policies \in Seq(Policy)
    BY <1>1, <1>3, <1>4, SeqOf
  <2>3. rules \in Seq(ExplicitRule)
    BY <1>1, <1>3, <1>4, SeqOf
  <2>4. routes \in Seq([dev : Egress, table : TableIds])
    BY <1>1, <1>3, <1>4, SeqOf
  <2> QED BY <2>1, <2>2, <2>3, <2>4
<1> QED BY <1>4, <1>5, <1>6, <1>7, <1>8, <1>9

TablesFirst(q) ==
  \A i, j \in DOMAIN q : i < j /\ q[j].step = "forget" => q[i].step = "forget"

\* Tables stay first when items of other kinds follow.
LEMMA ConcatFirst ==
  ASSUME NEW S, NEW p \in Seq(S), NEW q \in Seq(S), TablesFirst(p),
         \A x \in Elems(q) : x.step # "forget"
  PROVE  TablesFirst(p \o q)
<1>1. /\ p \o q \in Seq(S) /\ Len(p \o q) = Len(p) + Len(q)
      /\ \A i \in 1..Len(p) + Len(q) : (p \o q)[i] = IF i <= Len(p) THEN p[i] ELSE q[i - Len(p)]
  BY ConcatProperties
<1>2. /\ DOMAIN (p \o q) = 1..(Len(p) + Len(q)) /\ DOMAIN p = 1..Len(p) /\ DOMAIN q = 1..Len(q)
      /\ Len(p) \in Nat /\ Len(q) \in Nat
  BY <1>1
<1> SUFFICES ASSUME NEW i \in DOMAIN (p \o q), NEW j \in DOMAIN (p \o q), i < j,
                    (p \o q)[j].step = "forget"
             PROVE  (p \o q)[i].step = "forget"
  BY DEF TablesFirst
<1>3. j <= Len(p)
  <2> SUFFICES ASSUME ~(j <= Len(p)) PROVE FALSE
    OBVIOUS
  <2>1. j - Len(p) \in DOMAIN q /\ (p \o q)[j] = q[j - Len(p)]
    BY <1>1, <1>2
  <2> QED BY <2>1 DEF Elems
<1>4. i \in DOMAIN p /\ j \in DOMAIN p /\ (p \o q)[i] = p[i] /\ (p \o q)[j] = p[j]
  BY <1>1, <1>2, <1>3
<1> QED BY <1>4 DEF TablesFirst

\* The items that register tables: one for each selected egress.
LEMMA TableElems ==
  ASSUME registry \in [Egress -> TableIds \cup {NoTable}], NEW D \in Desired,
         NEW names \in Seq(Egress), Elems(names) = Selected(D)
  PROVE  /\ TableItems(names, D) \in Seq(ItemsOf(D)) /\ TablesFirst(TableItems(names, D))
         /\ Elems(TableItems(names, D))
              = {Item("forget", e, TableOf(e, D), NoRule, NoRule) : e \in Selected(D)}
<1>1. \A i \in DOMAIN names : TableItems(names, D)[i] \in ItemsOf(D)
  <2> SUFFICES ASSUME NEW i \in DOMAIN names PROVE TableItems(names, D)[i] \in ItemsOf(D)
    OBVIOUS
  <2>1. names[i] \in Selected(D)
    BY DEF Elems
  <2>2. TableOf(names[i], D) \in TableIds
    BY <2>1, TablesOf
  <2> QED BY <2>1, <2>2 DEF TableItems, ItemsOf
<1>2. TableItems(names, D) \in Seq(ItemsOf(D))
  <2> HIDE DEF ItemsOf
  <2> QED BY <1>1 DEF TableItems
<1>3. TablesFirst(TableItems(names, D))
  BY DEF TablesFirst, TableItems, Item
<1>4. Elems(TableItems(names, D))
        = {Item("forget", e, TableOf(e, D), NoRule, NoRule) : e \in Selected(D)}
  BY DEF Elems, TableItems
<1> QED BY <1>2, <1>3, <1>4

\* The items of clients' routes.
LEMMA RouteElems ==
  ASSUME NEW D \in Desired, NEW routes \in Seq([dev : Egress, table : TableIds]),
         Elems(routes) \subseteq D.routes
  PROVE  /\ RouteItems(routes) \in Seq(ItemsOf(D))
         /\ Elems(RouteItems(routes)) \subseteq
              {Item("route", x.dev, x.table, NoRule, NoRule) : x \in D.routes}
<1>1. Elems(RouteItems(routes)) \subseteq
              {Item("route", x.dev, x.table, NoRule, NoRule) : x \in D.routes}
  BY DEF RouteItems, Elems
<1>2. Elems(RouteItems(routes)) \subseteq ItemsOf(D)
  BY <1>1 DEF ItemsOf
<1>3. RouteItems(routes) \in Seq(ItemsOf(D))
  <2>1. \A i \in DOMAIN routes : RouteItems(routes)[i] \in ItemsOf(D)
    BY <1>2 DEF Elems, RouteItems
  <2> QED BY <2>1 DEF RouteItems
<1> QED BY <1>1, <1>3

\* The items of explicit rules: one for each rule.
LEMMA RuleElems ==
  ASSUME NEW D \in Desired, NEW rules \in Seq(ExplicitRule), Elems(rules) = D.rules,
         DOMAIN rules = 1..Cardinality(D.rules)
  PROVE  /\ RuleItems(rules) \in Seq(ItemsOf(D))
         /\ Elems(RuleItems(rules))
              = {Item("delete", NoDevice, NoTable, r, NoRule) : r \in Explicit(rules)}
         /\ Explicit(rules) \subseteq Explicits(D)
<1>1. Explicit(rules) \subseteq Explicits(D)
  <2> SUFFICES ASSUME NEW i \in DOMAIN rules PROVE ExplicitRuleOf(rules[i], i) \in Explicits(D)
    BY DEF Explicit
  <2>1. rules[i] \in D.rules /\ i \in 1..Cardinality(D.rules)
    BY DEF Elems
  <2> QED BY <2>1 DEF Explicits
<1>2. Elems(RuleItems(rules))
        = {Item("delete", NoDevice, NoTable, r, NoRule) : r \in Explicit(rules)}
  BY DEF RuleItems, Elems, Explicit
<1>3. Elems(RuleItems(rules)) \subseteq ItemsOf(D)
  BY <1>1, <1>2 DEF ItemsOf
<1>4. RuleItems(rules) \in Seq(ItemsOf(D))
  <2>1. \A i \in DOMAIN rules : RuleItems(rules)[i] \in ItemsOf(D)
    BY <1>3 DEF Elems, RuleItems
  <2>2. DOMAIN rules = 1..Len(rules) /\ Len(rules) \in Nat
    BY LenProperties
  <2>3. RuleItems(rules) \in [1..Len(rules) -> ItemsOf(D)]
    BY <2>1, <2>2 DEF RuleItems
  <2> QED BY <2>2, <2>3, SeqOf
<1> QED BY <1>1, <1>2, <1>4

\* The item of a policy: its rule is to the table of its egress, or to main.
LEMMA PolicyItemForm ==
  ASSUME registry \in [Egress -> TableIds \cup {NoTable}], NEW D \in Desired, NEW p \in Ruled(D)
  PROVE  /\ PolicyItem(p, D) \in ItemsOf(D)
         /\ p.action = "egress" =>
              /\ p.egress \in Selected(D) /\ TableOf(p.egress, D) \in TableIds
              /\ PolicyItem(p, D) = Item("flush", p.egress, TableOf(p.egress, D),
                                         To(p, TableOf(p.egress, D)), MarkRule(p, D))
              /\ MarkRule(p, D) \in MarksOf(D)
         /\ p.action # "egress" =>
              PolicyItem(p, D) = Item("clear", p.egress, Main, To(p, Main), NoRule)
<1>1. p \in D.policies /\ p \in Policy
  BY DEF Ruled, Desired
<1>2. CASE p.action = "egress"
  <2>1. p \in Chosen(D) /\ p.egress \in Selected(D)
    BY <1>1, <1>2 DEF Chosen, Selected
  <2>2. TableOf(p.egress, D) \in TableIds
    BY <2>1, TablesOf
  <2>3. PolicyItem(p, D) = Item("flush", p.egress, TableOf(p.egress, D),
                                To(p, TableOf(p.egress, D)), MarkRule(p, D))
    BY <1>2 DEF PolicyItem, PolicyRule, To
  <2>4. MarkRule(p, D) \in MarksOf(D)
    BY <1>2, <2>1, <2>2 DEF MarkRule, MarksOf, MarkTo
  <2>5. PolicyItem(p, D) \in ItemsOf(D)
    BY <2>1, <2>2, <2>3, <2>4 DEF ItemsOf
  <2> QED BY <1>2, <2>1, <2>2, <2>3, <2>4, <2>5
<1>3. CASE p.action # "egress"
  <2>1. p \in Ruled(D) \ Chosen(D)
    BY <1>3 DEF Chosen
  <2>2. PolicyItem(p, D) = Item("clear", p.egress, Main, To(p, Main), NoRule)
    BY <1>3 DEF PolicyItem, PolicyRule, MarkRule, To
  <2>3. PolicyItem(p, D) \in ItemsOf(D)
    BY <2>1, <2>2 DEF ItemsOf
  <2> QED BY <1>3, <2>2, <2>3
<1> QED BY <1>2, <1>3

\* The items of policies: one for each that has a rule.
LEMMA PolicyElems ==
  ASSUME registry \in [Egress -> TableIds \cup {NoTable}], NEW D \in Desired,
         NEW policies \in Seq(Policy), Elems(policies) = Ruled(D)
  PROVE  /\ PolicyItems(policies, D) \in Seq(ItemsOf(D))
         /\ Elems(PolicyItems(policies, D)) = {PolicyItem(p, D) : p \in Ruled(D)}
<1>1. Elems(PolicyItems(policies, D)) = {PolicyItem(p, D) : p \in Ruled(D)}
  BY DEF PolicyItems, Elems
<1>2. \A i \in DOMAIN policies : PolicyItems(policies, D)[i] \in ItemsOf(D)
  <2> SUFFICES ASSUME NEW i \in DOMAIN policies PROVE PolicyItems(policies, D)[i] \in ItemsOf(D)
    OBVIOUS
  <2>1. policies[i] \in Ruled(D)
    BY DEF Elems
  <2> QED BY <2>1, PolicyItemForm DEF PolicyItems
<1>3. PolicyItems(policies, D) \in Seq(ItemsOf(D))
  <2> HIDE DEF ItemsOf
  <2> QED BY <1>2 DEF PolicyItems
<1> QED BY <1>1, <1>3

\* The items that come last.
LEMMA LastElems ==
  ASSUME NEW D, NEW keepList
  PROVE  /\ DirectItems(D) \in Seq(ItemsOf(D)) /\ PruneItems(keepList) \in Seq(ItemsOf(D))
         /\ Elems(DirectItems(D)) = (IF DirectItems(D) = <<>> THEN {}
                                     ELSE {Item("clear", NoDevice, NoTable, DirectRule, NoRule)})
         /\ Elems(PruneItems(keepList)) = (IF keepList = {} THEN {}
                                           ELSE {Item("prune", NoDevice, NoTable, NoRule, NoRule)})
<1> DEFINE d == Item("clear", NoDevice, NoTable, DirectRule, NoRule)
           p == Item("prune", NoDevice, NoTable, NoRule, NoRule)
<1>1. d \in ItemsOf(D) /\ p \in ItemsOf(D)
  BY DEF ItemsOf
<1>2. DirectItems(D) = <<>> \/ DirectItems(D) = <<d>>
  BY DEF DirectItems
<1>3. PruneItems(keepList) = IF keepList = {} THEN <<>> ELSE <<p>>
  BY DEF PruneItems
<1> HIDE DEF d, p
<1>4. /\ \A x \in ItemsOf(D) : <<x>> \in Seq(ItemsOf(D)) /\ Elems(<<x>>) = {x} /\ <<x>> # <<>>
      /\ <<>> \in Seq(ItemsOf(D)) /\ Elems(<<>>) = {}
  BY DEF Elems
<1> QED BY <1>1, <1>2, <1>3, <1>4 DEF d, p

\* A plan, and the items it has.
LEMMA PlanElems ==
  ASSUME registry \in [Egress -> TableIds \cup {NoTable}], NEW D \in Desired, Finite(D),
         NEW names, NEW policies, NEW rules, NEW routes, Choices(D, names, policies, rules, routes)
  PROVE  LET P == Plan(names, policies, rules, routes, D)
         IN  /\ P \in Seq(ItemsOf(D)) /\ TablesFirst(P)
             /\ Explicit(rules) \subseteq Explicits(D)
             /\ Elems(P) =
                  {Item("forget", e, TableOf(e, D), NoRule, NoRule) : e \in Selected(D)}
                    \cup Elems(RouteItems(routes))
                    \cup {Item("delete", NoDevice, NoTable, r, NoRule) : r \in Explicit(rules)}
                    \cup {PolicyItem(p, D) : p \in Ruled(D)}
                    \cup (IF DirectItems(D) = <<>> THEN {}
                          ELSE {Item("clear", NoDevice, NoTable, DirectRule, NoRule)})
                    \cup (IF KeepList(rules, D) = {} THEN {}
                          ELSE {Item("prune", NoDevice, NoTable, NoRule, NoRule)})
             /\ Elems(RouteItems(routes)) \subseteq
                  {Item("route", x.dev, x.table, NoRule, NoRule) : x \in D.routes}
<1> DEFINE A == TableItems(names, D)
           B == RouteItems(routes)
           C == RuleItems(rules)
           E == PolicyItems(policies, D)
           F == DirectItems(D)
           G == PruneItems(KeepList(rules, D))
<1>1. /\ Elems(names) = Selected(D) /\ names \in Seq(Egress)
      /\ Elems(policies) = Ruled(D) /\ policies \in Seq(Policy)
      /\ Elems(rules) = D.rules /\ rules \in Seq(ExplicitRule)
      /\ DOMAIN rules = 1..Cardinality(D.rules)
      /\ Elems(routes) \subseteq D.routes /\ routes \in Seq([dev : Egress, table : TableIds])
  BY Lists
<1>2. /\ A \in Seq(ItemsOf(D)) /\ TablesFirst(A)
      /\ Elems(A) = {Item("forget", e, TableOf(e, D), NoRule, NoRule) : e \in Selected(D)}
  BY <1>1, TableElems
<1>3. /\ B \in Seq(ItemsOf(D))
      /\ Elems(B) \subseteq {Item("route", x.dev, x.table, NoRule, NoRule) : x \in D.routes}
  BY <1>1, RouteElems
<1>4. /\ C \in Seq(ItemsOf(D)) /\ Explicit(rules) \subseteq Explicits(D)
      /\ Elems(C) = {Item("delete", NoDevice, NoTable, r, NoRule) : r \in Explicit(rules)}
  BY <1>1, RuleElems
<1>5. E \in Seq(ItemsOf(D)) /\ Elems(E) = {PolicyItem(p, D) : p \in Ruled(D)}
  BY <1>1, PolicyElems
<1>6. /\ F \in Seq(ItemsOf(D)) /\ G \in Seq(ItemsOf(D))
      /\ Elems(F) = (IF DirectItems(D) = <<>> THEN {}
                     ELSE {Item("clear", NoDevice, NoTable, DirectRule, NoRule)})
      /\ Elems(G) = (IF KeepList(rules, D) = {} THEN {}
                     ELSE {Item("prune", NoDevice, NoTable, NoRule, NoRule)})
  BY LastElems
<1>7. \A x \in Elems(B) \cup Elems(C) \cup Elems(E) \cup Elems(F) \cup Elems(G) : x.step # "forget"
  <2>1. \A x \in Elems(B) : x.step # "forget"
    BY <1>3 DEF Item
  <2>2. \A x \in Elems(C) : x.step # "forget"
    BY <1>4 DEF Item
  <2>3. \A x \in Elems(E) : x.step # "forget"
    BY <1>5 DEF PolicyItem, Item
  <2>4. \A x \in Elems(F) \cup Elems(G) : x.step # "forget"
    BY <1>6 DEF Item
  <2> QED BY <2>1, <2>2, <2>3, <2>4
<1> HIDE DEF A, B, C, E, F, G
<1>8. /\ A \o B \in Seq(ItemsOf(D)) /\ Elems(A \o B) = Elems(A) \cup Elems(B)
      /\ TablesFirst(A \o B)
  BY <1>2, <1>3, <1>7, ConcatElems, ConcatFirst
<1>9. /\ A \o B \o C \in Seq(ItemsOf(D)) /\ Elems(A \o B \o C) = Elems(A \o B) \cup Elems(C)
      /\ TablesFirst(A \o B \o C)
  <2> DEFINE p == A \o B
  <2>1. p \in Seq(ItemsOf(D)) /\ TablesFirst(p) /\ \A x \in Elems(C) : x.step # "forget"
    BY <1>7, <1>8
  <2> HIDE DEF p
  <2>2. p \o C \in Seq(ItemsOf(D)) /\ TablesFirst(p \o C)
        /\ Elems(p \o C) = Elems(p) \cup Elems(C)
    BY <1>4, <2>1, ConcatElems, ConcatFirst
  <2> QED BY <2>2 DEF p
<1>10. /\ A \o B \o C \o E \in Seq(ItemsOf(D)) /\ TablesFirst(A \o B \o C \o E)
       /\ Elems(A \o B \o C \o E) = Elems(A \o B \o C) \cup Elems(E)
  <2> DEFINE p == A \o B \o C
  <2>1. p \in Seq(ItemsOf(D)) /\ TablesFirst(p) /\ \A x \in Elems(E) : x.step # "forget"
    BY <1>7, <1>9
  <2> HIDE DEF p
  <2>2. p \o E \in Seq(ItemsOf(D)) /\ TablesFirst(p \o E)
        /\ Elems(p \o E) = Elems(p) \cup Elems(E)
    BY <1>5, <2>1, ConcatElems, ConcatFirst
  <2> QED BY <2>2 DEF p
<1>11. /\ A \o B \o C \o E \o F \in Seq(ItemsOf(D)) /\ TablesFirst(A \o B \o C \o E \o F)
       /\ Elems(A \o B \o C \o E \o F) = Elems(A \o B \o C \o E) \cup Elems(F)
  <2> DEFINE p == A \o B \o C \o E
  <2>1. p \in Seq(ItemsOf(D)) /\ TablesFirst(p) /\ \A x \in Elems(F) : x.step # "forget"
    BY <1>7, <1>10
  <2> HIDE DEF p
  <2>2. p \o F \in Seq(ItemsOf(D)) /\ TablesFirst(p \o F)
        /\ Elems(p \o F) = Elems(p) \cup Elems(F)
    BY <1>6, <2>1, ConcatElems, ConcatFirst
  <2> QED BY <2>2 DEF p
<1>12. /\ A \o B \o C \o E \o F \o G \in Seq(ItemsOf(D)) /\ TablesFirst(A \o B \o C \o E \o F \o G)
       /\ Elems(A \o B \o C \o E \o F \o G) = Elems(A \o B \o C \o E \o F) \cup Elems(G)
  <2> DEFINE p == A \o B \o C \o E \o F
  <2>1. p \in Seq(ItemsOf(D)) /\ TablesFirst(p) /\ \A x \in Elems(G) : x.step # "forget"
    BY <1>7, <1>11
  <2> HIDE DEF p
  <2>2. p \o G \in Seq(ItemsOf(D)) /\ TablesFirst(p \o G)
        /\ Elems(p \o G) = Elems(p) \cup Elems(G)
    BY <1>6, <2>1, ConcatElems, ConcatFirst
  <2> QED BY <2>2 DEF p
<1>13. Plan(names, policies, rules, routes, D) = A \o B \o C \o E \o F \o G
  BY DEF Plan, A, B, C, E, F, G
<1>14. Elems(Plan(names, policies, rules, routes, D))
         = Elems(A) \cup Elems(B) \cup Elems(C) \cup Elems(E) \cup Elems(F) \cup Elems(G)
  BY <1>8, <1>9, <1>10, <1>11, <1>12, <1>13
<1> QED BY <1>2, <1>3, <1>4, <1>5, <1>6, <1>12, <1>13, <1>14 DEF B
-----------------------------------------------------------------------------
(* The items of a plan, one by one *)

\* The rules of a plan are rules.
LEMMA RuleTypes ==
  ASSUME NEW D \in Desired
  PROVE  /\ NoRule \in Rule /\ DirectRule \in Rule /\ Explicits(D) \subseteq Rule
         /\ \A p \in D.policies, t \in Nat : To(p, t) \in Rule /\ MarkTo(p, t) \in Rule
         /\ MarksOf(D) \subseteq Rule
<1>1. NoRule \in Rule /\ DirectRule \in Rule
  BY DEF NoRule, DirectRule, Rule, DirectMark, DirectPrio, Main
<1>2. Explicits(D) \subseteq Rule
  <2> SUFFICES ASSUME NEW x \in D.rules, NEW i \in 1..Cardinality(D.rules)
               PROVE  ExplicitRuleOf(x, i) \in Rule
    BY DEF Explicits
  <2>1. x \in ExplicitRule
    BY DEF Desired
  <2>2. ipRulePrio(x, i) \in Nat
    BY <2>1 DEF ipRulePrio, ExplicitRule
  <2> QED BY <2>1, <2>2 DEF ExplicitRuleOf, ExplicitRule, Rule
<1>3. \A p \in D.policies, t \in Nat : To(p, t) \in Rule /\ MarkTo(p, t) \in Rule
  <2> SUFFICES ASSUME NEW p \in D.policies, NEW t \in Nat
               PROVE  To(p, t) \in Rule /\ MarkTo(p, t) \in Rule
    OBVIOUS
  <2>1. p \in Policy
    BY DEF Desired
  <2> QED BY <2>1 DEF Policy, To, MarkTo, Rule, BandMin
<1>4. MarksOf(D) \subseteq Rule
  BY <1>1, <1>3, Constants DEF MarksOf, Chosen
<1> QED BY <1>1, <1>2, <1>3, <1>4

\* What an item is made of, by the command it begins with.
LEMMA ItemFacts ==
  ASSUME NEW D \in Desired, NEW x \in ItemsOf(D)
  PROVE  /\ x.step \in {"forget", "route", "delete", "flush", "clear", "prune"}
         /\ x.rule \in Rule /\ x.mark \in Rule /\ x.mark \in MarksOf(D)
         /\ x.step \in {"forget", "route"} => x.egress \in Egress /\ x.table \in TableIds
         /\ x.step = "route" => \E y \in D.routes : y.table = x.table
         /\ x.step # "flush" => x.mark = NoRule
         /\ x.step = "delete" => x.rule \in Explicits(D)
         /\ x.step = "flush" =>
              x.table \in TableIds
              /\ \E p \in Chosen(D) : x.egress = p.egress /\ x.rule = To(p, x.table)
         /\ x.step = "clear" =>
              x.rule = DirectRule \/ \E p \in Ruled(D) \ Chosen(D) : x.rule = To(p, Main)
<1>0. /\ \A p \in D.policies : p \in Policy
      /\ \A y \in D.routes : y \in [dev : Egress, table : TableIds]
      /\ Chosen(D) \subseteq D.policies /\ Ruled(D) \subseteq D.policies
      /\ NoRule \in MarksOf(D) /\ Main \in Nat
  BY DEF Desired, Chosen, Ruled, MarksOf, Main
<1>1. CASE \E e \in Selected(D), t \in TableIds : x = Item("forget", e, t, NoRule, NoRule)
  <2>1. Selected(D) \subseteq Egress
    BY DEF Selected, Desired, Policy
  <2> QED BY <1>0, <1>1, <2>1, RuleTypes DEF Item
<1>2. CASE \E y \in D.routes : x = Item("route", y.dev, y.table, NoRule, NoRule)
  BY <1>0, <1>2, RuleTypes DEF Item
<1>3. CASE \E r \in Explicits(D) : x = Item("delete", NoDevice, NoTable, r, NoRule)
  BY <1>0, <1>3, RuleTypes DEF Item
<1>4. CASE \E p \in Chosen(D), t \in TableIds, m \in MarksOf(D) :
             x = Item("flush", p.egress, t, To(p, t), m)
  BY <1>0, <1>4, RuleTypes, Constants DEF Item
<1>5. CASE \E p \in Ruled(D) \ Chosen(D) : x = Item("clear", p.egress, Main, To(p, Main), NoRule)
  BY <1>0, <1>5, RuleTypes DEF Item
<1>6. CASE x = Item("clear", NoDevice, NoTable, DirectRule, NoRule)
  BY <1>0, <1>6, RuleTypes DEF Item
<1>7. CASE x = Item("prune", NoDevice, NoTable, NoRule, NoRule)
  BY <1>0, <1>7, RuleTypes DEF Item
<1> QED BY <1>1, <1>2, <1>3, <1>4, <1>5, <1>6, <1>7 DEF ItemsOf

Empty == [policies |-> {}, rules |-> {}, routes |-> {}]

\* What is desired was pushed or is empty, and is finite.
LEMMA DesiredType ==
  ASSUME TypeOK
  PROVE  desired \in Desired /\ \A D \in scenario.pushes : D \in Desired /\ Finite(D)
<1>1. scenario \in Scenario /\ scenario \in Scenarios
  BY ScenariosAssumption DEF TypeOK
<1>2. \A D \in scenario.pushes : D \in Desired /\ Finite(D)
  BY <1>1, FiniteAssumption DEF Scenario, Finite
<1>3. Empty \in Desired
  BY DEF Empty, Desired
<1> QED BY <1>2, <1>3 DEF TypeOK, Empty

\* While a plan runs, its head is one of the items left, of the kind its step belongs to.
LEMMA Running ==
  ASSUME TypeOK, Shape, step # "idle"
  PROVE  /\ todo # <<>> /\ it \in Left /\ it \in ItemsOf(desired) /\ desired \in scenario.pushes
         /\ desired \in Desired
         /\ step \in {"forget", "register"} => it.step = "forget"
         /\ step = "route" => it.step \in {"forget", "route"}
         /\ step \in {"delete", "flush", "prune"} => it.step = step
         /\ step = "clear" => it.step \in {"flush", "clear"}
         /\ step = "add" => Adds(it)
         /\ step \in {"unmark", "mark"} => it.step = "flush" /\ it.mark # NoRule
<1>1. todo # <<>> /\ todo \in Seq(ItemsOf(desired))
  BY DEF Shape
<1>2. it = todo[1] /\ 1 \in DOMAIN todo
  BY <1>1 DEF it
<1>3. it \in Left /\ it \in ItemsOf(desired)
  BY <1>1, <1>2 DEF Left, Elems
<1>4. desired \in Desired
  BY DesiredType
<1>5. it.step \in {"forget", "route", "delete", "flush", "clear", "prune"}
  BY <1>3, <1>4, ItemFacts
<1> QED BY <1>1, <1>3, <1>4, <1>5 DEF Shape, Adds

\* What is left is of the plan for what is desired; nothing is, when none runs.
LEMMA LeftItems ==
  ASSUME TypeOK, Shape
  PROVE  Left \subseteq ItemsOf(desired) /\ (step = "idle" => Left = {})
<1>1. todo \in Seq(ItemsOf(desired)) /\ (step = "idle" => todo = <<>>)
  BY DEF Shape
<1>2. Left \subseteq ItemsOf(desired)
  <2> HIDE DEF ItemsOf
  <2> QED BY <1>1 DEF Left, Elems
<1> QED BY <1>1, <1>2 DEF Left, Elems

\* The head is done: what was left of the plan is the head and what is left now.
LEMMA FinishLeft ==
  ASSUME TypeOK, Shape, step # "idle", Finish, UNCHANGED <<desired, scenario>>
  PROVE  /\ Shape' /\ Left = {it} \cup Left'
         /\ step' # "idle" => it' \in Left' /\ step' = it'.step
<1>1. todo # <<>> /\ todo \in Seq(ItemsOf(desired)) /\ desired \in scenario.pushes
  BY Running DEF Shape
<1> DEFINE S == ItemsOf(desired)
<1> HIDE DEF S
<1>2. /\ it = todo[1] /\ Tail(todo) \in Seq(S) /\ Len(Tail(todo)) = Len(todo) - 1
      /\ \A i \in 1..Len(Tail(todo)) : Tail(todo)[i] = todo[i + 1]
  BY <1>1, HeadTailProperties DEF it, S
<1>3. /\ DOMAIN todo = 1..Len(todo) /\ Len(todo) \in Nat \ {0}
      /\ DOMAIN Tail(todo) = 1..(Len(todo) - 1)
  BY <1>1, <1>2, EmptySeq DEF S
<1>4. todo' = Tail(todo) /\ todo' \in Seq(S) /\ UNCHANGED S
  BY <1>2 DEF Finish, S
<1>5. Left = {it} \cup Left'
  <2>1. ASSUME NEW i \in DOMAIN todo PROVE todo[i] \in {it} \cup Left'
    <3>1. CASE i = 1
      BY <1>2, <3>1
    <3>2. CASE i # 1
      <4>1. i - 1 \in DOMAIN Tail(todo) /\ Tail(todo)[i - 1] = todo[i]
        BY <1>2, <1>3, <3>2
      <4> QED BY <1>4, <4>1 DEF Left, Elems
    <3> QED BY <3>1, <3>2
  <2>2. ASSUME NEW i \in DOMAIN Tail(todo) PROVE Tail(todo)[i] \in Left
    <3>1. i + 1 \in DOMAIN todo /\ Tail(todo)[i] = todo[i + 1]
      BY <1>2, <1>3
    <3> QED BY <3>1 DEF Left, Elems
  <2>3. it \in Left
    BY Running
  <2> QED BY <1>4, <2>1, <2>2, <2>3 DEF Left, Elems
<1>6. step' = IF todo' = <<>> THEN "idle" ELSE it'.step
  BY <1>4 DEF Finish, FirstStep, it
<1>7. todo' # <<>> => it' \in Left' /\ it' \in S
  <2> SUFFICES ASSUME todo' # <<>> PROVE it' \in Left' /\ it' \in S
    OBVIOUS
  <2>1. it' = todo'[1] /\ 1 \in DOMAIN todo'
    BY <1>4 DEF it
  <2> QED BY <1>4, <2>1 DEF Left, Elems
<1>8. todo' # <<>> => it'.step # "idle"
  <2>1. desired \in Desired
    BY DesiredType
  <2> QED BY <1>7, <2>1, ItemFacts DEF S
<1>9. \A i, j \in DOMAIN todo' : i < j /\ todo'[j].step = "forget" => todo'[i].step = "forget"
  <2> SUFFICES ASSUME NEW i \in DOMAIN Tail(todo), NEW j \in DOMAIN Tail(todo), i < j,
                      Tail(todo)[j].step = "forget"
               PROVE  Tail(todo)[i].step = "forget"
    BY <1>4
  <2>1. /\ i + 1 \in DOMAIN todo /\ j + 1 \in DOMAIN todo /\ i + 1 < j + 1
        /\ Tail(todo)[i] = todo[i + 1] /\ Tail(todo)[j] = todo[j + 1]
    BY <1>2, <1>3
  <2> QED BY <2>1 DEF Shape
<1>10. Shape'
  BY <1>1, <1>4, <1>6, <1>8, <1>9 DEF Shape, S
<1> QED BY <1>5, <1>6, <1>7, <1>8, <1>10

\* The head goes on.
LEMMA ContinueLeft ==
  ASSUME NEW s, Continue(s) PROVE UNCHANGED <<todo, it, Left>> /\ step' = s
BY DEF Continue, it, Left

\* Tables come before rules: beside an item of another kind, no table is left.
LEMMA TablesDone ==
  ASSUME TypeOK, Shape, step # "idle", it.step # "forget"
  PROVE  \A x \in Left : x.step # "forget"
<1>1. it = todo[1] /\ 1 \in DOMAIN todo /\ DOMAIN todo = 1..Len(todo) /\ Len(todo) \in Nat
  BY Running DEF Shape, it
<1>2. ASSUME NEW j \in DOMAIN todo, todo[j].step = "forget" PROVE FALSE
  <2>1. j = 1 \/ 1 < j
    BY <1>1
  <2> QED BY <1>1, <1>2, <2>1 DEF Shape
<1> QED BY <1>2 DEF Left, Elems
-----------------------------------------------------------------------------
(* Where a plan may be *)

\* The items of a plan but those for client's routes.
Planned(rules, D) ==
  {Item("forget", e, TableOf(e, D), NoRule, NoRule) : e \in Selected(D)}
    \cup {Item("delete", NoDevice, NoTable, r, NoRule) : r \in Explicit(rules)}
    \cup {PolicyItem(p, D) : p \in Ruled(D)}
    \cup (IF DirectItems(D) = <<>> THEN {}
          ELSE {Item("clear", NoDevice, NoTable, DirectRule, NoRule)})
    \cup (IF KeepList(rules, D) = {} THEN {}
          ELSE {Item("prune", NoDevice, NoTable, NoRule, NoRule)})

\* What Start leaves to be done.
LEMMA StartPlan ==
  ASSUME TypeOK, NEW D \in scenario.pushes, Start(D)
  PROVE  /\ D \in Desired /\ desired' = D /\ Shape' /\ Left' \subseteq ItemsOf(D)
         /\ step' # "idle" => step' = it'.step
         /\ \E rules :
              /\ Explicit(rules) \subseteq Explicits(D)
              /\ keep' = KeepList(rules, D) /\ wanted' = Wanted(rules, D)
              /\ Planned(rules, D) \subseteq Left'
              /\ \A x \in Left' : x \in Planned(rules, D) \/ x.step = "route"
<1>1. D \in Desired /\ Finite(D)
  BY DesiredType
<1>2. PICK names, policies, rules, routes :
        /\ Choices(D, names, policies, rules, routes)
        /\ todo' = Plan(names, policies, rules, routes, D)
        /\ keep' = KeepList(rules, D) /\ wanted' = Wanted(rules, D)
  BY DEF Start, Choices
<1>3. /\ todo' \in Seq(ItemsOf(D)) /\ TablesFirst(todo')
      /\ Explicit(rules) \subseteq Explicits(D)
      /\ Elems(todo') = Planned(rules, D) \cup Elems(RouteItems(routes))
      /\ Elems(RouteItems(routes)) \subseteq
           {Item("route", x.dev, x.table, NoRule, NoRule) : x \in D.routes}
  <2>1. registry \in [Egress -> TableIds \cup {NoTable}]
    BY DEF TypeOK
  <2>2. LET P == todo'
        IN  /\ P \in Seq(ItemsOf(D)) /\ TablesFirst(P)
            /\ Explicit(rules) \subseteq Explicits(D)
            /\ Elems(P) =
                  {Item("forget", e, TableOf(e, D), NoRule, NoRule) : e \in Selected(D)}
                    \cup Elems(RouteItems(routes))
                    \cup {Item("delete", NoDevice, NoTable, r, NoRule) : r \in Explicit(rules)}
                    \cup {PolicyItem(p, D) : p \in Ruled(D)}
                    \cup (IF DirectItems(D) = <<>> THEN {}
                          ELSE {Item("clear", NoDevice, NoTable, DirectRule, NoRule)})
                    \cup (IF KeepList(rules, D) = {} THEN {}
                          ELSE {Item("prune", NoDevice, NoTable, NoRule, NoRule)})
            /\ Elems(RouteItems(routes)) \subseteq
                 {Item("route", x.dev, x.table, NoRule, NoRule) : x \in D.routes}
    BY <1>1, <1>2, <2>1, PlanElems
  <2> QED BY <2>2 DEF Planned
<1>4. Left' = Elems(todo')
  BY DEF Left, Elems
<1>5. \A x \in Left' : x \in Planned(rules, D) \/ x.step = "route"
  BY <1>3, <1>4 DEF Item
<1>6. desired' = D /\ step' = FirstStep(todo') /\ UNCHANGED scenario
  BY DEF Start
<1>7. todo' # <<>> => it' \in ItemsOf(D) /\ step' = it'.step
  <2> SUFFICES ASSUME todo' # <<>> PROVE it' \in ItemsOf(D) /\ step' = it'.step
    OBVIOUS
  <2> HIDE DEF ItemsOf
  <2>1. it' = Head(todo') /\ Head(todo') \in ItemsOf(D)
    BY <1>3, HeadTailProperties DEF it
  <2> QED BY <1>6, <2>1 DEF FirstStep
<1>8. todo' # <<>> => step' # "idle"
  BY <1>1, <1>7, ItemFacts
<1>9. todo' = <<>> => step' = "idle"
  BY <1>6 DEF FirstStep
<1>10. Shape'
  BY <1>3, <1>6, <1>7, <1>8, <1>9 DEF Shape, TablesFirst
<1>11. Left' \subseteq ItemsOf(D)
  <2> HIDE DEF ItemsOf
  <2> QED BY <1>3, <1>4 DEF Elems
<1> QED BY <1>1, <1>2, <1>3, <1>4, <1>5, <1>6, <1>7, <1>9, <1>10, <1>11

\* A command goes on with its item or ends it, but for what it does to the host.
LEMMA CommandLeft ==
  ASSUME TypeOK, Shape, Command
  PROVE  /\ step # "idle" /\ Shape' /\ Left' \subseteq Left
         /\ UNCHANGED <<desired, scenario, keep, wanted, chosen>>
         /\ \/ /\ Left = {it} \cup Left'
               /\ step \in {"route", "add", "mark", "prune"} /\ (step = "add" => it.mark = NoRule)
               /\ step' # "idle" => it' \in Left' /\ step' = it'.step
            \/ /\ UNCHANGED <<todo, it, Left>>
               /\ \/ step = "forget" /\ step' = "register"
                  \/ step = "register" /\ step' = "route"
                  \/ step = "delete" /\ step' = "add"
                  \/ step = "flush" /\ step' = "clear"
                  \/ step = "clear" /\ step' = "add"
                  \/ step = "add" /\ step' = "unmark" /\ it.mark # NoRule
                  \/ step = "unmark" /\ step' = "mark"
<1>1. step # "idle" /\ UNCHANGED <<desired, scenario, keep, wanted, chosen>>
  BY DEF Command, Forget, Register, TornRegister, ReplaceRoute, SkipRoute, FailRoute, DeleteRule,
         Flush, Clear, AddRule, FailAdd, Unmark, AddMark, Prune, envVars, factVars
<1>2. CASE Finish /\ step \in {"route", "add", "mark", "prune"} /\ (step = "add" => it.mark = NoRule)
  BY <1>1, <1>2, FinishLeft
<1>3. ASSUME NEW s, Continue(s),
             \/ step = "forget" /\ s = "register"
             \/ step = "register" /\ s = "route"
             \/ step = "delete" /\ s = "add"
             \/ step = "flush" /\ s = "clear"
             \/ step = "clear" /\ s = "add"
             \/ step = "add" /\ s = "unmark" /\ it.mark # NoRule
             \/ step = "unmark" /\ s = "mark"
      PROVE  Shape' /\ UNCHANGED <<todo, it, Left>> /\ step' = s
  <2>1. UNCHANGED <<todo, it, Left>> /\ step' = s
    BY <1>3, ContinueLeft
  <2>2. /\ todo # <<>> /\ desired \in scenario.pushes
        /\ s = "register" => it.step = "forget"
        /\ s = "route" => it.step = "forget"
        /\ s = "add" => Adds(it)
        /\ s = "clear" => it.step = "flush"
        /\ s \in {"unmark", "mark"} => it.step = "flush" /\ it.mark # NoRule
    BY <1>1, <1>3, Running, ItemFacts DEF Adds
  <2> HIDE DEF ItemsOf
  <2>3. s \in {"register", "route", "add", "clear", "unmark", "mark"}
    BY <1>3
  <2> QED BY <1>1, <2>1, <2>2, <2>3 DEF Shape, Adds
<1>4. CASE Forget \/ Register \/ TornRegister \/ DeleteRule \/ Flush \/ Clear \/ Unmark
  BY <1>1, <1>3, <1>4 DEF Forget, Register, TornRegister, DeleteRule, Flush, Clear, Unmark
<1>5. CASE AddRule \/ FailAdd
  <2>1. step = "add" /\ AfterAdd
    BY <1>5 DEF AddRule, FailAdd
  <2>2. CASE it.mark = NoRule
    BY <1>2, <2>1, <2>2 DEF AfterAdd
  <2>3. CASE it.mark # NoRule
    BY <1>1, <1>3, <2>1, <2>3 DEF AfterAdd
  <2> QED BY <2>2, <2>3
<1>6. CASE ReplaceRoute \/ SkipRoute \/ FailRoute \/ AddMark \/ Prune
  BY <1>2, <1>6 DEF ReplaceRoute, SkipRoute, FailRoute, AddMark, Prune
<1> QED BY <1>4, <1>5, <1>6 DEF Command
-----------------------------------------------------------------------------
(* Types *)

\* Where the rules a plan wants come from.
LEMMA WantedCases ==
  ASSUME NEW D, NEW rules, NEW w \in Wanted(rules, D)
  PROVE  \/ w \in Explicit(rules)
         \/ \E p \in Ruled(D) : w = PolicyRule(p, D)
         \/ w # NoRule /\ \E p \in Ruled(D) : p.action = "egress" /\ p.mark # 0 /\ w = MarkRule(p, D)
         \/ w = DirectRule /\ DirectItems(D) # <<>>
<1>1. CASE w \in ({MarkRule(p, D) : p \in D.policies} \ {NoRule})
  <2>1. PICK p \in D.policies : w = MarkRule(p, D)
    BY <1>1
  <2>2. p.action = "egress" /\ p.mark # 0
    BY <1>1, <2>1 DEF MarkRule
  <2> QED BY <1>1, <2>1, <2>2 DEF Ruled, HasRule
<1>2. CASE w \in PolicyRules(D)
  BY <1>2 DEF PolicyRules
<1>3. CASE w \in IF DirectItems(D) = <<>> THEN {} ELSE {DirectRule}
  BY <1>3
<1> QED BY <1>1, <1>2, <1>3 DEF Wanted

\* The selectors of a policy's rule.
LEMMA PolicyRuleForm ==
  ASSUME registry \in [Egress -> TableIds \cup {NoTable}], NEW D \in Desired, NEW p \in Ruled(D)
  PROVE  /\ PolicyRule(p, D).from = p.src /\ p.src \in Sources
         /\ PolicyRule(p, D).prio = BandMin + p.prio /\ BandMin + p.prio \in Nat
         /\ PolicyRule(p, D).mark = 0
         /\ PolicyRule(p, D) \in Rule /\ MarkRule(p, D) \in Rule
         /\ p.action = "egress" => PolicyRule(p, D).table = TableOf(p.egress, D)
         /\ p.action # "egress" => PolicyRule(p, D).table = Main
<1>1. p \in D.policies /\ p \in Policy
  BY DEF Ruled, Desired
<1>2. PolicyItem(p, D) \in ItemsOf(D)
  BY PolicyItemForm
<1>3. PolicyItem(p, D).rule \in Rule /\ PolicyItem(p, D).mark \in Rule
  BY <1>2, ItemFacts
<1> QED BY <1>1, <1>3 DEF PolicyItem, Item, PolicyRule, Policy, BandMin

\* What a plan wants and keeps has its type.
LEMMA PlanTypes ==
  ASSUME registry \in [Egress -> TableIds \cup {NoTable}], NEW D \in Desired,
         NEW rules, Explicit(rules) \subseteq Explicits(D)
  PROVE  Wanted(rules, D) \subseteq Rule /\ KeepList(rules, D) \subseteq Sources \X Nat
<1>1. Explicit(rules) \subseteq Rule
  BY RuleTypes
<1>2. \A p \in Ruled(D) : PolicyRule(p, D) \in Rule /\ MarkRule(p, D) \in Rule
                          /\ PolicyRule(p, D).from \in Sources
  BY PolicyRuleForm
<1>3. Wanted(rules, D) \subseteq Rule
  <2> SUFFICES ASSUME NEW w \in Wanted(rules, D) PROVE w \in Rule
    OBVIOUS
  <2> QED BY <1>1, <1>2, WantedCases, RuleTypes
<1>4. KeepList(rules, D) \subseteq Sources \X Nat
  <2> SUFFICES ASSUME NEW r \in {q \in Explicit(rules) : q.from # All} \cup PolicyRules(D)
               PROVE  r.from \in Sources /\ r.prio \in Nat
    BY DEF KeepList
  <2>1. r \in Rule /\ (r.from = All => r \in PolicyRules(D))
    BY <1>1, <1>2 DEF PolicyRules
  <2>2. r.from = All => r.from \in Sources
    BY <1>2, <2>1 DEF PolicyRules
  <2> QED BY <2>1, <2>2 DEF Rule
<1> QED BY <1>3, <1>4

\* The items' rules have their type.
LEMMA TypeItems ==
  ASSUME desired' \in Desired, Shape'
  PROVE  /\ \A i \in DOMAIN todo' : todo'[i].rule \in Rule /\ todo'[i].mark \in Rule
         /\ (step' = "idle") <=> (todo' = <<>>)
<1>1. todo' \in Seq(ItemsOf(desired')) /\ ((step' = "idle") <=> (todo' = <<>>))
  BY DEF Shape, ItemsOf, MarksOf
<1>2. \A i \in DOMAIN todo' : todo'[i] \in ItemsOf(desired')
  <2> HIDE DEF ItemsOf
  <2> QED BY <1>1
<1> QED BY <1>1, <1>2, ItemFacts

\* Starting a plan keeps the types.
LEMMA TypeStart ==
  ASSUME TypeOK, NEW D \in scenario.pushes, Start(D) PROVE TypeOK'
<1>1. /\ D \in Desired /\ desired' = D /\ Shape'
  BY StartPlan
<1>2. PICK rules : Explicit(rules) \subseteq Explicits(D)
                   /\ keep' = KeepList(rules, D) /\ wanted' = Wanted(rules, D)
  BY StartPlan
<1>3. registry \in [Egress -> TableIds \cup {NoTable}]
  BY DEF TypeOK
<1>4. wanted' \subseteq Rule /\ keep' \subseteq Sources \X Nat
  BY <1>1, <1>2, <1>3, PlanTypes
<1>5. /\ \A i \in DOMAIN todo' : todo'[i].rule \in Rule /\ todo'[i].mark \in Rule
      /\ (step' = "idle") <=> (todo' = <<>>)
  BY <1>1, TypeItems
<1>6. chosen' \in [Sources -> SUBSET Egress]
  <2>1. desired \in Desired /\ chosen \in [Sources -> SUBSET Egress]
    BY DesiredType DEF TypeOK
  <2>2. \A s \in Sources : ChosenBy(D, s) \subseteq Egress /\ ChosenBy(desired, s) \subseteq Egress
    BY <1>1, <2>1 DEF ChosenBy, Desired, Policy
  <2> QED BY <2>1, <2>2 DEF Start
<1>7. applies' \in Nat /\ clean' \in BOOLEAN
      /\ UNCHANGED <<registry, ipRules, left, route, up, flows, racing, scenario, failures, torn, events>>
  BY DEF Start, TypeOK, flowVars, ruleVars
<1>8. desired' \in scenario'.pushes
  BY <1>1, <1>7
<1> QED BY <1>4, <1>5, <1>6, <1>7, <1>8 DEF TypeOK

\* What deleting rules takes and leaves, whether an ip rule del fails or not.
LEMMA Deleted ==
  ASSUME TypeOK, NEW S \in SUBSET ipRules, Delete(S)
  PROVE  /\ ipRules' \subseteq ipRules /\ \A r \in ipRules \ ipRules' : r \in S
         /\ left' \subseteq ipRules' /\ left \cap ipRules' \subseteq left'
         /\ S \cap ipRules' \subseteq left'
         /\ clean' => clean /\ S \cap ipRules' = {}
         /\ failures' = 0 => failures = 0 /\ left' = left \ S
         /\ clean' \in BOOLEAN /\ failures' \in Nat
<1>1. left \subseteq ipRules /\ clean \in BOOLEAN /\ failures \in Nat
  BY DEF TypeOK
<1>2. CASE ipRules' = ipRules \ S /\ left' = left \ S /\ UNCHANGED <<clean, failures>>
  BY <1>1, <1>2
<1>3. CASE Fails /\ \E some \in SUBSET S \ {{}} :
                     ipRules' = ipRules \ (S \ some) /\ left' = (left \ S) \cup some
  <2>1. PICK some \in SUBSET S \ {{}} : ipRules' = ipRules \ (S \ some) /\ left' = (left \ S) \cup some
    BY <1>3
  <2>2. clean' = FALSE /\ failures' = failures + 1
    BY <1>3 DEF Fails
  <2>3. failures' \in Nat /\ failures' # 0
    BY <1>1, <2>2
  <2>4. some \subseteq ipRules /\ some \subseteq S
    OBVIOUS
  <2>5. left' \subseteq ipRules' /\ left \cap ipRules' \subseteq left' /\ S \cap ipRules' \subseteq left'
    BY <1>1, <2>1, <2>4
  <2>6. ipRules' \subseteq ipRules /\ \A r \in ipRules \ ipRules' : r \in S
    BY <2>1
  <2> QED BY <2>2, <2>3, <2>5, <2>6
<1> QED BY <1>2, <1>3 DEF Delete

\* A command adds its rule, deletes some or touches none.
LEMMA RuleSteps ==
  ASSUME TypeOK, Shape, Command
  PROVE  \/ /\ UNCHANGED <<ipRules, left>>
            /\ step \notin {"clear", "prune"}
         \/ step = "add" /\ ipRules' = ipRules \cup {it.rule} /\ UNCHANGED left
         \/ step = "mark" /\ ipRules' = ipRules \cup {it.mark} /\ UNCHANGED left
         \/ step = "delete" /\ \E S \in SUBSET ipRules :
              Delete(S) /\ \A r \in S : Selects(it.rule, r) /\ r.table = it.rule.table
         \/ step = "unmark" /\ \E S \in SUBSET ipRules :
              Delete(S) /\ \A r \in S : r.mark = it.mark.mark /\ r.table = it.mark.table
         \/ step = "clear" /\ Delete({r \in ipRules : Selects(it.rule, r)})
         \/ step = "prune" /\ Delete({r \in ipRules : Managed(r) /\ <<r.from, r.prio>> \notin keep})
<1>1. CASE DeleteRule
  <2>1. PICK S \in FirstOf({r \in ipRules : Selects(it.rule, r) /\ r.table = it.rule.table}) : Delete(S)
    BY <1>1 DEF DeleteRule
  <2>2. S \in SUBSET {r \in ipRules : Selects(it.rule, r) /\ r.table = it.rule.table}
    BY DEF FirstOf
  <2>3. step = "delete"
    BY <1>1 DEF DeleteRule
  <2> QED BY <2>1, <2>2, <2>3
<1>2. CASE Unmark
  <2>1. PICK S \in FirstOf({r \in ipRules : r.mark = it.mark.mark /\ r.table = it.mark.table}) : Delete(S)
    BY <1>2 DEF Unmark
  <2>2. S \in SUBSET {r \in ipRules : r.mark = it.mark.mark /\ r.table = it.mark.table}
    BY DEF FirstOf
  <2>3. step = "unmark"
    BY <1>2 DEF Unmark
  <2> QED BY <2>1, <2>2, <2>3
<1>3. CASE Clear \/ Prune
  BY <1>3 DEF Clear, Prune
<1>4. CASE AddRule
  BY <1>4 DEF AddRule
<1>5. CASE AddMark
  BY <1>5 DEF AddMark
<1>6. CASE Forget \/ Register \/ TornRegister \/ ReplaceRoute \/ SkipRoute \/ FailRoute \/ Flush \/ FailAdd
  BY <1>6 DEF Forget, Register, TornRegister, ReplaceRoute, SkipRoute, FailRoute, Flush, FailAdd, ruleVars
<1> QED BY <1>1, <1>2, <1>3, <1>4, <1>5, <1>6 DEF Command

\* What a command does to the rules.
LEMMA CommandRules ==
  ASSUME TypeOK, Shape, Command
  PROVE  /\ \/ ipRules' \subseteq ipRules
            \/ step = "add" /\ ipRules' = ipRules \cup {it.rule}
            \/ step = "mark" /\ ipRules' = ipRules \cup {it.mark}
         /\ left' \subseteq ipRules' /\ left \cap ipRules' \subseteq left'
         /\ failures' = 0 /\ left = {} => left' = {}
<1>1. left \subseteq ipRules
  BY DEF TypeOK
<1>2. ASSUME NEW S \in SUBSET ipRules, Delete(S)
      PROVE  /\ ipRules' \subseteq ipRules
             /\ left' \subseteq ipRules' /\ left \cap ipRules' \subseteq left'
             /\ failures' = 0 /\ left = {} => left' = {}
  BY <1>2, Deleted
<1>3. {r \in ipRules : Selects(it.rule, r)} \in SUBSET ipRules
      /\ {r \in ipRules : Managed(r) /\ <<r.from, r.prio>> \notin keep} \in SUBSET ipRules
  OBVIOUS
<1>4. CASE \E S \in SUBSET ipRules : Delete(S)
  BY <1>2, <1>4
<1>5. CASE UNCHANGED <<ipRules, left>>
  BY <1>1, <1>5
<1>6. CASE step = "add" /\ ipRules' = ipRules \cup {it.rule} /\ UNCHANGED left
  <2>1. left' \subseteq ipRules' /\ left \cap ipRules' \subseteq left' /\ (left = {} => left' = {})
    BY <1>1, <1>6
  <2> QED BY <1>6, <2>1
<1>7. CASE step = "mark" /\ ipRules' = ipRules \cup {it.mark} /\ UNCHANGED left
  <2>1. left' \subseteq ipRules' /\ left \cap ipRules' \subseteq left' /\ (left = {} => left' = {})
    BY <1>1, <1>7
  <2> QED BY <1>7, <2>1
<1>8. \/ \E S \in SUBSET ipRules : Delete(S)
      \/ UNCHANGED <<ipRules, left>>
      \/ step = "add" /\ ipRules' = ipRules \cup {it.rule} /\ UNCHANGED left
      \/ step = "mark" /\ ipRules' = ipRules \cup {it.mark} /\ UNCHANGED left
  BY <1>3, RuleSteps
<1> QED BY <1>4, <1>5, <1>6, <1>7, <1>8

\* What a command does to the tables, the registry and the connections.
LEMMA CommandHost ==
  ASSUME TypeOK, Shape, Command
  PROVE  /\ \/ UNCHANGED registry
            \/ step = "forget" /\ registry' = [registry EXCEPT ![it.egress] = NoTable]
            \/ step = "register" /\ registry' = [registry EXCEPT ![it.egress] = it.table]
         /\ \/ UNCHANGED route
            \/ step = "route" /\ route' = [route EXCEPT ![it.table] = it.egress]
         /\ \/ UNCHANGED <<flows, racing>>
            \/ /\ step = "flush"
               /\ flows'  = [flows EXCEPT ![it.rule.from] = {}]
               /\ racing' = [racing EXCEPT ![it.rule.from] = {}]
         /\ UNCHANGED <<up, applies, events>>
         /\ failures' \in Nat /\ torn' \in Nat /\ clean' \in BOOLEAN
         /\ failures' = 0 => failures = 0
         /\ torn' = 0 => torn = 0
         /\ clean' => clean
<1> DEFINE Effects ==
             /\ \/ UNCHANGED registry
                \/ step = "forget" /\ registry' = [registry EXCEPT ![it.egress] = NoTable]
                \/ step = "register" /\ registry' = [registry EXCEPT ![it.egress] = it.table]
             /\ \/ UNCHANGED route
                \/ step = "route" /\ route' = [route EXCEPT ![it.table] = it.egress]
             /\ \/ UNCHANGED <<flows, racing>>
                \/ /\ step = "flush"
                   /\ flows'  = [flows EXCEPT ![it.rule.from] = {}]
                   /\ racing' = [racing EXCEPT ![it.rule.from] = {}]
             /\ UNCHANGED <<up, applies, events>>
           Counts ==
             /\ failures' \in Nat /\ torn' \in Nat
             /\ failures' = 0 => failures = 0
             /\ torn' = 0 => torn = 0
           Report == clean' \in BOOLEAN /\ (clean' => clean)
<1>1. failures \in Nat /\ torn \in Nat
  BY DEF TypeOK
<1>0. clean \in BOOLEAN
  BY DEF TypeOK
<1>2. CASE Forget \/ Register \/ TornRegister
  <2>1. Effects
    BY <1>2 DEF Forget, Register, TornRegister, envVars, flowVars
  <2>2. Counts
    BY <1>1, <1>2 DEF Forget, Register, TornRegister
  <2>3. Report
    <3>1. UNCHANGED clean \/ clean' = FALSE
      BY <1>2 DEF Forget, Register, TornRegister
    <3>2. clean' \in BOOLEAN
      BY <1>0, <3>1
    <3>3. clean' => clean
      BY <1>0, <3>1
    <3> QED BY <3>2, <3>3
  <2> QED BY <2>1, <2>2, <2>3
<1>6. CASE DeleteRule \/ Clear \/ Unmark \/ Prune
  <2>1. Effects
    BY <1>6 DEF DeleteRule, Clear, Unmark, Prune, envVars, flowVars
  <2>2. \E S \in SUBSET ipRules : Delete(S)
    <3>1. CASE DeleteRule
      <4>1. PICK S \in FirstOf({r \in ipRules : Selects(it.rule, r) /\ r.table = it.rule.table}) : Delete(S)
        BY <3>1 DEF DeleteRule
      <4>2. S \in SUBSET ipRules
        BY DEF FirstOf
      <4> QED BY <4>1, <4>2
    <3>2. CASE Unmark
      <4>1. PICK S \in FirstOf({r \in ipRules : r.mark = it.mark.mark /\ r.table = it.mark.table}) : Delete(S)
        BY <3>2 DEF Unmark
      <4>2. S \in SUBSET ipRules
        BY DEF FirstOf
      <4> QED BY <4>1, <4>2
    <3>3. CASE Clear
      <4>1. PICK S \in SUBSET ipRules : S = {r \in ipRules : Selects(it.rule, r)}
        OBVIOUS
      <4> QED BY <3>3, <4>1 DEF Clear
    <3>4. CASE Prune
      <4>1. PICK S \in SUBSET ipRules : S = {r \in ipRules : Managed(r) /\ <<r.from, r.prio>> \notin keep}
        OBVIOUS
      <4> QED BY <3>4, <4>1 DEF Prune
    <3> QED BY <1>6, <3>1, <3>2, <3>3, <3>4
  <2>3. clean' \in BOOLEAN /\ failures' \in Nat /\ (failures' = 0 => failures = 0) /\ (clean' => clean)
    BY <2>2, Deleted
  <2>4. UNCHANGED torn
    BY <1>6 DEF DeleteRule, Clear, Unmark, Prune
  <2> QED BY <1>1, <2>1, <2>3, <2>4
<1>3. CASE AddRule \/ FailAdd \/ AddMark
  <2>1. Effects
    BY <1>3 DEF AddRule, FailAdd, AddMark, envVars, flowVars
  <2>2. Counts
    BY <1>1, <1>3 DEF AddRule, FailAdd, Fails, AddMark
  <2>3. Report
    <3>1. \/ UNCHANGED clean \/ clean' = FALSE
          \/ clean' = (clean /\ it.rule \notin ipRules)
          \/ clean' = (clean /\ it.mark \notin ipRules)
      BY <1>3 DEF AddRule, FailAdd, Fails, AddMark
    <3>2. clean' \in BOOLEAN
      BY <1>0, <3>1
    <3>3. clean' => clean
      BY <1>0, <3>1
    <3> QED BY <3>2, <3>3
  <2> QED BY <2>1, <2>2, <2>3
<1>4. CASE ReplaceRoute \/ SkipRoute \/ FailRoute
  <2>1. Effects
    BY <1>4 DEF ReplaceRoute, SkipRoute, FailRoute, envVars, flowVars
  <2>2. Counts
    BY <1>1, <1>4 DEF ReplaceRoute, SkipRoute, FailRoute, Fails
  <2>3. Report
    <3>1. UNCHANGED clean \/ clean' = FALSE
      BY <1>4 DEF ReplaceRoute, SkipRoute, FailRoute, Fails
    <3>2. clean' \in BOOLEAN
      BY <1>0, <3>1
    <3>3. clean' => clean
      BY <1>0, <3>1
    <3> QED BY <3>2, <3>3
  <2> QED BY <2>1, <2>2, <2>3
<1>5. CASE Flush
  <2>1. Effects
    BY <1>5 DEF Flush, flowVars
  <2>2. Counts
    BY <1>1, <1>5 DEF Flush, Fails
  <2>3. Report
    <3>1. UNCHANGED clean \/ clean' = FALSE
      BY <1>5 DEF Flush, Fails
    <3>2. clean' \in BOOLEAN
      BY <1>0, <3>1
    <3>3. clean' => clean
      BY <1>0, <3>1
    <3> QED BY <3>2, <3>3
  <2> QED BY <2>1, <2>2, <2>3
<1> QED BY <1>2, <1>3, <1>4, <1>5, <1>6 DEF Command

\* A command keeps the types.
LEMMA TypeCommand == ASSUME TypeOK, Shape, Command PROVE TypeOK'
<1>1. /\ step # "idle" /\ Shape'
      /\ UNCHANGED <<desired, scenario, keep, wanted, chosen>>
  BY CommandLeft
<1>2. desired \in Desired
  BY DesiredType
<1>3. /\ \A i \in DOMAIN todo' : todo'[i].rule \in Rule /\ todo'[i].mark \in Rule
      /\ (step' = "idle") <=> (todo' = <<>>)
  BY <1>1, <1>2, TypeItems
<1>4. it \in ItemsOf(desired)
  BY <1>1, Running
<1>5. left' \subseteq ipRules' /\ ipRules' \subseteq Rule
  <2>1. it.rule \in Rule /\ it.mark \in Rule
    BY <1>2, <1>4, ItemFacts
  <2> QED BY <2>1, CommandRules DEF TypeOK
<1>6. registry' \in [Egress -> TableIds \cup {NoTable}]
  <2>1. step \in {"forget", "register"} => it.egress \in Egress /\ it.table \in TableIds
    BY <1>1, <1>2, <1>4, ItemFacts, Running
  <2> QED BY <2>1, CommandHost DEF TypeOK
<1>7. route' \in [TableIds -> Egress \cup {NoDevice}]
  <2>1. step = "route" => it.egress \in Egress /\ it.table \in TableIds
    BY <1>1, <1>2, <1>4, ItemFacts, Running
  <2> QED BY <2>1, CommandHost DEF TypeOK
<1>8. /\ {flows', racing'} \subseteq [Sources -> SUBSET (Egress \cup {"main", "blackhole"})]
      /\ \A s \in Sources : racing'[s] \subseteq flows'[s]
  BY CommandHost DEF TypeOK
<1>9. up' \subseteq Egress /\ applies' \in Nat /\ failures' \in Nat /\ torn' \in Nat
      /\ events' \in Nat /\ clean' \in BOOLEAN
  BY CommandHost DEF TypeOK
<1> QED BY <1>1, <1>3, <1>5, <1>6, <1>7, <1>8, <1>9 DEF TypeOK

\* The host's own steps.
Host == Crash \/ (\E s \in Sources : OpenFlow(s)) \/ (\E e \in Egress : DeviceGone(e) \/ DeviceBack(e))

\* Packets leave through an egress, main or nowhere.
LEMMA ExitsType ==
  ASSUME TypeOK, NEW s \in Sources
  PROVE  Exits(s) \subseteq Egress \cup {"main", "blackhole"}
<1>1. \A r \in ipRules : Exit(r) # NoDevice => Exit(r) \in Egress \cup {"main", "blackhole"}
  <2> SUFFICES ASSUME NEW r \in ipRules, Exit(r) # NoDevice
               PROVE  Exit(r) \in Egress \cup {"main", "blackhole"}
    OBVIOUS
  <2>1. r.table \in TableIds => route[r.table] \in Egress \cup {NoDevice}
    BY DEF TypeOK
  <2> QED BY <2>1 DEF Exit
<1> QED BY <1>1 DEF Exits

\* The host goes on beside the plan, or the daemon dies and the plan with it.
LEMMA HostLeft ==
  ASSUME TypeOK, Host
  PROVE  /\ UNCHANGED <<registry, ipRules, left, scenario, desired, keep, wanted, chosen>>
         /\ failures' = 0 => failures = 0
         /\ torn' = 0 => torn = 0
         /\ clean' => clean
         /\ \/ UNCHANGED <<todo, step, it, Left, torn, clean>>
            \/ /\ todo' = <<>> /\ step' = "idle" /\ Left' = {} /\ step # "idle"
               /\ ~clean' /\ (torn' = 0 => step # "register") /\ events' # 0
<1>1. torn \in Nat /\ failures \in Nat /\ events \in Nat
  BY DEF TypeOK
<1>2. CASE Crash
  BY <1>1, <1>2 DEF Crash, factVars, ruleVars, Left, Elems
<1>3. CASE (\E s \in Sources : OpenFlow(s)) \/ (\E e \in Egress : DeviceGone(e) \/ DeviceBack(e))
  <2>1. UNCHANGED <<registry, ipRules, left, todo, step, clean, factVars, scenario, failures, torn>>
    BY <1>3 DEF OpenFlow, DeviceGone, DeviceBack, countVars, ruleVars
  <2> QED BY <2>1 DEF factVars, Left, it
<1> QED BY <1>2, <1>3 DEF Host

\* After a crash no plan runs.
LEMMA ShapeHost == ASSUME TypeOK, Shape, Host PROVE Shape'
<1>1. CASE UNCHANGED <<todo, step, it, Left, torn, clean>>
  BY <1>1, HostLeft DEF Shape
<1>2. CASE todo' = <<>> /\ step' = "idle"
  BY <1>2, HostLeft DEF Shape
<1> QED BY <1>1, <1>2, HostLeft

\* The host's steps keep the types.
LEMMA TypeHost == ASSUME TypeOK, Shape, Host PROVE TypeOK'
<1>1. Shape' /\ UNCHANGED <<registry, ipRules, left, scenario, desired, keep, wanted, chosen>>
  BY ShapeHost, HostLeft
<1>2. /\ \A i \in DOMAIN todo' : todo'[i].rule \in Rule /\ todo'[i].mark \in Rule
      /\ (step' = "idle") <=> (todo' = <<>>)
  BY <1>1, DesiredType, TypeItems
<1>3. CASE Crash
  <2>1. UNCHANGED <<route, up, flows, racing, applies, failures>>
        /\ events' \in Nat /\ torn' \in Nat /\ clean' \in BOOLEAN
    <3>1. events \in Nat /\ torn \in Nat
      BY DEF TypeOK
    <3>2. UNCHANGED <<route, up, flows, racing, applies, failures>>
          /\ events' \in Nat /\ torn' \in Nat
      BY <1>3, <3>1 DEF Crash, flowVars
    <3> QED BY <1>3, <3>2 DEF Crash
  <2> QED BY <1>1, <1>2, <2>1 DEF TypeOK
<1>4. ASSUME NEW s \in Sources, OpenFlow(s) PROVE TypeOK'
  <2>1. UNCHANGED <<route, up, clean, applies, failures, events, torn>>
    BY <1>4 DEF OpenFlow, countVars
  <2>2. PICK x \in Exits(s) \ flows[s] :
          /\ flows'  = [flows EXCEPT ![s] = @ \cup {x}]
          /\ racing' = IF step = "idle" THEN racing ELSE [racing EXCEPT ![s] = @ \cup {x}]
    BY <1>4 DEF OpenFlow
  <2>3. x \in Egress \cup {"main", "blackhole"}
    BY <2>2, ExitsType
  <2>4. /\ {flows', racing'} \subseteq [Sources -> SUBSET (Egress \cup {"main", "blackhole"})]
        /\ \A c \in Sources : racing'[c] \subseteq flows'[c]
    BY <2>2, <2>3 DEF TypeOK
  <2> QED BY <1>1, <1>2, <2>1, <2>4 DEF TypeOK
<1>5. ASSUME NEW e \in Egress, DeviceGone(e) \/ DeviceBack(e) PROVE TypeOK'
  <2>1. UNCHANGED <<flows, racing, clean, applies, failures, torn>>
        /\ events' \in Nat /\ up' \subseteq Egress
        /\ route' \in [TableIds -> Egress \cup {NoDevice}]
    BY <1>5 DEF DeviceGone, DeviceBack, countVars, flowVars, TypeOK
  <2> QED BY <1>1, <1>2, <2>1 DEF TypeOK
<1> QED BY <1>3, <1>4, <1>5 DEF Host
-----------------------------------------------------------------------------
(* What the commands delete and achieve *)

\* What a command deletes, one of its selections covers.
LEMMA CommandDeletes ==
  ASSUME TypeOK, Shape, Command, NEW r \in ipRules, r \notin ipRules'
  PROVE  \/ step = "delete" /\ Selects(it.rule, r) /\ r.table = it.rule.table
         \/ step = "clear" /\ Selects(it.rule, r)
         \/ step = "unmark" /\ r.mark = it.mark.mark /\ r.table = it.mark.table
         \/ step = "prune" /\ Managed(r) /\ <<r.from, r.prio>> \notin keep
<1>1. CASE step = "delete" /\ \E S \in SUBSET ipRules :
              Delete(S) /\ \A q \in S : Selects(it.rule, q) /\ q.table = it.rule.table
  BY <1>1, Deleted
<1>2. CASE step = "unmark" /\ \E S \in SUBSET ipRules :
              Delete(S) /\ \A q \in S : q.mark = it.mark.mark /\ q.table = it.mark.table
  BY <1>2, Deleted
<1>3. CASE step = "clear" /\ Delete({q \in ipRules : Selects(it.rule, q)})
  <2>1. PICK S \in SUBSET ipRules : S = {q \in ipRules : Selects(it.rule, q)}
    OBVIOUS
  <2>2. r \in S
    BY <1>3, <2>1, Deleted
  <2> QED BY <1>3, <2>1, <2>2
<1>4. CASE step = "prune" /\ Delete({q \in ipRules : Managed(q) /\ <<q.from, q.prio>> \notin keep})
  <2>1. PICK S \in SUBSET ipRules : S = {q \in ipRules : Managed(q) /\ <<q.from, q.prio>> \notin keep}
    OBVIOUS
  <2>2. r \in S
    BY <1>4, <2>1, Deleted
  <2> QED BY <1>4, <2>1, <2>2
<1> QED BY <1>1, <1>2, <1>3, <1>4, RuleSteps

\* What a command that did not fail has achieved.
LEMMA CommandDone ==
  ASSUME TypeOK, Shape, Command
  PROVE  /\ step = "clear" => \A r \in ipRules' : Selects(it.rule, r) => r \in left' /\ ~clean'
         /\ step = "prune" /\ clean' => \A r \in ipRules' : Managed(r) => <<r.from, r.prio>> \in keep
         /\ step = "add" /\ (clean' \/ failures' = 0) => it.rule \in ipRules'
         /\ step = "mark" /\ clean' => it.mark \in ipRules'
         /\ step = "forget" => registry' = [registry EXCEPT ![it.egress] = NoTable]
         /\ step = "register" /\ torn' = 0 => registry' = [registry EXCEPT ![it.egress] = it.table]
<1>1. CASE step = "clear"
  <2>1. PICK S \in SUBSET ipRules : S = {r \in ipRules : Selects(it.rule, r)}
    OBVIOUS
  <2>2. Delete(S)
    BY <1>1, <2>1, RuleSteps
  <2>3. /\ ipRules' \subseteq ipRules /\ S \cap ipRules' \subseteq left'
        /\ clean' => S \cap ipRules' = {}
    BY <2>2, Deleted
  <2>4. \A r \in ipRules' : Selects(it.rule, r) => r \in S
    BY <2>1, <2>3
  <2> QED BY <1>1, <2>3, <2>4
<1>6. CASE step = "prune"
  <2>1. PICK S \in SUBSET ipRules : S = {r \in ipRules : Managed(r) /\ <<r.from, r.prio>> \notin keep}
    OBVIOUS
  <2>2. Delete(S)
    BY <1>6, <2>1, RuleSteps
  <2>3. ipRules' \subseteq ipRules /\ (clean' => S \cap ipRules' = {})
    BY <2>2, Deleted
  <2>4. clean' => \A r \in ipRules' : Managed(r) => <<r.from, r.prio>> \in keep
    BY <2>1, <2>3
  <2> QED BY <1>6, <2>4
<1>2. CASE step = "add"
  <2>1. AddRule \/ FailAdd
    BY <1>2 DEF Command, Forget, Register, TornRegister, ReplaceRoute, SkipRoute, FailRoute,
                DeleteRule, Flush, Clear, Prune, Unmark, AddMark
  <2>2. failures \in Nat
    BY DEF TypeOK
  <2>3. CASE AddRule
    BY <1>2, <2>3 DEF AddRule
  <2>4. CASE FailAdd
    <3>1. clean' = FALSE /\ failures' = failures + 1
      BY <2>4 DEF FailAdd, Fails
    <3> QED BY <1>2, <2>2, <3>1
  <2> QED BY <2>1, <2>3, <2>4
<1>3. CASE step = "mark" \/ step = "forget"
  <2>1. AddMark \/ Forget
    BY <1>3 DEF Command, Register, TornRegister, ReplaceRoute, SkipRoute, FailRoute,
                DeleteRule, Flush, Clear, Prune, Unmark, AddRule, FailAdd
  <2> QED BY <1>3, <2>1 DEF AddMark, Forget
<1>4. CASE step = "register"
  <2>1. Register \/ TornRegister
    BY <1>4 DEF Command, Forget, ReplaceRoute, SkipRoute, FailRoute,
                DeleteRule, Flush, Clear, Prune, Unmark, AddRule, FailAdd, AddMark
  <2>2. torn \in Nat
    BY DEF TypeOK
  <2>3. CASE TornRegister
    <3>1. torn' = torn + 1
      BY <2>3 DEF TornRegister
    <3> QED BY <1>4, <2>2, <3>1
  <2> QED BY <1>4, <2>1, <2>3 DEF Register
<1>5. CASE step \notin {"clear", "prune", "add", "mark", "forget", "register"}
  BY <1>5
<1> QED BY <1>1, <1>2, <1>3, <1>4, <1>5, <1>6

-----------------------------------------------------------------------------
(* What the last plan wants *)

\* An explicit rule has no mark, and its own priority or one above 11000.
LEMMA ExplicitForm ==
  ASSUME NEW D \in Desired, NEW e \in Explicits(D)
  PROVE  /\ e.mark = 0 /\ e.prio \in Nat /\ e.prio > 0
         /\ \E x \in D.rules : e.from = x.from /\ (e.prio = x.prio \/ e.prio >= 11000)
<1>1. PICK x \in D.rules, i \in 1..Cardinality(D.rules) : e = ExplicitRuleOf(x, i)
  BY DEF Explicits
<1>2. x \in ExplicitRule
  BY DEF Desired
<1> QED BY <1>1, <1>2 DEF ExplicitRuleOf, ExplicitRule, ipRulePrio

\* An explicit rule with a priority keeps it wherever a snapshot puts it.
LEMMA ExplicitPrio ==
  ASSUME NEW D \in Desired, Finite(D), NEW x \in D.rules, x.prio > 0
  PROVE  \E e \in Explicits(D) : e.from = x.from /\ e.prio = x.prio
<1>1. Cardinality(D.rules) \in Nat /\ Cardinality(D.rules) # 0
  BY FS_CardinalityType, FS_EmptySet DEF Finite
<1>2. 1 \in 1..Cardinality(D.rules)
  BY <1>1
<1>3. ExplicitRuleOf(x, 1) \in Explicits(D)
  BY <1>2 DEF Explicits
<1> QED BY <1>3 DEF ExplicitRuleOf, ipRulePrio

\* A plan keeps, and wants, the rules of its items.
LEMMA KeptStart ==
  ASSUME TypeOK, NEW D \in scenario.pushes, Start(D) PROVE Kept'
<1>1. /\ D \in Desired /\ desired' = D /\ Shape' /\ UNCHANGED scenario
      /\ registry \in [Egress -> TableIds \cup {NoTable}]
  BY StartPlan DEF Start, TypeOK
<1>2. PICK rules :
        /\ Explicit(rules) \subseteq Explicits(D)
        /\ keep' = KeepList(rules, D) /\ wanted' = Wanted(rules, D)
        /\ Planned(rules, D) \subseteq Left'
        /\ \A x \in Left' : x \in Planned(rules, D) \/ x.step = "route"
  BY StartPlan
<1>3. \A e \in Explicit(rules) : e.from # All => <<e.from, e.prio>> \in keep'
  BY <1>2 DEF KeepList
<1>4. \A p \in Ruled(D) : <<p.src, BandMin + p.prio>> \in keep'
  <2> SUFFICES ASSUME NEW p \in Ruled(D) PROVE <<p.src, BandMin + p.prio>> \in keep'
    OBVIOUS
  <2>1. PolicyRule(p, D) \in PolicyRules(D)
    BY DEF PolicyRules
  <2>2. <<PolicyRule(p, D).from, PolicyRule(p, D).prio>> \in keep'
    BY <1>2, <2>1 DEF KeepList
  <2> QED BY <1>1, <2>2, PolicyRuleForm
<1>5. ASSUME NEW w \in wanted' PROVE w # NoRule /\ (w.from # All => <<w.from, w.prio>> \in keep')
  <2>1. CASE w \in Explicit(rules)
    <3>1. w.prio > 0
      BY <1>1, <1>2, <2>1, ExplicitForm
    <3> QED BY <1>3, <2>1, <3>1 DEF NoRule
  <2>2. CASE \E p \in Ruled(D) : w = PolicyRule(p, D)
    <3>1. PICK p \in Ruled(D) : w = PolicyRule(p, D)
      BY <2>2
    <3>2. w.from = p.src /\ p.src \in Sources /\ w.prio = BandMin + p.prio
      BY <1>1, <3>1, PolicyRuleForm
    <3> QED BY <1>4, <3>2, SourcesAssumption DEF NoRule
  <2>3. CASE w # NoRule /\ \E p \in Ruled(D) : p.action = "egress" /\ p.mark # 0 /\ w = MarkRule(p, D)
    BY <2>3 DEF MarkRule
  <2>4. CASE w = DirectRule
    BY <2>4 DEF DirectRule, NoRule, DirectPrio
  <2> QED BY <1>2, <2>1, <2>2, <2>3, <2>4, WantedCases
<1>6. ASSUME NEW k \in keep'
      PROVE  \/ \E p \in Ruled(D) : k = <<p.src, BandMin + p.prio>>
             \/ \E x \in D.rules : k[1] = x.from /\ (k[2] = x.prio \/ k[2] >= 11000)
  <2>1. PICK r \in {q \in Explicit(rules) : q.from # All} \cup PolicyRules(D) : k = <<r.from, r.prio>>
    BY <1>2 DEF KeepList
  <2>2. CASE r \in Explicit(rules)
    <3>1. PICK x \in D.rules : r.from = x.from /\ (r.prio = x.prio \/ r.prio >= 11000)
      BY <1>1, <1>2, <2>2, ExplicitForm
    <3> QED BY <2>1, <3>1
  <2>3. CASE r \in PolicyRules(D)
    <3>1. PICK p \in Ruled(D) : r = PolicyRule(p, D)
      BY <2>3 DEF PolicyRules
    <3> QED BY <1>1, <2>1, <3>1, PolicyRuleForm
  <2> QED BY <2>1, <2>2, <2>3
<1>7. ASSUME NEW x \in Left'
      PROVE  /\ Adds(x) => x.rule \in wanted'
             /\ x.mark \in wanted' \cup {NoRule}
             /\ x.step = "prune" => keep' # {}
  <2>1. CASE x.step = "route"
    <3>1. Left' \subseteq ItemsOf(D)
      BY StartPlan
    <3> QED BY <1>1, <2>1, <3>1, ItemFacts DEF Adds
  <2>2. CASE \E e \in Selected(D) : x = Item("forget", e, TableOf(e, D), NoRule, NoRule)
    BY <2>2 DEF Item, Adds
  <2>3. CASE \E r \in Explicit(rules) : x = Item("delete", NoDevice, NoTable, r, NoRule)
    BY <1>2, <2>3 DEF Item, Wanted
  <2>4. CASE \E p \in Ruled(D) : x = PolicyItem(p, D)
    <3>1. PICK p \in Ruled(D) : x = PolicyItem(p, D)
      BY <2>4
    <3>2. x.rule = PolicyRule(p, D) /\ x.mark = MarkRule(p, D) /\ x.step # "prune" /\ p \in D.policies
      BY <3>1 DEF PolicyItem, Item, Ruled
    <3> QED BY <1>2, <3>2 DEF Wanted, PolicyRules
  <2>5. CASE DirectItems(D) # <<>> /\ x = Item("clear", NoDevice, NoTable, DirectRule, NoRule)
    BY <1>2, <2>5 DEF Item, Wanted
  <2>6. CASE KeepList(rules, D) # {} /\ x = Item("prune", NoDevice, NoTable, NoRule, NoRule)
    BY <1>2, <2>6 DEF Item, Adds
  <2> QED BY <1>2, <2>1, <2>2, <2>3, <2>4, <2>5, <2>6 DEF Planned
<1> QED BY <1>1, <1>4, <1>5, <1>6, <1>7 DEF Kept, Source, Ruled, HasRule, Adds

\* What is left of a plan keeps no less.
LEMMA KeptStep ==
  ASSUME Kept, Left' \subseteq Left, UNCHANGED <<desired, scenario, keep, wanted>>, clean' => clean
  PROVE  Kept'
<1>1. \A x \in Left' : Adds(x)' = Adds(x)
  BY DEF Adds
<1> QED BY <1>1 DEF Kept, Source, Ruled, HasRule, Adds

\* Commands and the host change neither list.
LEMMA KeptNext == ASSUME TypeOK, Shape, Kept, Command \/ Host PROVE Kept'
<1>1. CASE Command
  BY <1>1, CommandLeft, CommandHost, KeptStep
<1>2. CASE Host
  <2>1. Left' \subseteq Left
    BY <1>2, HostLeft
  <2> QED BY <1>2, <2>1, HostLeft, KeptStep
<1> QED BY <1>1, <1>2
-----------------------------------------------------------------------------
(* No two rules of policies at one priority *)

\* A plan begins an item with its first command.
LEMMA FirstSteps ==
  ASSUME NEW D \in Desired, NEW x \in ItemsOf(D)
  PROVE  x.step \notin {"idle", "register", "add", "unmark", "mark"}
BY ItemFacts

\* A rule is added by the item that deleted it before.
LEMMA Adding ==
  ASSUME TypeOK, Shape, Command, step' = "add"
  PROVE  step \in {"delete", "clear"} /\ it' = it
<1>1. desired \in Desired /\ Left \subseteq ItemsOf(desired) /\ Left' \subseteq Left
  BY DesiredType, LeftItems, CommandLeft
<1>2. ~(it' \in Left' /\ step' = it'.step)
  BY <1>1, FirstSteps
<1> QED BY <1>2, CommandLeft

\* Nobody else adds rules between the delete and the add.
LEMMA ClearedNext ==
  ASSUME TypeOK, Shape, Cleared,
         (\E D \in scenario.pushes : Start(D)) \/ Command \/ Host
  PROVE  Cleared'
<1>1. ASSUME NEW D \in scenario.pushes, Start(D) PROVE Cleared'
  <2> SUFFICES ASSUME step' = "add" PROVE FALSE
    BY DEF Cleared
  <2>1. step' = it'.step /\ Shape' /\ desired' = D /\ D \in Desired
    BY <1>1, StartPlan
  <2>2. it' \in ItemsOf(D)
    <3>1. todo' # <<>> /\ todo' \in Seq(ItemsOf(D)) /\ it' = Head(todo')
      BY <2>1 DEF Shape, it, ItemsOf, MarksOf
    <3> HIDE DEF ItemsOf
    <3> QED BY <3>1, HeadTailProperties
  <2> QED BY <2>1, <2>2, FirstSteps
<1>2. CASE Command
  <2> SUFFICES ASSUME step' = "add", it'.step # "delete", NEW r \in ipRules', Selects(it'.rule, r)
               PROVE  r \in left'
    BY DEF Cleared, Selects
  <2>1. step \in {"delete", "clear"} /\ it' = it
    BY <1>2, Adding
  <2>2. step = "clear"
    BY <2>1, <1>2, Running, CommandLeft
  <2> QED BY <1>2, <2>1, <2>2, CommandDone
<1>3. CASE Host
  BY <1>3, HostLeft DEF Cleared
<1> QED BY <1>1, <1>2, <1>3

\* Only a failure leaves rules.
LEMMA NoneLeftNext ==
  ASSUME TypeOK, Shape, NoneLeft,
         (\E D \in scenario.pushes : Start(D)) \/ Command \/ Host
  PROVE  NoneLeft'
<1>1. ASSUME NEW D \in scenario.pushes, Start(D) PROVE NoneLeft'
  BY <1>1 DEF Start, ruleVars, NoneLeft
<1>2. CASE Command
  BY <1>2, CommandRules, CommandHost DEF NoneLeft
<1>3. CASE Host
  BY <1>3, HostLeft DEF NoneLeft
<1> QED BY <1>1, <1>2, <1>3

\* The rules that are added: those for marks have no source, those of policies no mark.
LEMMA AddedRules ==
  ASSUME TypeOK, Shape, step # "idle"
  PROVE  /\ it.mark.from = All
         /\ it.step \in {"flush", "clear"} /\ it.rule.from # All => it.rule.mark = 0
         /\ it.step \in {"flush", "clear"} /\ it.rule.from = All => it.rule.mark # 0
         /\ step = "mark" => it.mark.mark # 0
         /\ step = "add" /\ it.step = "delete" => it.rule \in Explicits(desired)
<1>1. it \in ItemsOf(desired) /\ desired \in Desired
  BY Running
<1>2. it.mark \in MarksOf(desired)
  BY <1>1, ItemFacts
<1>3. it.mark.from = All
  BY <1>2 DEF MarksOf, NoRule, MarkTo
<1>4. step = "add" => it.step \in {"delete", "flush", "clear"}
  BY Running DEF Adds
<1>5. it.step = "flush" => it.rule.mark = 0
  <2> SUFFICES ASSUME it.step = "flush" PROVE it.rule.mark = 0
    OBVIOUS
  <2>1. PICK p \in Chosen(desired) : it.rule = To(p, it.table)
    BY <1>1, ItemFacts
  <2> QED BY <2>1 DEF To
<1>6. it.step = "clear" /\ it.rule.from # All => it.rule.mark = 0
  <2> SUFFICES ASSUME it.step = "clear", it.rule # DirectRule PROVE it.rule.mark = 0
    BY DEF DirectRule
  <2>1. PICK p \in Ruled(desired) \ Chosen(desired) : it.rule = To(p, Main)
    BY <1>1, ItemFacts
  <2> QED BY <2>1 DEF To
<1>7. it.step = "delete" => it.rule \in Explicits(desired)
  BY <1>1, ItemFacts
<1>8. \A p \in desired.policies : \A t : To(p, t).from # All
  BY <1>1, SourcesAssumption DEF Desired, Policy, To
<1>9. it.step = "flush" => it.rule.from # All
  <2>1. it.step = "flush" => \E p \in Chosen(desired) : it.rule = To(p, it.table)
    BY <1>1, ItemFacts
  <2> QED BY <1>8, <2>1 DEF Chosen
<1>10. it.step = "clear" /\ it.rule.from = All => it.rule.mark # 0
  <2>1. it.step = "clear" =>
          it.rule = DirectRule \/ \E p \in Ruled(desired) \ Chosen(desired) : it.rule = To(p, Main)
    BY <1>1, ItemFacts
  <2>2. DirectRule.mark # 0
    BY DEF DirectRule, DirectMark
  <2> QED BY <1>8, <2>1, <2>2 DEF Ruled
<1>11. step = "mark" => it.mark.mark # 0
  <2>1. step = "mark" => it.mark # NoRule
    BY Running
  <2> QED BY <1>2, <2>1 DEF MarksOf, MarkTo
<1> QED BY <1>3, <1>4, <1>5, <1>6, <1>7, <1>9, <1>10, <1>11

\* What plans add for all sources has a mark, or is explicit.
LEMMA WideForeignNext ==
  ASSUME TypeOK, Shape, WideForeign,
         (\E D \in scenario.pushes : Start(D)) \/ Command \/ Host
  PROVE  WideForeign'
<1>1. \A r : Foreign(r)' = Foreign(r)
  <2>1. UNCHANGED scenario
    BY CommandLeft, HostLeft DEF Start
  <2> QED BY <2>1 DEF Foreign, Explicits
<1>2. (\E D \in scenario.pushes : Start(D)) \/ Host => ipRules' = ipRules
  BY HostLeft DEF Start, ruleVars
<1>3. CASE Command /\ step = "add" /\ ipRules' = ipRules \cup {it.rule}
  <2>1. step # "idle" /\ desired \in scenario.pushes /\ Adds(it)
    BY <1>3, Running
  <2>2. it.rule.from = All /\ it.rule.mark = 0 => Foreign(it.rule)
    BY <1>3, <2>1, AddedRules DEF Foreign, Adds
  <2> QED BY <1>1, <1>3, <2>2 DEF WideForeign
<1>4. CASE Command /\ step = "mark" /\ ipRules' = ipRules \cup {it.mark}
  <2>1. it.mark.mark # 0
    BY <1>4, AddedRules
  <2> QED BY <1>1, <1>4, <2>1 DEF WideForeign
<1>5. CASE ipRules' \subseteq ipRules
  BY <1>1, <1>5 DEF WideForeign
<1> QED BY <1>2, <1>3, <1>4, <1>5, CommandRules

\* A policy's rule is added where there is none, so it never has a sibling.
LEMMA SiblingsNext ==
  ASSUME TypeOK, Shape, Cleared, NoSiblings,
         (\E D \in scenario.pushes : Start(D)) \/ Command \/ Host
  PROVE  NoSiblings'
<1> DEFINE Lone(q, r) == q.from # All /\ q.from = r.from /\ q.prio = r.prio
                           /\ ~Foreign(q) /\ ~Foreign(r) /\ q \notin left /\ r \notin left => q = r
<1>1. UNCHANGED scenario
  BY CommandLeft, HostLeft DEF Start
<1>2. \A r : Foreign(r)' = Foreign(r)
  BY <1>1 DEF Foreign, Explicits
<1>9. left \cap ipRules' \subseteq left'
  <2>1. (\E D \in scenario.pushes : Start(D)) \/ Host => UNCHANGED left
    BY HostLeft DEF Start, ruleVars
  <2> QED BY <2>1, CommandRules
<1>3. ASSUME \A q, r \in ipRules' : Lone(q, r) PROVE NoSiblings'
  BY <1>2, <1>3, <1>9 DEF NoSiblings
<1>4. \A q, r \in ipRules : Lone(q, r)
  BY DEF NoSiblings
<1>5. CASE ipRules' \subseteq ipRules
  <2> HIDE DEF Lone
  <2> QED BY <1>3, <1>4, <1>5
<1>6. CASE Command /\ step = "add" /\ ipRules' = ipRules \cup {it.rule}
  <2>1. step # "idle" /\ desired \in scenario.pushes
    BY <1>6, Running
  <2>2. ASSUME NEW r \in ipRules PROVE Lone(it.rule, r) /\ Lone(r, it.rule)
    <3>1. CASE it.step = "delete"
      <4>1. Foreign(it.rule)
        BY <2>1, <3>1, <1>6, AddedRules DEF Foreign
      <4> QED BY <4>1
    <3>2. CASE it.step # "delete"
      <4>1. ~Selects(it.rule, r) \/ r \in left
        BY <1>6, <3>2 DEF Cleared
      <4>2. it.step \in {"flush", "clear"}
        BY <1>6, <2>1, <3>2, Running DEF Adds
      <4> QED BY <2>1, <4>1, <4>2, AddedRules DEF Selects
    <3> QED BY <3>1, <3>2
  <2>3. Lone(it.rule, it.rule)
    OBVIOUS
  <2> HIDE DEF Lone
  <2> QED BY <1>3, <1>4, <1>6, <2>2, <2>3
<1>7. CASE Command /\ step = "mark" /\ ipRules' = ipRules \cup {it.mark}
  <2>1. it.mark.from = All
    BY <1>7, AddedRules
  <2>2. \A r \in ipRules : Lone(it.mark, r) /\ Lone(r, it.mark)
    BY <2>1
  <2>3. Lone(it.mark, it.mark)
    OBVIOUS
  <2> HIDE DEF Lone
  <2> QED BY <1>3, <1>4, <1>7, <2>2, <2>3
<1>8. (\E D \in scenario.pushes : Start(D)) \/ Host => ipRules' = ipRules
  BY HostLeft DEF Start, ruleVars
<1> QED BY <1>5, <1>6, <1>7, <1>8, CommandRules

\* No command of a plan deletes what no scenario addresses.
LEMMA UntouchedNext ==
  ASSUME TypeOK, Shape, Untouched,
         (\E D \in scenario.pushes : Start(D)) \/ Command \/ Host
  PROVE  Untouched'
<1>1. UNCHANGED scenario
  BY CommandLeft, HostLeft DEF Start
<1>2. \A h : Addressed(h)' <=> Addressed(h)
  BY <1>1 DEF Addressed, Selects, PolicyRule, Explicits
<1>3. (\E D \in scenario.pushes : Start(D)) \/ Host => ipRules' = ipRules
  BY HostLeft DEF Start, ruleVars
<1>4. ASSUME Command, NEW h \in Handmade, ~Addressed(h) PROVE h \in ipRules'
  <2> SUFFICES ASSUME h \notin ipRules' PROVE FALSE
    OBVIOUS
  <2>1. h \in ipRules
    BY <1>4 DEF Untouched
  <2>2. /\ step # "idle" /\ it \in ItemsOf(desired) /\ desired \in scenario.pushes
        /\ desired \in Desired /\ Chosen(desired) \subseteq desired.policies
        /\ Ruled(desired) \subseteq desired.policies
    BY <1>4, CommandLeft, Running DEF Chosen, Ruled
  <2>3. \A p \in desired.policies, t \in Nat : ~Selects(To(p, t), h)
    <3> SUFFICES ASSUME NEW p \in desired.policies, NEW t \in Nat, Selects(To(p, t), h)
                 PROVE  FALSE
      OBVIOUS
    <3>1. Selects(PolicyRule(p, desired), h)
      BY DEF Selects, To, PolicyRule
    <3> QED BY <1>4, <2>2, <3>1 DEF Addressed
  <2>4. ~(step = "delete" /\ Selects(it.rule, h) /\ h.table = it.rule.table)
    <3>1. step = "delete" => it.rule \in Explicits(desired)
      BY <2>2, Running, ItemFacts
    <3> QED BY <1>4, <2>2, <3>1 DEF Addressed
  <2>5. ~(step = "clear" /\ Selects(it.rule, h))
    <3>1. step = "clear" => it.rule = DirectRule \/ \E p \in desired.policies, t \in Nat : it.rule = To(p, t)
      <4>1. step = "clear" => it.step \in {"flush", "clear"}
        BY <2>2, Running
      <4>2. it.step = "flush" => \E p \in desired.policies, t \in Nat : it.rule = To(p, t)
        BY <2>2, ItemFacts, Constants
      <4>3. Main \in Nat
        BY DEF Main
      <4>4. it.step = "clear" =>
              it.rule = DirectRule \/ \E p \in desired.policies, t \in Nat : it.rule = To(p, t)
        BY <2>2, <4>3, ItemFacts
      <4> QED BY <4>1, <4>2, <4>4
    <3> QED BY <1>4, <2>3, <3>1 DEF Addressed
  <2>6. ~(step = "unmark" /\ h.mark = it.mark.mark)
    <3>1. step = "unmark" => it.mark \in MarksOf(desired) /\ it.mark # NoRule
      BY <2>2, Running, ItemFacts
    <3>2. step = "unmark" => \E p \in desired.policies : p.mark # 0 /\ it.mark.mark = p.mark
      BY <2>2, <3>1 DEF MarksOf, MarkTo
    <3> QED BY <1>4, <2>2, <3>2 DEF Addressed
  <2>7. ~Managed(h)
    BY HandmadeAssumption DEF Managed
  <2> QED BY <1>4, <2>1, <2>4, <2>5, <2>6, <2>7, CommandDeletes
<1> QED BY <1>2, <1>3, <1>4 DEF Untouched
-----------------------------------------------------------------------------
(* Convergence *)

\* A plan begins with the first command of its first item.
LEMMA StartStep ==
  ASSUME TypeOK, NEW D \in scenario.pushes, Start(D)
  PROVE  /\ step' \notin {"register", "add", "unmark", "mark"}
         /\ \A x \in Left' : step' = it'.step
<1>1. /\ D \in Desired /\ desired' = D /\ Shape' /\ Left' \subseteq ItemsOf(D)
      /\ step' # "idle" => step' = it'.step
  BY StartPlan
<1>2. step' # "idle" => it' \in ItemsOf(D)
  <2> SUFFICES ASSUME step' # "idle" PROVE it' \in ItemsOf(D)
    OBVIOUS
  <2>1. todo' # <<>> /\ todo' \in Seq(ItemsOf(D)) /\ it' = Head(todo')
    BY <1>1 DEF Shape, it, ItemsOf, MarksOf
  <2> HIDE DEF ItemsOf
  <2> QED BY <2>1, HeadTailProperties
<1>3. step' \notin {"register", "add", "unmark", "mark"}
  BY <1>1, <1>2, FirstSteps
<1>4. step' = "idle" => Left' = {}
  <2>1. step' = "idle" => todo' = <<>>
    BY <1>1 DEF Shape
  <2> QED BY <2>1 DEF Left, Elems
<1> QED BY <1>1, <1>3, <1>4

\* A plan adds all it wants, clears every priority it uses and prunes if it keeps any.
LEMMA ConvergingStart ==
  ASSUME TypeOK, NEW D \in scenario.pushes, Start(D) PROVE Converging'
<1>1. /\ D \in Desired /\ desired' = D
      /\ registry \in [Egress -> TableIds \cup {NoTable}]
  BY StartPlan DEF TypeOK
<1>2. PICK rules :
        /\ keep' = KeepList(rules, D) /\ wanted' = Wanted(rules, D)
        /\ Planned(rules, D) \subseteq Left'
  BY StartPlan
<1>3. step' \notin {"add", "unmark", "mark"} /\ \A x \in Left' : step' = it'.step
  BY StartStep
<1>4. ASSUME NEW w \in wanted' PROVE Unadded(w)'
  <2>1. \E x \in Left' : (Adds(x) /\ x.rule = w) \/ x.mark = w
    <3>1. CASE w \in Explicit(rules)
      <4>1. Item("delete", NoDevice, NoTable, w, NoRule) \in Left'
        BY <1>2, <3>1 DEF Planned
      <4> QED BY <4>1 DEF Item, Adds
    <3>2. CASE \E p \in Ruled(D) : w = PolicyRule(p, D)
      <4>1. PICK p \in Ruled(D) : w = PolicyRule(p, D)
        BY <3>2
      <4>2. PolicyItem(p, D) \in Left'
        BY <1>2 DEF Planned
      <4> QED BY <4>1, <4>2 DEF PolicyItem, Item, Adds
    <3>3. CASE \E p \in Ruled(D) : w = MarkRule(p, D)
      <4>1. PICK p \in Ruled(D) : w = MarkRule(p, D)
        BY <3>3
      <4>2. PolicyItem(p, D) \in Left'
        BY <1>2 DEF Planned
      <4> QED BY <4>1, <4>2 DEF PolicyItem, Item
    <3>4. CASE w = DirectRule /\ DirectItems(D) # <<>>
      <4>1. Item("clear", NoDevice, NoTable, DirectRule, NoRule) \in Left'
        BY <1>2, <3>4 DEF Planned
      <4> QED BY <3>4, <4>1 DEF Item, Adds
    <3> QED BY <1>2, <3>1, <3>2, <3>3, <3>4, WantedCases
  <2> QED BY <1>3, <2>1 DEF Unadded, Adds
<1>5. keep' # {} => Unpruned'
  <2> SUFFICES ASSUME keep' # {} PROVE Unpruned'
    OBVIOUS
  <2>1. Item("prune", NoDevice, NoTable, NoRule, NoRule) \in Left'
    BY <1>2 DEF Planned
  <2> QED BY <2>1 DEF Unpruned, Item
<1>6. ASSUME NEW p \in Ruled(D) PROVE Uncleared(p)'
  <2>1. PolicyItem(p, D) \in Left'
    BY <1>2 DEF Planned
  <2>2. PolicyItem(p, D).step \in {"flush", "clear"} /\ PolicyItem(p, D).rule = PolicyRule(p, D)
    BY DEF PolicyItem, Item
  <2>3. PolicyRule(p, D).from = p.src /\ PolicyRule(p, D).prio = BandMin + p.prio
    BY <1>1, PolicyRuleForm
  <2> QED BY <1>3, <2>1, <2>2, <2>3 DEF Uncleared
<1>7. \A p \in Ruled(desired') : Uncleared(p)'
  BY <1>1, <1>6
<1> QED BY <1>4, <1>5, <1>7 DEF Converging, Ruled, HasRule

\* A rule the running plan adds is one it wants.
LEMMA AddsWanted ==
  ASSUME TypeOK, Shape, Kept, step # "idle"
  PROVE  /\ Adds(it) => it.rule \in wanted
         /\ it.mark # NoRule => it.mark \in wanted /\ it.mark.mark # 0 /\ it.step = "flush"
<1>1. it \in Left /\ it \in ItemsOf(desired) /\ desired \in Desired
  BY Running
<1>2. Adds(it) => it.rule \in wanted
  BY <1>1 DEF Kept
<1>3. it.mark # NoRule => it.mark \in wanted
  BY <1>1 DEF Kept
<1>4. it.mark # NoRule => it.step = "flush" /\ it.mark \in MarksOf(desired)
  BY <1>1, ItemFacts
<1>5. it.mark \in MarksOf(desired) /\ it.mark # NoRule => it.mark.mark # 0
  BY DEF MarksOf, MarkTo
<1> QED BY <1>2, <1>3, <1>4, <1>5

\* A wanted rule with a source is kept.
LEMMA KeptRule ==
  ASSUME Kept, NEW w \in wanted
  PROVE  w # NoRule /\ (w.from # All => <<w.from, w.prio>> \in keep)
BY DEF Kept

\* A wanted rule is there, or the item that adds it is left.
LEMMA WantedStay ==
  ASSUME TypeOK, Shape, Kept, Converging, Command, clean', Compatible, NEW w \in wanted
  PROVE  w \in ipRules' \/ Unadded(w)'
<1> SUFFICES ASSUME w \notin ipRules' PROVE Unadded(w)'
  OBVIOUS
<1>1. step # "idle" /\ clean
  BY CommandLeft, CommandHost
<1>2. CASE w \in ipRules
  <2>1. CASE step \in {"delete", "clear"} /\ Selects(it.rule, w)
    <3>1. Adds(it) /\ it \in Left
      BY <1>1, <2>1, Running DEF Adds
    <3>2. w = it.rule
      BY <1>1, <2>1, <3>1, AddsWanted DEF Compatible
    <3>3. UNCHANGED <<it, Left>> /\ step' = "add"
      BY <2>1, CommandLeft
    <3> QED BY <3>1, <3>2, <3>3 DEF Unadded, Adds
  <2>2. CASE step = "unmark" /\ w.mark = it.mark.mark /\ w.table = it.mark.table
    <3>1. it.mark # NoRule /\ it \in Left
      BY <1>1, <2>2, Running
    <3>2. w = it.mark
      BY <1>1, <2>2, <3>1, AddsWanted DEF Compatible
    <3>3. UNCHANGED <<it, Left>>
      BY <2>2, CommandLeft
    <3> QED BY <3>1, <3>2, <3>3 DEF Unadded
  <2>3. CASE Managed(w) /\ <<w.from, w.prio>> \notin keep
    BY <2>3 DEF Kept, Managed
  <2> QED BY <1>2, <2>1, <2>2, <2>3, CommandDeletes
<1>3. CASE w \notin ipRules
  <2>1. PICK x \in Left :
          \/ Adds(x) /\ x.rule = w /\ (x = it => step \notin {"unmark", "mark"})
          \/ x.mark = w
    BY <1>1, <1>3 DEF Converging, Unadded
  <2>2. w # NoRule
    BY KeptRule
  <2>3. CASE /\ UNCHANGED <<it, Left>>
             /\ \/ step' \in {"register", "route", "add", "clear", "mark"}
                \/ step = "add" /\ step' = "unmark"
             /\ step' = "mark" => step = "unmark"
    <3>1. CASE x.mark = w
      BY <2>1, <2>3, <3>1 DEF Unadded
    <3>2. CASE Adds(x) /\ x.rule = w /\ x # it
      BY <2>1, <2>3, <3>2 DEF Unadded, Adds
    <3>3. CASE Adds(x) /\ x.rule = w /\ x = it /\ step \notin {"unmark", "mark"}
      <4>1. step # "add"
        BY <3>3, CommandDone
      <4>2. step' \notin {"unmark", "mark"}
        BY <2>3, <3>3, <4>1
      <4> QED BY <2>1, <2>3, <3>3, <4>2 DEF Unadded, Adds
    <3> QED BY <2>1, <3>1, <3>2, <3>3
  <2>4. CASE /\ Left = {it} \cup Left'
             /\ step \in {"route", "add", "mark", "prune"} /\ (step = "add" => it.mark = NoRule)
             /\ step' # "idle" => it' \in Left' /\ step' = it'.step
    <3>1. x = it => FALSE
      <4> SUFFICES ASSUME x = it PROVE FALSE
        OBVIOUS
      <4>1. CASE x.mark = w
        <5>1. it.step = "flush"
          BY <1>1, <2>2, <4>1, AddsWanted
        <5>2. step = "mark"
          BY <1>1, <2>2, <2>4, <4>1, <5>1, Running
        <5> QED BY <4>1, <5>2, CommandDone
      <4>2. CASE Adds(x) /\ x.rule = w /\ step \notin {"unmark", "mark"}
        <5>1. step = "add"
          BY <1>1, <2>4, <4>2, Running DEF Adds
        <5> QED BY <4>2, <5>1, CommandDone
      <4> QED BY <2>1, <4>1, <4>2
    <3>2. x \in Left'
      BY <2>4, <3>1
    <3>3. step' \notin {"unmark", "mark"}
      BY <2>4, CommandLeft, LeftItems, DesiredType, FirstSteps
    <3> QED BY <2>1, <3>2, <3>3 DEF Unadded, Adds
  <2>5. \/ /\ Left = {it} \cup Left'
           /\ step \in {"route", "add", "mark", "prune"} /\ (step = "add" => it.mark = NoRule)
           /\ step' # "idle" => it' \in Left' /\ step' = it'.step
        \/ /\ UNCHANGED <<it, Left>>
           /\ \/ step' \in {"register", "route", "add", "clear", "mark"}
              \/ step = "add" /\ step' = "unmark"
           /\ step' = "mark" => step = "unmark"
    BY CommandLeft
  <2> QED BY <2>3, <2>4, <2>5
<1> QED BY <1>2, <1>3

\* A managed rule is kept, or the prune is left.
LEMMA PrunedStay ==
  ASSUME TypeOK, Shape, Kept, Converging, Command, clean', keep # {}
  PROVE  Unpruned' \/ \A r \in ipRules' : Managed(r) => <<r.from, r.prio>> \in keep
<1>1. step # "idle" /\ clean
  BY CommandLeft, CommandHost
<1>2. CASE Unpruned
  <2>1. PICK x \in Left : x.step = "prune"
    BY <1>2 DEF Unpruned
  <2>2. CASE x \in Left'
    BY <2>1, <2>2 DEF Unpruned
  <2>3. CASE x \notin Left'
    <3>1. x = it /\ step \in {"route", "add", "mark", "prune"}
      BY <2>3, CommandLeft
    <3>2. step = "prune"
      BY <1>1, <2>1, <3>1, Running DEF Adds
    <3> QED BY <3>2, CommandDone
  <2> QED BY <2>2, <2>3
<1>3. CASE ~Unpruned
  <2>1. \A r \in ipRules : Managed(r) => <<r.from, r.prio>> \in keep
    BY <1>1, <1>3 DEF Converging
  <2>2. CASE ipRules' \subseteq ipRules
    BY <2>1, <2>2
  <2>3. CASE step = "add" /\ ipRules' = ipRules \cup {it.rule}
    <3>1. it.rule \in wanted
      BY <1>1, <2>3, AddsWanted, Running
    <3>2. Managed(it.rule) => <<it.rule.from, it.rule.prio>> \in keep
      BY <3>1, KeptRule DEF Managed
    <3> QED BY <2>1, <2>3, <3>2
  <2>4. CASE step = "mark" /\ ipRules' = ipRules \cup {it.mark}
    <3>1. ~Managed(it.mark)
      BY <1>1, AddedRules DEF Managed
    <3> QED BY <2>1, <2>4, <3>1
  <2> QED BY <2>2, <2>3, <2>4, CommandRules
<1> QED BY <1>2, <1>3

\* A rule at the priority of a policy is wanted, or the item that clears it is left.
LEMMA ReplacedStay ==
  ASSUME TypeOK, Shape, Kept, Converging, Command, clean',
         NEW p \in Ruled(desired), NEW r \in ipRules', r.from = p.src, r.prio = BandMin + p.prio
  PROVE  r \in wanted \/ Uncleared(p)'
<1>1. step # "idle" /\ clean /\ desired \in Desired /\ p.src # All
  <2>1. desired \in Desired /\ p \in desired.policies
    BY DesiredType DEF Ruled
  <2>2. p.src \in Sources
    BY <2>1 DEF Desired, Policy
  <2> QED BY <2>1, <2>2, CommandLeft, CommandHost, SourcesAssumption
<1> SUFFICES ASSUME r \notin wanted PROVE Uncleared(p)'
  OBVIOUS
<1>2. r \in ipRules
  <2>1. step = "add" => it.rule \in wanted
    BY <1>1, AddsWanted, Running
  <2>2. it.mark.from = All
    BY <1>1, AddedRules
  <2> QED BY <1>1, <2>1, <2>2, CommandRules
<1>3. PICK x \in Left :
        /\ x.step \in {"flush", "clear"} /\ x.rule.from = p.src /\ x.rule.prio = BandMin + p.prio
        /\ x = it => step \in {"flush", "clear"}
  <2>1. Uncleared(p)
    BY <1>1, <1>2 DEF Converging
  <2> QED BY <2>1 DEF Uncleared
<1>4. ~(x = it /\ step = "clear")
  <2> SUFFICES ASSUME x = it, step = "clear" PROVE FALSE
    OBVIOUS
  <2>1. ~Selects(it.rule, r)
    BY CommandDone
  <2>2. it.rule.mark = 0
    BY <1>1, <1>3, AddedRules
  <2> QED BY <1>3, <2>1, <2>2 DEF Selects
<1>5. x \in Left' /\ (x = it' => step' \in {"flush", "clear"})
  <2>1. CASE UNCHANGED <<it, Left>> /\ (step = "flush" => step' = "clear")
    BY <1>3, <1>4, <2>1
  <2>2. CASE /\ Left = {it} \cup Left' /\ step \in {"route", "add", "mark", "prune"}
             /\ step' # "idle" => it' \in Left' /\ step' = it'.step
    <3>1. x \in Left'
      BY <1>3, <2>2
    <3>2. step' # "idle"
      <4>1. Shape'
        BY CommandLeft
      <4>2. step' = "idle" => Left' = {}
        BY <4>1 DEF Shape, Left, Elems
      <4> QED BY <3>1, <4>2
    <3> QED BY <1>3, <2>2, <3>1, <3>2
  <2>3. \/ /\ Left = {it} \cup Left' /\ step \in {"route", "add", "mark", "prune"}
           /\ step' # "idle" => it' \in Left' /\ step' = it'.step
        \/ UNCHANGED <<it, Left>> /\ (step = "flush" => step' = "clear")
    BY CommandLeft
  <2> QED BY <2>1, <2>2, <2>3
<1> QED BY <1>3, <1>5 DEF Uncleared

\* Every step of a plan without a failure brings it nearer its end.
LEMMA ConvergingNext ==
  ASSUME TypeOK, Shape, Kept, Converging,
         (\E D \in scenario.pushes : Start(D)) \/ Command \/ Host
  PROVE  Converging'
<1>1. ASSUME NEW D \in scenario.pushes, Start(D) PROVE Converging'
  BY <1>1, ConvergingStart
<1>2. CASE Command
  <2> SUFFICES ASSUME clean' PROVE
         /\ Compatible' => \A w \in wanted' : w \in ipRules' \/ Unadded(w)'
         /\ keep' # {} => Unpruned' \/ \A r \in ipRules' : Managed(r) => <<r.from, r.prio>> \in keep'
         /\ \A p \in Ruled(desired'), r \in ipRules' :
              r.from = p.src /\ r.prio = BandMin + p.prio => r \in wanted' \/ Uncleared(p)'
    BY DEF Converging, Ruled, HasRule, Managed
  <2>1. UNCHANGED <<desired, scenario, keep, wanted>>
    BY <1>2, CommandLeft
  <2>2. Compatible' => Compatible
    BY <2>1 DEF Compatible
  <2> QED BY <1>2, <2>1, <2>2, WantedStay, PrunedStay, ReplacedStay
<1>3. CASE Host
  <2> SUFFICES ASSUME clean' PROVE Converging'
    BY DEF Converging
  <2>1. clean /\ UNCHANGED <<ipRules, scenario, desired, keep, wanted, it, step, Left>>
    BY <1>3, HostLeft
  <2>2. Compatible' = Compatible /\ Ruled(desired)' = Ruled(desired)
    BY <2>1 DEF Compatible, Ruled, HasRule
  <2>3. \A w : Unadded(w)' <=> Unadded(w)
    BY <2>1 DEF Unadded, Adds
  <2>4. \A p : Uncleared(p)' <=> Uncleared(p)
    BY <2>1 DEF Uncleared
  <2>5. Unpruned' <=> Unpruned
    BY <2>1 DEF Unpruned
  <2> QED BY <2>1, <2>2, <2>3, <2>4, <2>5 DEF Converging, Managed
<1> QED BY <1>1, <1>2, <1>3
-----------------------------------------------------------------------------
(* Tables *)

\* What a plan promises: to a registered egress its table, to another a free one.
LEMMA StartHas ==
  ASSUME TypeOK, Shape, NEW D \in scenario.pushes, Start(D),
         NEW e \in Egress, NEW t \in TableIds, Has(e, t)'
  PROVE  \/ registry[e] = t
         \/ registry[e] = NoTable /\ e \in Selected(D) /\ t = TableOf(e, D)
<1>1. D \in Desired /\ registry \in [Egress -> TableIds \cup {NoTable}] /\ UNCHANGED registry
  BY StartPlan DEF TypeOK, Start
<1>2. CASE registry'[e] = t
  BY <1>1, <1>2
<1>3. CASE Promised(e, t)'
  <2>1. PICK x \in Left' : x.step = "forget" /\ x.egress = e /\ x.table = t
    BY <1>3 DEF Promised
  <2>2. PICK rules :
          /\ Planned(rules, D) \subseteq Left'
          /\ \A y \in Left' : y \in Planned(rules, D) \/ y.step = "route"
    BY StartPlan
  <2>3. x \in Planned(rules, D)
    BY <2>1, <2>2
  <2>4. PICK d \in Selected(D) : x = Item("forget", d, TableOf(d, D), NoRule, NoRule)
    <3>1. \A p \in Ruled(D) : PolicyItem(p, D).step # "forget"
      BY DEF PolicyItem, Item
    <3> QED BY <2>1, <2>3, <3>1 DEF Planned, Item
  <2>5. d = e /\ t = TableOf(e, D)
    BY <2>1, <2>4 DEF Item
  <2> QED BY <1>1, <2>4, <2>5, TablesOf
<1> QED BY <1>2, <1>3 DEF Has

\* A plan gives no egress the table of another.
LEMMA TablesStart ==
  ASSUME TypeOK, Shape, Tables, NEW D \in scenario.pushes, Start(D) PROVE Tables'
<1>1. /\ D \in Desired /\ UNCHANGED <<registry, route, scenario>> /\ step = "idle"
      /\ registry \in [Egress -> TableIds \cup {NoTable}]
  BY StartPlan DEF TypeOK, Start
<1>2. OneTable'
  <2> SUFFICES ASSUME NEW e \in Egress, NEW d \in Egress, NEW t \in TableIds, NEW u \in TableIds,
                      Has(e, t)', Has(d, u)'
               PROVE  e = d <=> t = u
    BY DEF OneTable
  <2>1. /\ \/ registry[e] = t
           \/ registry[e] = NoTable /\ e \in Selected(D) /\ t = TableOf(e, D)
        /\ \/ registry[d] = u
           \/ registry[d] = NoTable /\ d \in Selected(D) /\ u = TableOf(d, D)
    BY StartHas
  <2>2. CASE registry[e] = t /\ registry[d] = u
    BY <2>2 DEF Tables, OneTable, Has
  <2>3. registry[e] = t => registry[e] # NoTable
    BY Constants
  <2>4. registry[d] = u => registry[d] # NoTable
    BY Constants
  <2> QED BY <1>1, <2>1, <2>2, <2>3, <2>4, TablesOf
<1>3. Homes'
  <2>1. \A t \in TableIds : route[t] # NoDevice => Rerouted(t) \/ registry[route[t]] = t
    BY <1>1 DEF Tables, Homes, Holds
  <2>2. \A t : Rerouted(t)' <=> Rerouted(t)
    BY <1>1 DEF Rerouted
  <2> QED BY <1>1, <2>1, <2>2 DEF Homes, Holds
<1>4. Registered'
  <2>1. step' # "idle" => step' = it'.step
    BY StartPlan
  <2> QED BY <2>1 DEF Registered
<1> QED BY <1>2, <1>3, <1>4 DEF Tables

\* A step promises no egress a table that it had not.
LEMMA HasNext ==
  ASSUME TypeOK, Shape, Command \/ Host, torn' = 0,
         NEW e \in Egress, NEW t \in TableIds, Has(e, t)'
  PROVE  Has(e, t)
<1>1. Left' \subseteq Left
  BY CommandLeft, HostLeft
<1>2. Promised(e, t)' => Promised(e, t)
  BY <1>1 DEF Promised
<1>3. ASSUME registry'[e] = t PROVE Has(e, t)
  <2>1. registry \in [Egress -> TableIds \cup {NoTable}] /\ t # NoTable
    BY Constants DEF TypeOK
  <2>2. CASE UNCHANGED registry
    BY <1>3, <2>2 DEF Has
  <2>3. CASE registry' = [registry EXCEPT ![it.egress] = NoTable]
    BY <1>3, <2>1, <2>3 DEF Has
  <2>4. CASE Command /\ step = "register" /\ registry' = [registry EXCEPT ![it.egress] = it.table]
    <3>1. it \in Left /\ it.step = "forget"
      BY <2>4, Running
    <3>2. e = it.egress => Promised(e, t)
      BY <1>3, <2>1, <2>4, <3>1 DEF Promised
    <3> QED BY <1>3, <2>1, <2>4, <3>2 DEF Has
  <2> QED BY <2>2, <2>3, <2>4, CommandHost, HostLeft
<1> QED BY <1>2, <1>3 DEF Has

\* The line being rewritten is of an egress that the plan promised the table.
LEMMA HoldsHas ==
  ASSUME TypeOK, Shape, NEW e, NEW t, Holds(e, t) PROVE Has(e, t)
<1>1. CASE step = "register" /\ it.egress = e /\ it.table = t
  <2>1. it \in Left /\ it.step = "forget"
    BY <1>1, Running
  <2> QED BY <1>1, <2>1 DEF Has, Promised
<1> QED BY <1>1 DEF Holds, Has

\* An egress keeps the table it holds.
LEMMA HoldsNext ==
  ASSUME TypeOK, Shape, OneTable, Command \/ Host, torn' = 0,
         NEW e \in Egress, NEW t \in TableIds, Holds(e, t)
  PROVE  Holds(e, t)'
<1>0. registry \in [Egress -> TableIds \cup {NoTable}]
  BY DEF TypeOK
<1>1. CASE Command
  <2>1. CASE step = "register"
    <3>1. registry' = [registry EXCEPT ![it.egress] = it.table]
      BY <1>1, <2>1, CommandDone
    <3>2. it \in Left /\ it.step = "forget" /\ it.table \in TableIds /\ it.egress \in Egress
      BY <2>1, Running, ItemFacts
    <3>3. Has(e, t) /\ Has(it.egress, it.table)
      BY <3>2, HoldsHas DEF Has, Promised
    <3>4. e = it.egress => t = it.table
      BY <3>2, <3>3 DEF OneTable
    <3>5. registry'[e] = t
      <4>1. e # it.egress => registry[e] = t
        BY DEF Holds
      <4> QED BY <1>0, <3>1, <3>4, <4>1
    <3> QED BY <3>5 DEF Holds
  <2>2. CASE step = "forget"
    <3>1. registry' = [registry EXCEPT ![it.egress] = NoTable]
      BY <1>1, <2>2, CommandDone
    <3>2. UNCHANGED it /\ step' = "register"
      BY <1>1, <2>2, CommandLeft
    <3>3. it \in Left /\ it.step = "forget" /\ it.table \in TableIds /\ it.egress \in Egress
      BY <2>2, Running, ItemFacts
    <3>4. registry[e] = t
      BY <2>2 DEF Holds
    <3>5. Has(e, t) /\ Has(it.egress, it.table)
      BY <3>3, <3>4 DEF Has, Promised
    <3>6. e = it.egress => t = it.table
      BY <3>3, <3>5 DEF OneTable
    <3> QED BY <1>0, <3>1, <3>2, <3>4, <3>6 DEF Holds
  <2>3. CASE step \notin {"register", "forget"}
    <3>1. registry[e] = t /\ UNCHANGED registry
      BY <1>1, <2>3, CommandHost DEF Holds
    <3> QED BY <3>1 DEF Holds
  <2> QED BY <2>1, <2>2, <2>3
<1>2. CASE Host
  <2>1. UNCHANGED registry /\ (UNCHANGED <<step, it>> \/ step # "register")
    BY <1>2, HostLeft
  <2> QED BY <2>1 DEF Holds
<1> QED BY <1>1, <1>2

\* A device that goes takes its routes along; nothing else changes one.
LEMMA HostRoute ==
  ASSUME TypeOK, Host, NEW t \in TableIds
  PROVE  route'[t] = route[t] \/ route'[t] = NoDevice
<1>1. CASE Crash
  BY <1>1 DEF Crash
<1>2. CASE \E s \in Sources : OpenFlow(s)
  BY <1>2 DEF OpenFlow
<1>3. CASE \E e \in Egress : DeviceGone(e) \/ DeviceBack(e)
  BY <1>3 DEF DeviceGone, DeviceBack
<1> QED BY <1>1, <1>2, <1>3 DEF Host

\* Registering and routing keep tables and egresses together.
LEMMA TablesNext ==
  ASSUME TypeOK, Shape, Tables, Command \/ Host, torn' = 0 PROVE Tables'
<1>1. OneTable'
  BY HasNext DEF Tables, OneTable
<1>2. UNCHANGED <<scenario, desired>> /\ \A t : Rerouted(t)' <=> Rerouted(t)
  <2>1. UNCHANGED <<scenario, desired>>
    BY CommandLeft, HostLeft
  <2> QED BY <2>1 DEF Rerouted
<1>3. Homes'
  <2>0. /\ route \in [TableIds -> Egress \cup {NoDevice}]
        /\ route' \in [TableIds -> Egress \cup {NoDevice}]
    BY TypeCommand, TypeHost DEF TypeOK
  <2>1. ASSUME NEW t \in TableIds, NEW d \in Egress, route'[t] = d
        PROVE  Rerouted(t) \/ Holds(d, t)'
    <3>1. CASE route[t] = d
      <4>1. Rerouted(t) \/ Holds(d, t)
        BY <3>1, Constants DEF Tables, Homes
      <4> QED BY <4>1, HoldsNext DEF Tables
    <3>2. CASE Command /\ step = "route" /\ t = it.table /\ d = it.egress
      <4>1. /\ it \in ItemsOf(desired) /\ desired \in Desired /\ desired \in scenario.pushes
            /\ it.step \in {"forget", "route"}
        BY <3>2, Running
      <4>2. CASE it.step = "route"
        <5>1. \E y \in desired.routes : y.table = t
          BY <3>2, <4>1, <4>2, ItemFacts
        <5> QED BY <4>1, <5>1 DEF Rerouted
      <4>3. CASE it.step = "forget"
        <5>1. registry[d] = t /\ UNCHANGED registry
          BY <3>2, <4>3, CommandHost DEF Tables, Registered
        <5> QED BY <5>1 DEF Holds
      <4> QED BY <4>1, <4>2, <4>3
    <3>3. CASE Command /\ route[t] # d
      <4>1. step = "route" /\ route' = [route EXCEPT ![it.table] = it.egress]
        BY <2>1, <3>3, CommandHost
      <4> QED BY <2>0, <2>1, <3>2, <3>3, <4>1
    <3> QED BY <2>1, <3>1, <3>3, HostRoute, Constants
  <2>2. \A t \in TableIds : route'[t] # NoDevice => route'[t] \in Egress
    BY <2>0
  <2>3. \A t \in TableIds, d \in Egress : route'[t] = d => Rerouted(t)' \/ Holds(d, t)'
    BY <1>2, <2>1
  <2> QED BY <2>2, <2>3 DEF Homes, Holds
<1>4. Registered'
  <2> SUFFICES ASSUME step' = "route", it'.step = "forget" PROVE registry'[it'.egress] = it'.table
    BY DEF Registered
  <2>1. CASE Command
    <3>1. step = "register" /\ it' = it
      BY <2>1, CommandLeft
    <3>2. it.egress \in Egress
      BY <3>1, Running, ItemFacts
    <3> QED BY <2>1, <3>1, <3>2, CommandDone DEF TypeOK
  <2>2. CASE Host
    BY <2>2, HostLeft DEF Tables, Registered
  <2> QED BY <2>1, <2>2
<1> QED BY <1>1, <1>3, <1>4 DEF Tables

\* Hence the table of an egress leads to it, and to it alone.
LEMMA TablesSafe ==
  ASSUME TypeOK, Shape, Tables, NEW e \in Egress, registry[e] # NoTable
  PROVE  /\ Rerouted(registry[e]) \/ route[registry[e]] \in {e, NoDevice}
         /\ \A d \in Egress : registry[d] = registry[e] => d = e
<1>1. registry[e] \in TableIds /\ route \in [TableIds -> Egress \cup {NoDevice}]
  BY DEF TypeOK
<1>2. \A d \in Egress, t \in TableIds : Has(d, t) /\ t = registry[e] => d = e
  BY <1>1 DEF Tables, OneTable, Has
<1>3. \A d \in Egress : registry[d] = registry[e] => d = e
  BY <1>1, <1>2 DEF Has
<1>4. ASSUME ~Rerouted(registry[e]), route[registry[e]] # NoDevice
      PROVE  route[registry[e]] = e
  <2>1. Holds(route[registry[e]], registry[e])
    BY <1>1, <1>4 DEF Tables, Homes
  <2> QED BY <1>1, <1>2, <1>4, <2>1, HoldsHas
<1> QED BY <1>3, <1>4
-----------------------------------------------------------------------------
(* The tables that rules of policies lead through *)

\* A plan registers the table of each egress it selects.
LEMMA StartRegisters ==
  ASSUME TypeOK, NEW D \in scenario.pushes, Start(D), NEW e \in Selected(D)
  PROVE  Has(e, TableOf(e, D))'
<1>1. D \in Desired /\ registry \in [Egress -> TableIds \cup {NoTable}] /\ UNCHANGED registry
  BY StartPlan DEF TypeOK, Start
<1>2. PICK rules : Planned(rules, D) \subseteq Left'
  BY StartPlan
<1>3. Item("forget", e, TableOf(e, D), NoRule, NoRule) \in Left'
  BY <1>2 DEF Planned
<1> DEFINE t == TableOf(e, D)
<1>4. \E x \in Left' : x.step = "forget" /\ x.egress = e /\ x.table = t
  BY <1>3 DEF Item
<1>5. TableOf(e, D)' = t
  BY <1>1 DEF TableOf, FreeId, UsedIds
<1> QED BY <1>4, <1>5 DEF Has, Promised

\* What converged before leads through tables of egresses that were chosen.
LEMMA LedStart ==
  ASSUME TypeOK, Shape, Kept, Converging, Tables, Led, NEW D \in scenario.pushes, Start(D)
  PROVE  Led'
<1>1. /\ D \in Desired /\ UNCHANGED <<registry, scenario, ipRules>> /\ step = "idle" /\ Left = {}
      /\ registry \in [Egress -> TableIds \cup {NoTable}] /\ desired' = D
      /\ desired \in Desired
  BY StartPlan, LeftItems, DesiredType DEF TypeOK, Start, ruleVars
<1>2. PICK rules :
        /\ Explicit(rules) \subseteq Explicits(D) /\ wanted' = Wanted(rules, D)
        /\ \A x \in Left' : x \in Planned(rules, D) \/ x.step = "route"
  BY StartPlan
<1>3. LedItems'
  <2> SUFFICES ASSUME NEW x \in Left', x.step = "flush" PROVE Has(x.egress, x.table)'
    BY DEF LedItems
  <2>1. PICK p \in Ruled(D) : x = PolicyItem(p, D) /\ p.action = "egress"
    BY <1>2 DEF Planned, Item, PolicyItem
  <2>2. p.egress \in Selected(D) /\ x.egress = p.egress /\ x.table = TableOf(p.egress, D)
    BY <2>1 DEF Selected, Ruled, PolicyItem, PolicyRule, Item
  <2>3. TableOf(p.egress, D)' = TableOf(p.egress, D)
    BY <1>1 DEF TableOf, FreeId, UsedIds
  <2> QED BY <2>2, <2>3, StartRegisters
<1> SUFFICES ASSUME NEW s \in Sources
             PROVE  /\ ChosenBy(D, s) \subseteq chosen'[s]
                    /\ OnlyPolicies(s) => LedRules(s)' /\ LedWanted(s)'
  <2>1. \A s \in Sources : OnlyPolicies(s)' <=> OnlyPolicies(s)
    BY <1>1 DEF OnlyPolicies
  <2> QED BY <1>1, <1>3, <2>1 DEF Led, ChosenBy
<1>4. chosen'[s] = (IF clean /\ keep # {} THEN ChosenBy(desired, s) ELSE chosen[s]) \cup ChosenBy(D, s)
  BY DEF Start
<1> SUFFICES ASSUME OnlyPolicies(s) PROVE LedRules(s)' /\ LedWanted(s)'
  BY <1>4
<1>5. LedRules(s)'
  <2> SUFFICES ASSUME NEW r \in ipRules, r.from = s, r.mark = 0, r.table \in TableIds
               PROVE  AtPolicy(r) /\ \E e \in chosen'[s] : registry[e] = r.table
    BY <1>1 DEF LedRules, AtPolicy, Holds
  <2>1. AtPolicy(r) /\ \E e \in chosen[s] : registry[e] = r.table
    BY <1>1 DEF Led, LedRules, Holds
  <2>2. CASE clean /\ keep # {}
    <3>0. PICK C \in scenario.pushes : \E p \in C.policies : p.src = s /\ r.prio = BandMin + p.prio
      BY <2>1 DEF AtPolicy
    <3>1. PICK p \in C.policies : p.src = s /\ r.prio = BandMin + p.prio
      BY <3>0
    <3>2. p.prio \in Nat /\ p.prio <= BandMax - BandMin
      BY <3>1, DesiredType DEF OnlyPolicies, Desired, Policy
    <3>3. Managed(r)
      BY <3>1, <3>2, SourcesAssumption DEF Managed, BandMin, BandMax
    <3>4. <<s, r.prio>> \in keep
      BY <1>1, <2>2, <3>3 DEF Converging, Unpruned
    <3>5. \E q \in Ruled(desired) : q.src = s /\ r.prio = BandMin + q.prio
      <4>1. CASE \E q \in Ruled(desired) : <<s, r.prio>> = <<q.src, BandMin + q.prio>>
        BY <4>1
      <4>2. CASE \E x \in desired.rules : s = x.from /\ (r.prio = x.prio \/ r.prio >= 11000)
        <5>1. PICK x \in desired.rules : s = x.from /\ (r.prio = x.prio \/ r.prio >= 11000)
          BY <4>2
        <5>2. r.prio = x.prio /\ x.prio > 0
          BY <3>1, <3>2, <5>1 DEF BandMin, BandMax
        <5>4. desired \in scenario.pushes
          BY <2>2 DEF Kept
        <5>3. \E e \in Explicits(desired) : e.from = s /\ e.prio = r.prio
          BY <5>1, <5>2, <5>4, DesiredType, ExplicitPrio
        <5> QED BY <3>1, <5>3, <5>4 DEF OnlyPolicies
      <4>3. Source(<<s, r.prio>>)
        BY <3>4 DEF Kept
      <4> QED BY <4>1, <4>2, <4>3 DEF Source
    <3>6. r \in wanted
      BY <1>1, <2>2, <3>5 DEF Converging, Uncleared
    <3>7. \E e \in ChosenBy(desired, s) : registry[e] = r.table
      BY <1>1, <2>2, <3>6 DEF Led, LedWanted, Has, Promised
    <3> QED BY <1>4, <2>1, <2>2, <3>7
  <2>3. CASE ~(clean /\ keep # {})
    BY <1>4, <2>1, <2>3
  <2> QED BY <2>2, <2>3
<1>6. LedWanted(s)'
  <2> SUFFICES ASSUME NEW w \in wanted', w.from = s, w.table \in TableIds
               PROVE  \E e \in ChosenBy(D, s) : Has(e, w.table)'
    BY <1>1 DEF LedWanted, ChosenBy
  <2>1. w \notin Explicit(rules)
    BY <1>2 DEF OnlyPolicies
  <2>2. \A p : w # MarkRule(p, D)
    BY SourcesAssumption DEF MarkRule, NoRule
  <2>3. w # DirectRule
    BY SourcesAssumption DEF DirectRule
  <2>4. PICK p \in Ruled(D) : w = PolicyRule(p, D)
    BY <1>2, <2>1, <2>2, <2>3, WantedCases
  <2>5. p.action = "egress" /\ p.src = s /\ w.table = TableOf(p.egress, D) /\ p \in D.policies
    BY <1>1, <2>4, PolicyRuleForm, Constants DEF Ruled
  <2>6. p.egress \in Selected(D) /\ p.egress \in ChosenBy(D, s)
    BY <2>5 DEF Selected, ChosenBy
  <2>7. TableOf(p.egress, D)' = TableOf(p.egress, D)
    BY <1>1 DEF TableOf, FreeId, UsedIds
  <2> QED BY <2>5, <2>6, <2>7, StartRegisters
<1> QED BY <1>5, <1>6

\* What was promised is registered when its item ends.
LEMMA RegisteredHas ==
  ASSUME TypeOK, Shape, Tables, Command, torn' = 0,
         NEW e \in Egress, NEW t \in TableIds, Has(e, t)
  PROVE  Has(e, t)'
<1>1. CASE registry[e] = t
  <2>1. Holds(e, t)'
    BY <1>1, HoldsNext DEF Tables, Holds
  <2>2. CASE step' = "register"
    <3>1. step = "forget" /\ UNCHANGED <<it, Left>>
      <4>1. \A x \in Left' : x.step # "register"
        BY CommandLeft, LeftItems, DesiredType, ItemFacts
      <4> QED BY <2>2, <4>1, CommandLeft
    <3>2. it \in Left /\ it.step = "forget"
      BY <3>1, Running
    <3> QED BY <2>1, <3>1, <3>2 DEF Holds, Has, Promised
  <2> QED BY <2>1, <2>2 DEF Holds, Has
<1>2. CASE Promised(e, t)
  <2>1. PICK x \in Left : x.step = "forget" /\ x.egress = e /\ x.table = t
    BY <1>2 DEF Promised
  <2>2. CASE x \in Left'
    BY <2>1, <2>2 DEF Has, Promised
  <2>3. CASE x \notin Left'
    <3>1. x = it /\ step \in {"route", "add", "mark", "prune"}
      BY <2>3, CommandLeft
    <3>2. step = "route"
      BY <2>1, <3>1, Running DEF Adds
    <3>3. registry[e] = t
      BY <2>1, <3>1, <3>2 DEF Tables, Registered
    <3> QED BY <1>1, <3>3
  <2> QED BY <2>2, <2>3
<1> QED BY <1>1, <1>2 DEF Has

\* The rule of an egress is added once its table is registered.
LEMMA AddedTable ==
  ASSUME TypeOK, Shape, LedItems, step # "idle", it.step = "flush"
  PROVE  \E p \in Chosen(desired) :
           /\ it.egress = p.egress /\ it.rule = To(p, it.table)
           /\ p \in desired.policies /\ p.src \in Sources /\ p.egress \in Egress
           /\ p.egress \in ChosenBy(desired, p.src)
           /\ it.table \in TableIds /\ registry[p.egress] = it.table
<1>1. it \in Left /\ it \in ItemsOf(desired) /\ desired \in Desired
  BY Running
<1>2. PICK p \in Chosen(desired) : it.egress = p.egress /\ it.rule = To(p, it.table)
  BY <1>1, ItemFacts
<1>3. p \in desired.policies /\ p \in Policy /\ p.action = "egress"
  BY <1>1 DEF Chosen, Desired
<1>4. Has(it.egress, it.table) /\ ~Promised(it.egress, it.table)
  BY <1>1, TablesDone DEF LedItems, Promised
<1>5. it.table \in TableIds
  BY <1>1, ItemFacts
<1> QED BY <1>2, <1>3, <1>4, <1>5 DEF Has, ChosenBy, Policy

\* Commands add no rule but those of egresses chosen for the source.
LEMMA LedCommand ==
  ASSUME TypeOK, Shape, Tables, Led, Command, torn' = 0 PROVE Led'
<1>1. UNCHANGED <<scenario, desired, chosen, wanted>> /\ Left' \subseteq Left /\ step # "idle"
  BY CommandLeft
<1>2. LedItems'
  <2> SUFFICES ASSUME NEW x \in Left', x.step = "flush" PROVE Has(x.egress, x.table)'
    BY DEF LedItems
  <2>1. Has(x.egress, x.table) /\ x \in ItemsOf(desired) /\ desired \in Desired
    BY <1>1, LeftItems, DesiredType DEF Led, LedItems
  <2>2. x.egress \in Egress /\ x.table \in TableIds
    <3>1. x.table \in TableIds /\ \E p \in Chosen(desired) : x.egress = p.egress
      BY <2>1, ItemFacts
    <3> QED BY <2>1, <3>1 DEF Chosen, Desired, Policy
  <2> QED BY <2>1, <2>2, RegisteredHas
<1>3. \A s \in Sources : ChosenBy(desired, s) \subseteq chosen[s]
  BY DEF Led
<1>4. chosen \in [Sources -> SUBSET Egress] /\ desired \in Desired
  BY DesiredType DEF TypeOK
<1>5. ASSUME NEW s \in Sources, OnlyPolicies(s) PROVE LedRules(s)'
  <2>1. \A r : AtPolicy(r)' <=> AtPolicy(r)
    BY <1>1 DEF AtPolicy
  <2>2. \A t \in TableIds, e \in Egress : Holds(e, t) => Holds(e, t)'
    BY HoldsNext DEF Tables
  <2>3. ASSUME NEW r \in ipRules', r.from = s, r.mark = 0, r.table \in TableIds
        PROVE  AtPolicy(r) /\ \E e \in chosen[s] : Holds(e, r.table)'
    <3>1. CASE r \in ipRules
      <4>1. AtPolicy(r) /\ \E e \in chosen[s] : Holds(e, r.table)
        BY <1>5, <2>3, <3>1 DEF Led, LedRules
      <4> QED BY <1>4, <2>2, <2>3, <4>1
    <3>2. CASE step = "add" /\ r = it.rule
      <4>1. it.step # "delete"
        <5>1. it.step = "delete" => it.rule \in Explicits(desired) /\ desired \in scenario.pushes
          BY <1>1, <3>2, AddedRules, Running
        <5> QED BY <1>5, <2>3, <3>2, <5>1 DEF OnlyPolicies
      <4>2. it.step # "clear"
        <5>1. it.step = "clear" =>
                it.rule = DirectRule \/ \E p \in Ruled(desired) \ Chosen(desired) : it.rule = To(p, Main)
          BY <1>1, <1>4, Running, ItemFacts
        <5>2. DirectRule.from = All /\ \A p : To(p, Main).table = Main
          BY DEF DirectRule, To
        <5> QED BY <2>3, <3>2, <5>1, <5>2, SourcesAssumption, Constants
      <4>3. it.step = "flush" /\ desired \in scenario.pushes
        BY <1>1, <3>2, <4>1, <4>2, Running DEF Adds
      <4>4. PICK p \in Chosen(desired) :
              /\ it.egress = p.egress /\ it.rule = To(p, it.table)
              /\ p \in desired.policies /\ p.egress \in Egress
              /\ p.egress \in ChosenBy(desired, p.src)
              /\ it.table \in TableIds /\ registry[p.egress] = it.table
        BY <1>1, <4>3, AddedTable DEF Led
      <4>5. p.src = s /\ r.prio = BandMin + p.prio /\ r.table = it.table
        BY <2>3, <3>2, <4>4 DEF To
      <4>6. Holds(p.egress, r.table)
        BY <4>4, <4>5 DEF Holds
      <4> QED BY <1>3, <2>2, <2>3, <4>3, <4>4, <4>5, <4>6 DEF AtPolicy
    <3>3. CASE r = it.mark
      BY <1>1, <2>3, <3>3, AddedRules, SourcesAssumption
    <3> QED BY <2>3, <3>1, <3>2, <3>3, CommandRules
  <2> QED BY <1>1, <2>1, <2>3 DEF LedRules
<1>6. ASSUME NEW s \in Sources, OnlyPolicies(s), clean' PROVE LedWanted(s)'
  <2>1. clean
    BY <1>6, CommandHost
  <2>2. \A w \in wanted : w.from = s /\ w.table \in TableIds =>
          \E e \in ChosenBy(desired, s) : Has(e, w.table)
    BY <1>6, <2>1 DEF Led, LedWanted
  <2>3. ChosenBy(desired, s) \subseteq Egress /\ ChosenBy(desired, s)' = ChosenBy(desired, s)
    BY <1>1, <1>4 DEF ChosenBy, Desired, Policy
  <2>4. \A t \in TableIds, e \in Egress : Has(e, t) => Has(e, t)'
    BY RegisteredHas
  <2> QED BY <1>1, <2>2, <2>3, <2>4 DEF LedWanted
<1>7. \A s \in Sources : OnlyPolicies(s)' <=> OnlyPolicies(s)
  BY <1>1 DEF OnlyPolicies
<1>8. \A s \in Sources : ChosenBy(desired, s)' \subseteq chosen'[s]
  BY <1>1, <1>3 DEF ChosenBy
<1> QED BY <1>2, <1>5, <1>6, <1>7, <1>8 DEF Led

\* The host's steps change neither rules nor the registry.
LEMMA LedHost ==
  ASSUME TypeOK, Shape, Tables, Led, Host, torn' = 0 PROVE Led'
<1>1. UNCHANGED <<registry, ipRules, scenario, desired, wanted, chosen>> /\ (clean' => clean)
  BY HostLeft
<1>2. chosen \in [Sources -> SUBSET Egress]
  BY DEF TypeOK
<1>3. \A t \in TableIds, e \in Egress : Holds(e, t) => Holds(e, t)'
  BY HoldsNext DEF Tables
<1>4. \A s \in Sources : /\ OnlyPolicies(s)' <=> OnlyPolicies(s)
                          /\ ChosenBy(desired, s)' = ChosenBy(desired, s)
  BY <1>1 DEF OnlyPolicies, ChosenBy
<1>5. \A s \in Sources : LedRules(s) => LedRules(s)'
  BY <1>1, <1>2, <1>3 DEF LedRules, AtPolicy
<1>6. CASE UNCHANGED <<todo, step, it, Left, torn, clean>>
  <2>1. \A e, t : Has(e, t)' <=> Has(e, t)
    BY <1>1, <1>6 DEF Has, Promised
  <2>2. \A s \in Sources : LedWanted(s) => LedWanted(s)'
    BY <1>1, <1>4, <2>1 DEF LedWanted
  <2>3. LedItems'
    BY <1>6, <2>1 DEF Led, LedItems
  <2> QED BY <1>1, <1>4, <1>5, <2>2, <2>3 DEF Led
<1>7. CASE Left' = {} /\ ~clean'
  <2>1. LedItems'
    BY <1>7 DEF LedItems
  <2> QED BY <1>1, <1>4, <1>5, <1>7, <2>1 DEF Led
<1> QED BY <1>6, <1>7, HostLeft

\* No rule for all sources leads such a source through the table of an egress.
LEMMA WideElsewhere ==
  ASSUME WideForeign, NEW s, OnlyPolicies(s),
         NEW r \in ipRules, r.from \in {s, All}, r.mark = 0, r.table \in TableIds
  PROVE  r.from = s
<1> SUFFICES ASSUME r.from = All PROVE FALSE
  OBVIOUS
<1>1. Foreign(r)
  BY DEF WideForeign
<1> QED BY <1>1 DEF Foreign, OnlyPolicies

\* Hence a source leaves through an egress chosen for it.
LEMMA LedSafe ==
  ASSUME TypeOK, Shape, Tables, Led, WideForeign, NEW s \in Sources, OnlyPolicies(s),
         \A r \in ipRules : r.from = s => ~Rerouted(r.table)
  PROVE  Exits(s) \subseteq chosen[s] \cup {"main", "blackhole"}
<1>1. ASSUME NEW r \in ipRules, r.from \in {s, All}, r.mark = 0, Exit(r) # NoDevice
      PROVE  Exit(r) \in chosen[s] \cup {"main", "blackhole"}
  <2> SUFFICES ASSUME r.table \in TableIds PROVE route[r.table] \in chosen[s]
    BY DEF Exit
  <2>0. r.from = s
    BY <1>1, WideElsewhere
  <2>1. route[r.table] # NoDevice /\ route \in [TableIds -> Egress \cup {NoDevice}]
    BY <1>1 DEF Exit, TypeOK
  <2>2. Holds(route[r.table], r.table)
    BY <1>1, <2>0, <2>1 DEF Tables, Homes
  <2>3. PICK e \in chosen[s] : Holds(e, r.table)
    BY <1>1, <2>0 DEF Led, LedRules
  <2>4. e \in Egress /\ route[r.table] \in Egress
    BY <2>1, <2>3 DEF TypeOK
  <2>5. Has(e, r.table) /\ Has(route[r.table], r.table)
    BY <2>2, <2>3, HoldsHas
  <2>6. e = route[r.table]
    BY <2>4, <2>5 DEF Tables, OneTable
  <2> QED BY <2>3, <2>6
<1> QED BY <1>1 DEF Exits
-----------------------------------------------------------------------------
(* Connections *)

\* The rules of such a source are all at one priority, that of its policies.
LEMMA OwnPrio ==
  ASSUME NEW s, AlwaysRouted(s), NEW r \in OwnRules(s),
         NEW D \in scenario.pushes, NEW p \in D.policies, p.src = s
  PROVE  r.from = s /\ r.prio = BandMin + p.prio /\ p.action = "egress"
<1>1. r.from = s /\ \E C \in scenario.pushes : \E q \in C.policies : q.src = s /\ r.prio = BandMin + q.prio
  BY DEF OwnRules, AtPolicy
<1>2. \A C \in scenario.pushes : \A q \in C.policies :
        q.src = s => p.prio = q.prio /\ p.action = "egress"
  BY DEF AlwaysRouted
<1> QED BY <1>1, <1>2

\* A policy's rule is in the band or above it.
LEMMA OwnLow ==
  ASSUME TypeOK, NEW s, AlwaysRouted(s), NEW r \in OwnRules(s)
  PROVE  r \in ipRules /\ r.from = s /\ r.prio >= BandMin
<1>1. /\ r \in ipRules /\ r.from = s
      /\ \E C \in scenario.pushes : \E q \in C.policies : q.src = s /\ r.prio = BandMin + q.prio
  BY DEF OwnRules, AtPolicy
<1>2. \A C \in scenario.pushes : \A q \in C.policies : q.prio \in Nat
  BY DesiredType DEF Desired, Policy
<1> QED BY <1>1, <1>2 DEF BandMin

\* A plan that runs has a policy for it.
LEMMA OwnPolicy ==
  ASSUME TypeOK, NEW s, AlwaysRouted(s), desired \in scenario.pushes
  PROVE  \E p \in Ruled(desired) : p \in desired.policies /\ p.src = s
<1>1. ChosenBy(desired, s) # {}
  BY DEF AlwaysRouted
<1> QED BY <1>1 DEF ChosenBy, Ruled, HasRule

\* A policy's rule goes only in the item that adds it again.
LEMMA OwnStays ==
  ASSUME TypeOK, Shape, Kept, Command, NEW s \in Sources, AlwaysRouted(s), OwnForm(s),
         NEW r \in OwnRules(s), r \notin ipRules'
  PROVE  step = "clear" /\ it.step = "flush" /\ it.rule.from = s
<1>0. step # "idle"
  BY CommandLeft
<1>1. /\ r \in ipRules /\ r.from = s /\ r.prio >= BandMin /\ r.table \in TableIds /\ r.mark = 0
      /\ it \in ItemsOf(desired) /\ desired \in scenario.pushes /\ desired \in Desired
  BY <1>0, OwnLow, Running DEF OwnForm
<1>2. ~(step = "delete" /\ r.table = it.rule.table)
  <2>1. step = "delete" => it.rule \in Explicits(desired)
    BY <1>0, <1>1, Running, ItemFacts
  <2> QED BY <1>1, <2>1 DEF AlwaysRouted
<1>3. ~(step = "unmark" /\ r.mark = it.mark.mark)
  <2>1. step = "unmark" => it.mark \in MarksOf(desired) /\ it.mark # NoRule
    BY <1>0, <1>1, Running, ItemFacts
  <2> QED BY <1>1, <2>1 DEF MarksOf, MarkTo
<1>4. ~(step = "prune" /\ <<r.from, r.prio>> \notin keep)
  <2>1. PICK p \in Ruled(desired) : p \in desired.policies /\ p.src = s
    BY <1>1, OwnPolicy
  <2>2. r.prio = BandMin + p.prio
    BY <1>1, <2>1, OwnPrio
  <2> QED BY <1>1, <2>1, <2>2 DEF Kept
<1>5. step = "clear" /\ Selects(it.rule, r)
  BY <1>1, <1>2, <1>3, <1>4, CommandDeletes
<1>6. it.step # "clear"
  <2>1. it.step = "clear" =>
          it.rule = DirectRule \/ \E p \in Ruled(desired) \ Chosen(desired) : it.rule = To(p, Main)
    BY <1>1, ItemFacts
  <2>2. it.rule # DirectRule
    <3>1. DirectRule.prio = 9000 /\ it.rule.prio = r.prio
      BY <1>5 DEF Selects, DirectRule, DirectPrio
    <3> QED BY <1>1, <3>1 DEF BandMin
  <2>3. \A p \in Ruled(desired) \ Chosen(desired) : it.rule # To(p, Main)
    <3> SUFFICES ASSUME NEW p \in Ruled(desired) \ Chosen(desired), it.rule = To(p, Main)
                 PROVE  FALSE
      OBVIOUS
    <3>1. p \in desired.policies /\ p.action # "egress" /\ p.src \in Sources
      BY <1>1 DEF Ruled, Chosen, Desired, Policy
    <3>2. it.rule.from = p.src
      BY DEF To
    <3>3. p.src = s
      BY <1>1, <1>5, <3>1, <3>2, SourcesAssumption DEF Selects
    <3> QED BY <1>1, <3>1, <3>3, OwnPrio
  <2> QED BY <2>1, <2>2, <2>3
<1>7. it.step = "flush"
  BY <1>0, <1>5, <1>6, Running
<1>8. it.rule.from = s
  <2>1. PICK p \in Chosen(desired) : it.rule = To(p, it.table)
    BY <1>1, <1>7, ItemFacts
  <2>2. it.rule.from = p.src /\ p.src \in Sources
    BY <1>1, <2>1 DEF To, Chosen, Desired, Policy
  <2> QED BY <1>1, <1>5, <2>2, SourcesAssumption DEF Selects
<1> QED BY <1>5, <1>7, <1>8

\* A policy's rule comes only by its own item.
LEMMA OwnComes ==
  ASSUME TypeOK, Shape, Command, NEW s \in Sources, AlwaysRouted(s),
         NEW r \in ipRules', r.from = s, AtPolicy(r), r \notin ipRules
  PROVE  step = "add" /\ it.step = "flush" /\ it.rule.from = s /\ r = it.rule
<1>0. step # "idle"
  BY CommandLeft
<1>1. it \in ItemsOf(desired) /\ desired \in scenario.pushes /\ desired \in Desired
  BY <1>0, Running
<1>2. step = "add" /\ r = it.rule
  BY <1>0, CommandRules, AddedRules, SourcesAssumption
<1>3. it.step # "delete"
  <2>1. it.step = "delete" => it.rule \in Explicits(desired)
    BY <1>1, ItemFacts
  <2>2. \E C \in scenario.pushes : \E p \in C.policies : p.src = s /\ r.prio = BandMin + p.prio
    BY DEF AtPolicy
  <2> QED BY <1>1, <1>2, <2>1, <2>2 DEF AlwaysRouted, OnlyPolicies
<1>4. it.step # "clear"
  <2>1. it.step = "clear" =>
          it.rule = DirectRule \/ \E p \in Ruled(desired) \ Chosen(desired) : it.rule = To(p, Main)
    BY <1>1, ItemFacts
  <2>2. it.rule # DirectRule
    BY <1>2, SourcesAssumption DEF DirectRule
  <2>3. \A p \in Ruled(desired) \ Chosen(desired) : it.rule # To(p, Main)
    <3> SUFFICES ASSUME NEW p \in Ruled(desired) \ Chosen(desired), it.rule = To(p, Main)
                 PROVE  FALSE
      OBVIOUS
    <3>1. p \in desired.policies /\ p.action # "egress"
      BY <1>1 DEF Ruled, Chosen
    <3>2. p.src = s
      BY <1>2 DEF To
    <3> QED BY <1>1, <3>1, <3>2 DEF AlwaysRouted
  <2> QED BY <2>1, <2>2, <2>3
<1>5. it.step = "flush"
  BY <1>0, <1>2, <1>3, <1>4, Running DEF Adds
<1> QED BY <1>2, <1>5

\* A source is flushed from its flush until its rule is added.
LEMMA FlushedNext ==
  ASSUME TypeOK, Shape, Command, NEW s, Flushed(s)'
  PROVE  /\ UNCHANGED it /\ it.step = "flush" /\ it.rule.from = s
         /\ \/ step = "flush" /\ step' = "clear"
            \/ step = "clear" /\ step' = "add"
<1>1. step' \in {"clear", "add"} /\ it'.step = "flush" /\ it'.rule.from = s
  BY DEF Flushed
<1>2. /\ UNCHANGED it
      /\ \/ step = "delete" /\ step' = "add"
         \/ step = "flush" /\ step' = "clear"
         \/ step = "clear" /\ step' = "add"
  BY <1>1, CommandLeft
<1>3. step # "delete"
  BY <1>1, <1>2, Running
<1> QED BY <1>1, <1>2, <1>3

\* The flush leaves only connections over the rule's egress.
LEMMA FlushSettles ==
  ASSUME TypeOK, Shape, Tables, Led, Command, step = "flush", scenario.conntrack, failures' = 0,
         NEW s \in Sources, it.rule.from = s,
         AlwaysRouted(s), OneOwn(s), OwnForm(s), Settling(s), NEW e \in Settled(s)'
  PROVE  e = it.egress
<1>1. /\ it.step = "flush" /\ desired \in scenario.pushes /\ flows \in [Sources -> SUBSET (Egress \cup {"main", "blackhole"})]
      /\ racing \in [Sources -> SUBSET (Egress \cup {"main", "blackhole"})]
  BY Running DEF TypeOK
<1>2. Flush
  BY DEF Command, Forget, Register, TornRegister, ReplaceRoute, SkipRoute, FailRoute,
         DeleteRule, Clear, AddRule, FailAdd, Unmark, AddMark, Prune
<1> DEFINE current == {r \in ipRules : /\ r.from = it.rule.from /\ r.prio = it.rule.prio
                                       /\ r.table # Blackhole}
           moved   == {r \in current : LooksElsewhere(r)}
<1>3. CASE UNCHANGED flowVars /\ (current = {} \/ current # moved)
  <2>1. e \in Settled(s) /\ ~Flushed(s)
    BY <1>3 DEF Settled, Flushed, flowVars
  <2>2. PICK r \in OwnRules(s) : Holds(e, r.table)
    BY <2>1 DEF Settling
  <2>3. PICK p \in Chosen(desired) :
          /\ it.egress = p.egress /\ it.rule = To(p, it.table)
          /\ p \in desired.policies /\ p.src \in Sources /\ p.egress \in Egress
          /\ it.table \in TableIds /\ registry[p.egress] = it.table
    BY <1>1, AddedTable DEF Led
  <2>4. p.src = s /\ it.rule.prio = BandMin + p.prio
    BY <2>3 DEF To
  <2>5. r \in ipRules /\ r.from = s /\ r.prio = it.rule.prio /\ r.table \in TableIds
    BY <1>1, <2>3, <2>4, OwnPrio, OwnLow DEF OwnForm
  <2>6. r \in current
    BY <2>5, Constants
  <2>7. \A q \in current : q \in OwnRules(s)
    BY <1>1, <2>3, <2>4 DEF OwnRules, AtPolicy
  <2>8. current = {r}
    BY <2>6, <2>7 DEF OneOwn
  <2> HIDE DEF current
  <2>9. ~LooksElsewhere(r)
    BY <1>3, <2>6, <2>8
  <2>10. r.table = it.table
    BY <2>9 DEF LooksElsewhere
  <2>11. Has(e, it.table) /\ Has(it.egress, it.table)
    BY <2>2, <2>3, <2>10, HoldsHas DEF Has
  <2>12. e \in Egress
    BY <2>1 DEF Settled
  <2> QED BY <2>3, <2>11, <2>12 DEF Tables, OneTable
<1>4. CASE flows' = [flows EXCEPT ![it.rule.from] = {}]
  <2>1. flows'[s] = {}
    BY <1>1, <1>4
  <2> QED BY <2>1 DEF Settled
<1>5. ~Fails
  <2>1. failures \in Nat
    BY DEF TypeOK
  <2> QED BY <2>1 DEF Fails
<1> QED BY <1>2, <1>3, <1>4, <1>5 DEF Flush

\* Commands keep connections with the rules.
LEMMA FollowingCommand ==
  ASSUME TypeOK, Shape, Kept, Cleared, NoneLeft, Tables, Led, Command,
         scenario.conntrack, failures' = 0, torn' = 0,
         NEW s \in Sources, AlwaysRouted(s), OneOwn(s), OwnForm(s), Settling(s)
  PROVE  OneOwn(s)' /\ OwnForm(s)' /\ Settling(s)'
<1>1. /\ UNCHANGED <<scenario, desired>> /\ step # "idle"
      /\ \A r : AtPolicy(r)' <=> AtPolicy(r)
  <2>1. UNCHANGED <<scenario, desired>> /\ step # "idle"
    BY CommandLeft
  <2> QED BY <2>1 DEF AtPolicy
<1> DEFINE Own(r) == r.from = s /\ AtPolicy(r)
<1>2. /\ OwnRules(s) = {r \in ipRules : Own(r)}
      /\ OwnRules(s)' = {r \in ipRules' : Own(r)}
  BY <1>1 DEF OwnRules
<1>3. /\ \A r \in OwnRules(s) : r \notin ipRules' => step = "clear" /\ it.step = "flush" /\ it.rule.from = s
      /\ \A r \in ipRules' : Own(r) /\ r \notin ipRules =>
           step = "add" /\ it.step = "flush" /\ it.rule.from = s /\ r = it.rule
  BY OwnStays, OwnComes
<1>4. \A t \in TableIds, e \in Egress : Holds(e, t) => Holds(e, t)'
  BY HoldsNext DEF Tables
<1>5. /\ flows \in [Sources -> SUBSET (Egress \cup {"main", "blackhole"})]
      /\ racing \in [Sources -> SUBSET (Egress \cup {"main", "blackhole"})]
  BY DEF TypeOK
<1>6. step # "flush" \/ it.rule.from # s => \A e \in Settled(s)' : e \in Settled(s)
  BY <1>5, CommandHost DEF Settled
<1>7. \A r \in OwnRules(s)' : r \in OwnRules(s) \/ r = it.rule
  BY <1>2, <1>3
<1>8. CASE step = "add" /\ it.step = "flush" /\ it.rule.from = s
  <2>1. PICK p \in Chosen(desired) :
          /\ it.egress = p.egress /\ it.rule = To(p, it.table)
          /\ p \in desired.policies /\ p.src \in Sources /\ p.egress \in Egress
          /\ it.table \in TableIds /\ registry[p.egress] = it.table
    BY <1>1, <1>8, AddedTable DEF Led
  <2>2. /\ it.rule.from = s /\ it.rule.mark = 0 /\ it.rule.prio = BandMin + p.prio
        /\ it.rule.table = it.table /\ p.src = s
    BY <1>8, <2>1 DEF To
  <2>3. desired \in scenario.pushes
    BY <1>1, Running
  <2>4. OwnRules(s) = {}
    <3> SUFFICES ASSUME NEW r \in OwnRules(s) PROVE FALSE
      OBVIOUS
    <3>1. r \in ipRules /\ r.from = s /\ r.prio = it.rule.prio
      BY <2>1, <2>2, <2>3, OwnPrio, OwnLow
    <3>2. ~Selects(it.rule, r)
      BY <1>8, <3>1, CommandHost DEF Cleared, NoneLeft
    <3> QED BY <2>2, <3>1, <3>2 DEF Selects
  <2>5. it.rule \in ipRules'
    BY <1>8, CommandDone
  <2>6. Own(it.rule)
    BY <2>1, <2>2, <2>3 DEF AtPolicy
  <2>7. OwnRules(s)' = {it.rule}
    BY <1>2, <1>7, <2>4, <2>5, <2>6
  <2>8. ~Flushed(s)'
    BY <1>8, FlushedNext
  <2> PICK t \in TableIds : t = it.table
    BY <2>1
  <2>9. ASSUME NEW e \in Settled(s)' PROVE Holds(e, t)'
    <3>1. e \in Settled(s) /\ Flushed(s)
      BY <1>6, <1>8, <2>9 DEF Flushed
    <3>2. e = it.egress
      BY <3>1 DEF Settling
    <3>3. Holds(e, t) /\ e \in Egress
      BY <2>1, <3>2 DEF Holds
    <3> QED BY <1>4, <3>3
  <2>10. OneOwn(s)' /\ OwnForm(s)'
    BY <2>1, <2>2, <2>7 DEF OneOwn, OwnForm
  <2>11. \A e \in Settled(s)' : \E r \in OwnRules(s)' : Holds(e, r.table)'
    <3>1. \E r \in OwnRules(s)' : r.table = t
      BY <2>2, <2>7
    <3> QED BY <2>9, <3>1
  <2> QED BY <2>8, <2>10, <2>11 DEF Settling, Holds
<1>9. CASE ~(step = "add" /\ it.step = "flush" /\ it.rule.from = s)
  <2>1. OwnRules(s)' \subseteq OwnRules(s)
    BY <1>2, <1>3, <1>9
  <2>2. OneOwn(s)' /\ OwnForm(s)'
    BY <2>1 DEF OneOwn, OwnForm
  <2>3. CASE step = "flush" /\ it.rule.from = s
    <3>1. UNCHANGED it /\ step' = "clear" /\ it.step = "flush"
      BY <1>1, <2>3, CommandLeft, Running
    <3>2. Flushed(s)'
      BY <2>3, <3>1 DEF Flushed
    <3> QED BY <2>2, <2>3, <3>1, <3>2, FlushSettles DEF Settling
  <2>4. CASE step = "clear" /\ it.step = "flush" /\ it.rule.from = s
    <3>1. UNCHANGED it /\ step' = "add"
      BY <2>4, CommandLeft
    <3>2. Flushed(s) /\ Flushed(s)'
      BY <2>4, <3>1 DEF Flushed
    <3>3. \A e \in Settled(s)' : e = it.egress
      BY <1>6, <2>4, <3>2 DEF Settling
    <3> QED BY <2>2, <3>1, <3>2, <3>3 DEF Settling
  <2>5. CASE /\ ~(step = "flush" /\ it.rule.from = s)
             /\ ~(step = "clear" /\ it.step = "flush" /\ it.rule.from = s)
    <3>1. ~Flushed(s) /\ ~Flushed(s)'
      <4>1. ~Flushed(s)'
        BY <2>5, FlushedNext
      <4> QED BY <1>9, <2>5, <4>1 DEF Flushed
    <3>2. OwnRules(s)' = OwnRules(s)
      BY <1>2, <1>3, <2>1, <2>5
    <3>3. ASSUME NEW e \in Settled(s)' PROVE \E r \in OwnRules(s)' : Holds(e, r.table)'
      <4>1. e \in Settled(s) /\ e \in Egress
        BY <1>6, <2>5, <3>3 DEF Settled
      <4>2. PICK r \in OwnRules(s) : Holds(e, r.table)
        BY <3>1, <4>1 DEF Settling
      <4>3. r.table \in TableIds
        BY DEF OwnForm
      <4> QED BY <1>4, <3>2, <4>1, <4>2, <4>3
    <3> QED BY <2>2, <3>1, <3>3 DEF Settling
  <2> QED BY <2>3, <2>4, <2>5
<1> QED BY <1>8, <1>9

\* An egress whose table a client's route goes into stays one.
LEMMA ReroutingStays ==
  ASSUME TypeOK, Shape, Tables, torn' = 0, events' = 0, ~Rerouting',
         (\E D \in scenario.pushes : Start(D)) \/ Command \/ Host
  PROVE  ~Rerouting
<1> SUFFICES ASSUME NEW t \in TableIds, Rerouted(t), NEW e \in Egress, Has(e, t) PROVE Has(e, t)'
  <2>1. UNCHANGED scenario
    BY CommandLeft, HostLeft DEF Start
  <2>3. \A u \in TableIds, d \in Egress : Rerouted(u) /\ Has(d, u) => Has(d, u)'
    OBVIOUS
  <2>4. \A u : Rerouted(u)' <=> Rerouted(u)
    BY <2>1 DEF Rerouted
  <2> QED BY <2>3, <2>4 DEF Rerouting
<1>1. CASE \E D \in scenario.pushes : Start(D)
  <2>1. registry[e] = t /\ UNCHANGED registry
    BY <1>1, LeftItems DEF Start, Has, Promised
  <2> QED BY <2>1 DEF Has
<1>2. CASE Command
  BY <1>2, RegisteredHas
<1>3. CASE Host
  BY <1>3, HostLeft DEF Has, Promised
<1> QED BY <1>1, <1>2, <1>3

\* Starting a plan changes no rule and no connection.
LEMMA FollowingStart ==
  ASSUME TypeOK, Shape, NEW D \in scenario.pushes, Start(D),
         NEW s \in Sources, OneOwn(s), OwnForm(s), Settling(s)
  PROVE  OneOwn(s)' /\ OwnForm(s)' /\ Settling(s)'
<1>1. UNCHANGED <<ipRules, registry, scenario, flows, racing>> /\ step = "idle"
  BY DEF Start, flowVars, ruleVars
<1>2. OwnRules(s)' = OwnRules(s) /\ Settled(s)' = Settled(s)
  BY <1>1 DEF OwnRules, AtPolicy, Settled
<1>3. ~Flushed(s) /\ ~Flushed(s)'
  <2>1. step' # "idle" => step' = it'.step
    BY StartPlan
  <2> QED BY <1>1, <2>1 DEF Flushed
<1>4. \A e, t : Holds(e, t) => Holds(e, t)'
  BY <1>1 DEF Holds
<1> QED BY <1>2, <1>3, <1>4 DEF OneOwn, OwnForm, Settling

\* A connection opened while no plan runs follows the rules there are.
LEMMA FollowingHost ==
  ASSUME TypeOK, Shape, Tables, Led, WideForeign, Host, torn' = 0, events' = 0, ~Rerouting,
         NEW s \in Sources, AlwaysRouted(s), OneOwn(s), OwnForm(s), Settling(s)
  PROVE  OneOwn(s)' /\ OwnForm(s)' /\ Settling(s)'
<1>1. UNCHANGED <<ipRules, registry, scenario, step, it>>
  BY HostLeft
<1>2. OwnRules(s)' = OwnRules(s) /\ (Flushed(s)' <=> Flushed(s)) /\ \A e, t : Holds(e, t)' <=> Holds(e, t)
  BY <1>1 DEF OwnRules, AtPolicy, Flushed, Holds
<1>3. ASSUME NEW e \in Settled(s)', e \notin Settled(s)
      PROVE  step = "idle" /\ e \in Exits(s) /\ e \in Egress
  <2>1. events \in Nat /\ flows \in [Sources -> SUBSET (Egress \cup {"main", "blackhole"})]
        /\ racing \in [Sources -> SUBSET (Egress \cup {"main", "blackhole"})]
    BY DEF TypeOK
  <2>2. ~(UNCHANGED flowVars)
    BY <1>3 DEF flowVars, Settled
  <2>3. PICK c \in Sources : OpenFlow(c)
    BY <2>2 DEF Host, Crash, DeviceGone, DeviceBack
  <2>4. PICK x \in Exits(c) \ flows[c] :
          /\ flows'  = [flows EXCEPT ![c] = @ \cup {x}]
          /\ racing' = IF step = "idle" THEN racing ELSE [racing EXCEPT ![c] = @ \cup {x}]
    BY <2>3 DEF OpenFlow
  <2>5. e \in Egress /\ e \in flows'[s] /\ e \notin racing'[s] /\ ~(e \in flows[s] /\ e \notin racing[s])
    BY <1>3 DEF Settled
  <2>6. racing[s] \subseteq racing'[s]
    BY <2>1, <2>4
  <2>7. c = s /\ e = x
    BY <2>1, <2>4, <2>5, <2>6
  <2>8. step = "idle"
    BY <2>1, <2>4, <2>5, <2>7
  <2> QED BY <2>4, <2>5, <2>7, <2>8
<1>4. ASSUME NEW e \in Settled(s)', e \notin Settled(s)
      PROVE  ~Flushed(s) /\ \E r \in OwnRules(s) : Holds(e, r.table)
  <2>1. step = "idle" /\ e \in Exits(s) /\ e \in Egress
    BY <1>3, <1>4
  <2>2. PICK r \in ipRules : r.from \in {s, All} /\ r.mark = 0 /\ Exit(r) = e
    BY <2>1, Constants DEF Exits
  <2>3. r.table \in TableIds /\ route[r.table] = e
    BY <2>1, <2>2, Constants DEF Exit
  <2>9. r.from = s
    BY <2>2, <2>3, WideElsewhere DEF AlwaysRouted
  <2>4. AtPolicy(r) /\ \E d \in chosen[s] : Holds(d, r.table)
    BY <2>2, <2>3, <2>9 DEF AlwaysRouted, Led, LedRules
  <2>5. PICK d \in chosen[s] : Has(d, r.table)
    BY <2>4, HoldsHas
  <2>6. d \in Egress
    BY DEF TypeOK
  <2>7. Holds(e, r.table)
    BY <2>1, <2>3, <2>5, <2>6, Constants DEF Tables, Homes, Rerouting
  <2> QED BY <2>1, <2>2, <2>4, <2>7, <2>9 DEF OwnRules, Flushed
<1>5. Settling(s)'
  BY <1>1, <1>2, <1>4 DEF Settling
<1> QED BY <1>2, <1>5 DEF OneOwn, OwnForm

\* Hence no step parts them.
LEMMA FollowingNext ==
  ASSUME TypeOK, Shape, Kept, Cleared, NoneLeft, WideForeign, Tables, Led, Following, torn' = 0,
         (\E D \in scenario.pushes : Start(D)) \/ Command \/ Host
  PROVE  Following'
<1> SUFFICES ASSUME scenario'.conntrack, failures' = 0, events' = 0, ~Rerouting',
                    NEW s \in Sources, AlwaysRouted(s)'
             PROVE  OneOwn(s)' /\ OwnForm(s)' /\ Settling(s)'
  BY DEF Following
<1>1. failures = 0 /\ events = 0
  <2>1. failures = 0
    BY CommandHost, HostLeft DEF Start
  <2>2. events \in Nat
    BY DEF TypeOK
  <2>3. Host => events = 0
    BY <2>2 DEF Host, Crash, OpenFlow, DeviceGone, DeviceBack, countVars
  <2> QED BY <2>1, <2>3, CommandHost DEF Start
<1>2. ~Rerouting
  BY ReroutingStays
<1>3. scenario.conntrack /\ AlwaysRouted(s)
  <2>1. UNCHANGED scenario
    BY CommandLeft, HostLeft DEF Start
  <2> QED BY <2>1 DEF AlwaysRouted, OnlyPolicies
<1>4. OneOwn(s) /\ OwnForm(s) /\ Settling(s)
  BY <1>1, <1>2, <1>3 DEF Following
<1> QED BY <1>2, <1>3, <1>4, FollowingStart, FollowingCommand, FollowingHost

\* Hence connections are over egresses chosen, once a plan has converged.
LEMMA FollowingSafe ==
  ASSUME TypeOK, Shape, Kept, Converging, Tables, Led, Following,
         scenario.conntrack, failures = 0, events = 0, \A e \in Egress : ~Rerouted(registry[e]),
         NEW s \in Sources, step = "idle", clean, AlwaysRouted(s)
  PROVE  flows[s] \cap Egress \subseteq ChosenBy(desired, s) \cup racing[s]
<1>1. Left = {} /\ desired \in scenario.pushes /\ \A e, t : Has(e, t) => registry[e] = t
  BY LeftItems DEF Kept, Has, Promised
<1>2. ~Rerouting
  BY <1>1 DEF Rerouting
<1> SUFFICES ASSUME NEW e \in Settled(s) PROVE e \in ChosenBy(desired, s)
  BY DEF Settled
<1>3. PICK r \in OwnRules(s) : Holds(e, r.table)
  BY <1>2 DEF Following, Settling, Flushed
<1>4. r \in ipRules /\ r.from = s /\ r.table \in TableIds
  BY <1>2, OwnLow DEF Following, OwnForm
<1>5. PICK p \in Ruled(desired) : p \in desired.policies /\ p.src = s
  BY <1>1, OwnPolicy
<1>6. r.prio = BandMin + p.prio
  BY <1>1, <1>5, OwnPrio
<1>7. r \in wanted
  BY <1>1, <1>4, <1>5, <1>6 DEF Converging, Uncleared
<1>8. PICK d \in ChosenBy(desired, s) : Has(d, r.table)
  BY <1>4, <1>7 DEF Led, LedWanted, AlwaysRouted
<1>9. d \in Egress /\ e \in Egress
  BY DesiredType DEF Settled, ChosenBy, Desired, Policy
<1>10. Has(e, r.table)
  BY <1>3, HoldsHas
<1> QED BY <1>4, <1>8, <1>9, <1>10 DEF Tables, OneTable
-----------------------------------------------------------------------------
(* The theorems *)

\* At first no plan runs.
LEMMA InitType == ASSUME Init PROVE TypeOK /\ Shape /\ Left = {}
<1>1. Handmade \subseteq Rule
  BY HandmadeAssumption
<1>2. todo = <<>> /\ step = "idle" /\ Left = {}
  BY DEF Init, Left, Elems
<1>3. Shape
  BY <1>2 DEF Shape
<1>4. TypeOK
  <2>1. /\ registry \in [Egress -> TableIds \cup {NoTable}] /\ route \in [TableIds -> Egress \cup {NoDevice}]
        /\ {flows, racing} \subseteq [Sources -> SUBSET (Egress \cup {"main", "blackhole"})]
        /\ (\A s \in Sources : racing[s] \subseteq flows[s]) /\ chosen \in [Sources -> SUBSET Egress]
    BY DEF Init
  <2>2. /\ up \subseteq Egress /\ keep \subseteq Sources \X Nat /\ wanted \subseteq Rule
        /\ left \subseteq ipRules /\ ipRules \subseteq Rule /\ scenario \in Scenarios
        /\ desired \in scenario.pushes \cup {[policies |-> {}, rules |-> {}, routes |-> {}]}
    BY <1>1 DEF Init
  <2>3. clean \in BOOLEAN
    BY DEF Init
  <2>4. applies \in Nat /\ failures \in Nat /\ torn \in Nat /\ events \in Nat
    BY DEF Init
  <2>5. (step = "idle") <=> (todo = <<>>)
    BY <1>2
  <2>6. \A i \in DOMAIN todo : todo[i].rule \in Rule /\ todo[i].mark \in Rule
    BY <1>2
  <2> QED BY <2>1, <2>2, <2>3, <2>4, <2>5, <2>6 DEF TypeOK
<1> QED BY <1>2, <1>3, <1>4

\* At first no egress has a table.
LEMMA InitTables == ASSUME Init PROVE Tables /\ Led /\ Following
<1>1. TypeOK /\ Left = {} /\ step = "idle" /\ ipRules = Handmade /\ scenario \in Scenarios
      /\ \A s \in Sources : flows[s] = {}
  BY InitType DEF Init
<1>2. \A e \in Egress, t \in TableIds : ~Has(e, t)
  BY <1>1, Constants DEF Has, Promised, Init
<1>3. Tables
  BY <1>1, <1>2 DEF Tables, OneTable, Homes, Registered, Init
<1>4. \A s \in Sources : OnlyPolicies(s) => LedRules(s)
  BY <1>1 DEF OnlyPolicies, LedRules
<1>5. Led
  <2>1. \A s \in Sources : ChosenBy(desired, s) = {}
    BY DEF Init, ChosenBy
  <2> QED BY <1>1, <1>4, <2>1 DEF Led, LedItems, Init
<1>6. ASSUME NEW s \in Sources, AlwaysRouted(s) PROVE OwnRules(s) = {} /\ Settled(s) = {}
  <2>1. ASSUME NEW r \in OwnRules(s) PROVE FALSE
    <3>1. r \in Handmade /\ r.from = s
      BY <1>1 DEF OwnRules
    <3>2. PICK D \in scenario.pushes : \E p \in D.policies : p.src = s /\ r.prio = BandMin + p.prio
      BY <3>1 DEF OwnRules, AtPolicy
    <3>3. PICK p \in D.policies : p.src = s /\ r.prio = BandMin + p.prio
      BY <3>2
    <3>4. p.prio \in Nat /\ p.prio <= BandMax - BandMin
      BY <1>1, <1>6, <3>3, DesiredType DEF AlwaysRouted, OnlyPolicies, Desired, Policy
    <3>5. r.prio \in BandMin..BandMax
      BY <3>3, <3>4 DEF BandMin, BandMax
    <3> QED BY <3>1, <3>5, HandmadeAssumption
  <2> QED BY <1>1, <2>1 DEF Settled
<1>7. Following
  BY <1>6 DEF Following, OneOwn, OwnForm, Settling
<1> QED BY <1>3, <1>5, <1>7

\* The invariant holds at first.
LEMMA InitIInv == ASSUME Init PROVE IInv
<1>1. TypeOK /\ Shape /\ Left = {} /\ ~clean /\ step = "idle" /\ ipRules = Handmade /\ left = {}
      /\ wanted = {} /\ keep = {} /\ Ruled(desired) = {}
  BY InitType DEF Init, Ruled
<1>2. Kept /\ Cleared /\ Converging
  BY <1>1 DEF Kept, Cleared, Converging
<1>3. Untouched /\ NoSiblings /\ NoneLeft /\ WideForeign
  BY <1>1 DEF Untouched, NoSiblings, Foreign, NoneLeft, WideForeign
<1> QED BY <1>1, <1>2, <1>3, InitTables DEF IInv

\* The three kinds of steps.
LEMMA NextCases ==
  ASSUME [Next]_vars
  PROVE  UNCHANGED vars \/ (\E D \in scenario.pushes : Start(D)) \/ Command \/ Host
BY DEF Next, Host

\* What holds as long as no registry line is torn.
LEMMA TablesInv ==
  ASSUME TypeOK, Shape, Kept, Cleared, NoneLeft, WideForeign, Converging,
         Tables, Led, Following, torn' = 0,
         (\E D \in scenario.pushes : Start(D)) \/ Command \/ Host
  PROVE  Tables' /\ Led' /\ Following'
<1>1. Tables'
  BY TablesStart, TablesNext
<1>2. Led'
  BY LedStart, LedCommand, LedHost
<1>3. Following'
  BY FollowingNext
<1> QED BY <1>1, <1>2, <1>3

\* Every step keeps the invariant.
LEMMA NextIInv == ASSUME IInv, [Next]_vars PROVE IInv'
<1>1. TypeOK /\ Shape /\ Kept /\ Cleared /\ NoneLeft /\ WideForeign
      /\ Untouched /\ NoSiblings /\ Converging /\ (torn = 0 => Tables /\ Led /\ Following)
  BY DEF IInv
<1>2. CASE (\E D \in scenario.pushes : Start(D)) \/ Command \/ Host
  <2>1. TypeOK' /\ Shape'
    BY <1>1, <1>2, TypeStart, StartPlan, TypeCommand, CommandLeft, TypeHost, ShapeHost
  <2>2. Kept' /\ Cleared' /\ Untouched' /\ NoSiblings' /\ Converging'
    BY <1>1, <1>2, KeptStart, KeptNext, ClearedNext, UntouchedNext, SiblingsNext, ConvergingNext
  <2>5. NoneLeft' /\ WideForeign'
    BY <1>1, <1>2, NoneLeftNext, WideForeignNext
  <2>3. torn' = 0 => torn = 0
    BY <1>1, <1>2, CommandHost, HostLeft DEF Start
  <2>4. torn' = 0 => Tables' /\ Led' /\ Following'
    BY <1>1, <1>2, <2>3, TablesInv
  <2> QED BY <2>1, <2>2, <2>4, <2>5 DEF IInv
<1>3. CASE UNCHANGED vars
  <2>1. UNCHANGED <<registry, ipRules, left, route, up, flows, racing, todo, step, keep, wanted, desired,
                    clean, chosen, scenario, applies, failures, torn, events, it, Left>>
    BY <1>3 DEF vars, ruleVars, flowVars, planVars, countVars, it, Left, Elems
  <2>2. TypeOK' /\ Shape' /\ Kept'
    <3>1. TypeOK'
      BY <1>1, <2>1 DEF TypeOK
    <3>2. Shape'
      BY <1>1, <2>1 DEF Shape, Adds, ItemsOf, MarksOf, Chosen, Ruled, Selected
    <3>3. Kept'
      BY <1>1, <2>1, KeptStep
    <3> QED BY <3>1, <3>2, <3>3
  <2>3. Cleared' /\ NoneLeft' /\ WideForeign' /\ Untouched' /\ NoSiblings' /\ Converging'
    <3>1. \A r : Foreign(r)' <=> Foreign(r)
      BY <2>1 DEF Foreign
    <3>2. \A h : Addressed(h)' <=> Addressed(h)
      BY <2>1 DEF Addressed, PolicyRule, Selects
    <3>3. Compatible' = Compatible /\ Ruled(desired)' = Ruled(desired)
      BY <2>1 DEF Compatible, Ruled, HasRule
    <3>4. \A w : (Unadded(w)' <=> Unadded(w)) /\ (Uncleared(w)' <=> Uncleared(w))
      BY <2>1 DEF Unadded, Uncleared, Adds
    <3>5. Unpruned' <=> Unpruned
      BY <2>1 DEF Unpruned
    <3>6. Converging'
      BY <1>1, <2>1, <3>3, <3>4, <3>5 DEF Converging, Managed
    <3>7. Cleared'
      BY <1>1, <2>1 DEF Cleared, Selects
    <3>8. NoneLeft' /\ WideForeign'
      BY <1>1, <2>1, <3>1 DEF NoneLeft, WideForeign
    <3> QED BY <1>1, <2>1, <3>1, <3>2, <3>6, <3>7, <3>8 DEF Untouched, NoSiblings
  <2>4. torn' = 0 => Tables' /\ Led' /\ Following'
    <3> SUFFICES ASSUME torn = 0 PROVE Tables' /\ Led' /\ Following'
      BY <2>1
    <3>0. Tables /\ Led /\ Following
      BY <1>1
    <3>1. \A e, t : (Has(e, t)' <=> Has(e, t)) /\ (Holds(e, t)' <=> Holds(e, t))
      BY <2>1 DEF Has, Holds, Promised
    <3>2. /\ \A t : Rerouted(t)' <=> Rerouted(t)
          /\ \A s : /\ OnlyPolicies(s)' <=> OnlyPolicies(s)
                    /\ ChosenBy(desired, s)' = ChosenBy(desired, s)
                    /\ AlwaysRouted(s)' <=> AlwaysRouted(s)
          /\ \A r : AtPolicy(r)' <=> AtPolicy(r)
      BY <2>1 DEF Rerouted, OnlyPolicies, ChosenBy, AlwaysRouted, AtPolicy
    <3>3. Tables'
      BY <2>1, <3>0, <3>1, <3>2 DEF Tables, OneTable, Homes, Registered
    <3>4. \A s \in Sources : (LedRules(s)' <=> LedRules(s)) /\ (LedWanted(s)' <=> LedWanted(s))
      BY <2>1, <3>1, <3>2 DEF LedRules, LedWanted
    <3>5. Led'
      BY <2>1, <3>0, <3>1, <3>2, <3>4 DEF Led, LedItems
    <3>6. \A s \in Sources : /\ OwnRules(s)' = OwnRules(s) /\ Settled(s)' = Settled(s)
                             /\ Flushed(s)' <=> Flushed(s)
      BY <2>1, <3>2 DEF OwnRules, Settled, Flushed
    <3>7. \A s \in Sources : OneOwn(s) /\ OwnForm(s) /\ Settling(s) => OneOwn(s)' /\ OwnForm(s)' /\ Settling(s)'
      BY <2>1, <3>1, <3>6 DEF OneOwn, OwnForm, Settling
    <3>8. Rerouting' <=> Rerouting
      BY <3>1, <3>2 DEF Rerouting
    <3> QED BY <2>1, <3>0, <3>2, <3>3, <3>5, <3>7, <3>8 DEF Following
  <2> QED BY <2>2, <2>3, <2>4 DEF IInv
<1> QED BY <1>2, <1>3, NextCases

\* The inductive invariant holds, whatever is pushed, fails or dies.
THEOREM Invariant == Spec => []IInv
<1>1. Init => IInv
  BY InitIInv
<1>2. IInv /\ [Next]_vars => IInv'
  BY NextIInv
<1> QED BY <1>1, <1>2, PTL DEF Spec

\* Every variable keeps its type.
THEOREM TypeCorrect == Spec => []TypeOK
<1>1. IInv => TypeOK
  BY DEF IInv
<1> QED BY <1>1, Invariant, PTL

\* Changing an egress never leaves a source's old rule beside the new one, whatever failed or
\* died before, but for what a failing ip rule del left and no later one took.
THEOREM NoTwoRules == Spec => []NoSiblings
<1>1. IInv => NoSiblings
  BY DEF IInv
<1> QED BY <1>1, Invariant, PTL

\* A plan all of whose commands succeeded leaves what it wanted and nothing else of policies, and
\* at any time what an operator wrote outside the band is there.
THEOREM PlansConverge == Spec => []Converged
<1>1. IInv => Converged
  <2> SUFFICES ASSUME IInv PROVE Converged
    OBVIOUS
  <2>1. TypeOK /\ Shape /\ Kept /\ Converging /\ Untouched
    BY DEF IInv
  <2>2. ASSUME step = "idle", clean, Compatible PROVE wanted \subseteq ipRules
    <3>1. Left = {}
      BY <2>1, <2>2, LeftItems
    <3> QED BY <2>1, <2>2, <3>1 DEF Converging, Unadded
  <2>3. ASSUME step = "idle", clean, keep # {}, NEW r \in ipRules, Managed(r)
        PROVE  r \in wanted \/ \E x \in desired.rules : x.from = r.from /\ x.prio = r.prio
    <3>1. Left = {}
      BY <2>1, <2>3, LeftItems
    <3>2. <<r.from, r.prio>> \in keep
      BY <2>1, <2>3, <3>1 DEF Converging, Unpruned
    <3>3. CASE \E p \in Ruled(desired) : <<r.from, r.prio>> = <<p.src, BandMin + p.prio>>
      BY <2>1, <2>3, <3>1, <3>3 DEF Converging, Uncleared
    <3>4. CASE \E x \in desired.rules : r.from = x.from /\ (r.prio = x.prio \/ r.prio >= 11000)
      <4>1. r.prio \in Nat /\ r.prio < 11000
        BY <2>3 DEF Managed, BandMin, BandMax
      <4> QED BY <3>4, <4>1
    <3>5. Source(<<r.from, r.prio>>)
      BY <2>1, <3>2 DEF Kept
    <3> QED BY <3>3, <3>4, <3>5 DEF Source
  <2> QED BY <2>1, <2>2, <2>3 DEF Converged, Untouched
<1> QED BY <1>1, Invariant, PTL

\* The table of an egress leads to that egress or nowhere, and to it alone, unless a
\* registry line is torn or a client's route goes there.
THEOREM OwnTables == Spec => []TablesLeadHome
<1>1. IInv => TablesLeadHome
  BY TablesSafe DEF IInv, TablesLeadHome
<1> QED BY <1>1, Invariant, PTL

\* Under the same conditions the unmarked packets of a source that only policies lead through
\* tables leave through main, a guard or an egress chosen for it, even while a plan runs.
THEOREM ChosenTunnels == Spec => []NeverElsewhere
<1>1. IInv => NeverElsewhere
  BY LedSafe DEF IInv, NeverElsewhere
<1> QED BY <1>1, Invariant, PTL

\* Where the conntrack tool is installed: after a plan all of whose commands succeeded, a source's
\* connections are over egresses chosen for it, but for those that opened while a plan ran, as
\* long as nothing failed before.
THEOREM FlowsMove == Spec => []FlowsFollowEgress
<1>1. IInv => FlowsFollowEgress
  BY FollowingSafe DEF IInv, FlowsFollowEgress
<1> QED BY <1>1, Invariant, PTL

\* A plan that wants no source rule -- the first one after a restart -- removes none but those
\* that a rule it wants for all sources takes the place of.
THEOREM NoMassPrune == Spec => EmptyPlanPrunesNothing
<1> DEFINE Step == keep' = {} =>
             \A r \in ipRules \ ipRules' : r.from # All => \E q \in wanted' : Selects(q, r)
<1>1. IInv /\ [Next]_vars => Step
  <2> SUFFICES ASSUME IInv, [Next]_vars, keep' = {}, NEW r \in ipRules, r \notin ipRules', r.from # All
               PROVE  \E q \in wanted' : Selects(q, r)
    OBVIOUS
  <2>1. TypeOK /\ Shape /\ Kept
    BY DEF IInv
  <2>2. Command
    <3>1. (\E D \in scenario.pushes : Start(D)) \/ Host \/ UNCHANGED vars => ipRules' = ipRules
      BY <2>1, HostLeft DEF Start, vars, ruleVars
    <3> QED BY <3>1, NextCases
  <2>3. UNCHANGED <<keep, wanted>> /\ step # "idle"
    BY <2>1, <2>2, CommandLeft
  <2>4. step # "unmark"
    <3> SUFFICES ASSUME step = "unmark" PROVE FALSE
      OBVIOUS
    <3>1. it.step = "flush" /\ it \in ItemsOf(desired) /\ desired \in Desired
      BY <2>1, <2>3, Running
    <3>2. PICK p \in Chosen(desired) : it.rule = To(p, it.table)
      BY <3>1, ItemFacts
    <3>3. p \in Ruled(desired)
      BY DEF Chosen, Ruled, HasRule
    <3> QED BY <2>1, <2>3, <3>3 DEF Kept
  <2>5. step # "prune"
    <3>1. step = "prune" => it \in Left /\ it.step = "prune"
      BY <2>1, <2>3, Running
    <3> QED BY <2>1, <2>3, <3>1 DEF Kept
  <2>6. step \in {"delete", "clear"} /\ Selects(it.rule, r)
    BY <2>1, <2>2, <2>4, <2>5, CommandDeletes
  <2>7. it.rule \in wanted
    <3>1. Adds(it)
      BY <2>1, <2>3, <2>6, Running DEF Adds
    <3> QED BY <2>1, <2>3, <3>1, AddsWanted
  <2> QED BY <2>3, <2>6, <2>7
<1> QED BY <1>1, Invariant, PTL DEF Spec, EmptyPlanPrunesNothing
=============================================================================

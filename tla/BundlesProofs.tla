---------------------------- MODULE BundlesProofs ----------------------------
(***************************************************************************)
(* Theorems about Bundles: whatever forms there are and however often they *)
(* are submitted, what is stored of each is a beginning of its bundle, a   *)
(* success means all of it, trying again does no harm, and what replies    *)
(* and blocks need stays in force.                                         *)
(*                                                                         *)
(* The argument.  Ordered says which call of each attempt is next.  Whole  *)
(* adds what was made of it: every call made is Kept, everything stored    *)
(* was asked for (ObjectsAsked, SettingsAsked), objects have the Shape     *)
(* bundles give them, and the table is the Script of some earlier objects  *)
(* (Compiled).  The rest is about Firewall's operators on objects of that  *)
(* shape.                                                                  *)
(***************************************************************************)
EXTENDS Bundles, NaturalsInduction, WellFoundedInduction, TLAPS

-----------------------------------------------------------------------------
(* The order of calls                                                        *)

\* The variables the argument is about have their types.
Types ==
  /\ log \in [1..MaxAttempts -> Seq(Nat)]
  /\ tried \in Seq(Forms) /\ attempt \in 0..MaxAttempts
  /\ next \in Nat
  /\ late \subseteq (1..attempt) \X Nat

\* A late call is the next one of its attempt: nothing was sent after it.
LateIsNext == \A l \in late : l[2] = Len(log[l[1]]) + 1

\* So is the call under way, until the daemon has made it; and none of its attempt is late.
RunningIsNext ==
  state = "running" =>
    /\ attempt >= 1
    /\ \A l \in late : l[1] # attempt
    /\ next = IF call = "made" THEN Len(log[attempt]) ELSE Len(log[attempt]) + 1

\* A bundle begins with its first call, and nothing of it is stored.
Rested == state # "running" => next = 1 /\ call = "sent"
Ahead  == \A a \in 1..MaxAttempts : a > attempt => log[a] = <<>>

\* The inductive invariant.
Ordered == Types /\ StoredInOrder /\ LateIsNext /\ RunningIsNext /\ Rested /\ Ahead

-----------------------------------------------------------------------------
\* Appending its next index to a sequence of indices leaves one.
LEMMA AppendNext ==
  ASSUME NEW s \in Seq(Nat), \A i \in DOMAIN s : s[i] = i
  PROVE  /\ Append(s, Len(s) + 1) \in Seq(Nat)
         /\ Len(Append(s, Len(s) + 1)) = Len(s) + 1
         /\ \A i \in DOMAIN Append(s, Len(s) + 1) : Append(s, Len(s) + 1)[i] = i
OBVIOUS

\* The daemon makes the call an attempt is waiting for: its log grows by it, the others stay.
LEMMA MakeNext ==
  ASSUME Types, StoredInOrder, NEW a \in 1..MaxAttempts, Make(a, Len(log[a]) + 1)
  PROVE  /\ log' \in [1..MaxAttempts -> Seq(Nat)]
         /\ Len(log'[a]) = Len(log[a]) + 1
         /\ \A b \in 1..MaxAttempts : b # a => log'[b] = log[b]
         /\ StoredInOrder'
<1>1. log' = [log EXCEPT ![a] = Append(@, Len(log[a]) + 1)]
  BY DEF Make
<1>2. log[a] \in Seq(Nat) /\ \A i \in DOMAIN log[a] : log[a][i] = i
  BY DEF Types, StoredInOrder
<1>3. /\ Append(log[a], Len(log[a]) + 1) \in Seq(Nat)
      /\ Len(Append(log[a], Len(log[a]) + 1)) = Len(log[a]) + 1
      /\ \A i \in DOMAIN Append(log[a], Len(log[a]) + 1) : Append(log[a], Len(log[a]) + 1)[i] = i
  BY <1>2, AppendNext
<1>4. log'[a] = Append(log[a], Len(log[a]) + 1) /\ \A b \in 1..MaxAttempts : b # a => log'[b] = log[b]
  BY <1>1 DEF Types
<1>5. log' \in [1..MaxAttempts -> Seq(Nat)]
  BY <1>1, <1>3 DEF Types
<1>6. StoredInOrder'
  BY <1>3, <1>4 DEF StoredInOrder
<1> QED BY <1>3, <1>4, <1>5, <1>6

\* A late call belongs to an attempt there is a log of.
LEMMA LateOfAttempt == Types => \A l \in late : l[1] \in 1..MaxAttempts
BY BoundAssumption DEF Types

\* The invariant holds at the start.
LEMMA InitOrdered == Init => Ordered
<1> SUFFICES ASSUME Init PROVE Ordered
  OBVIOUS
<1>1. Types
  BY BoundAssumption DEF Init, Types, attempt
<1>2. StoredInOrder /\ Ahead
  BY DEF Init, StoredInOrder, Ahead
<1>3. LateIsNext /\ RunningIsNext /\ Rested
  BY DEF Init, LateIsNext, RunningIsNext, Rested
<1> QED BY <1>1, <1>2, <1>3 DEF Ordered

\* Every step keeps it.
LEMMA NextOrdered == Ordered /\ [Next]_vars => Ordered'
<1> SUFFICES ASSUME Ordered, [Next]_vars PROVE Ordered'
  OBVIOUS
<1> USE BoundAssumption DEF Ordered
<1>1. ASSUME NEW f \in Forms, Submit(f) PROVE Ordered'
  <2>1. /\ tried' = Append(tried, f) /\ attempt < MaxAttempts
        /\ state # "running" /\ state' = "running"
        /\ UNCHANGED <<log, next, call, late>>
    BY <1>1 DEF Submit, daemonVars, kernelVars
  <2>2. attempt' = attempt + 1 /\ tried' \in Seq(Forms)
    BY <2>1 DEF attempt, Types
  <2>3. attempt' \in 1..MaxAttempts /\ log[attempt'] = <<>>
    BY <2>1, <2>2 DEF Types, Ahead
  <2>4. Types'
    BY <2>1, <2>2, <2>3 DEF Types
  <2>5. StoredInOrder' /\ LateIsNext' /\ Rested'
    BY <2>1 DEF StoredInOrder, LateIsNext, Rested
  <2>6. RunningIsNext'
    BY <2>1, <2>2, <2>3 DEF RunningIsNext, Rested, Types
  <2>7. Ahead'
    BY <2>1, <2>2 DEF Ahead, Types
  <2> QED BY <2>4, <2>5, <2>6, <2>7
<1>2. CASE Handle
  <2>1. /\ state = "running" /\ call = "sent" /\ call' = "made"
        /\ Make(attempt, next) /\ UNCHANGED <<tried, state, next, late>>
    BY <1>2 DEF Handle
  <2>2. attempt' = attempt /\ attempt \in 1..MaxAttempts /\ next = Len(log[attempt]) + 1
    BY <2>1 DEF attempt, Types, RunningIsNext
  <2>3. /\ log' \in [1..MaxAttempts -> Seq(Nat)]
        /\ Len(log'[attempt]) = Len(log[attempt]) + 1
        /\ \A b \in 1..MaxAttempts : b # attempt => log'[b] = log[b]
        /\ StoredInOrder'
    BY <2>1, <2>2, MakeNext
  <2>4. Types' /\ Rested'
    BY <2>1, <2>2, <2>3 DEF Types, Rested
  <2>5. LateIsNext'
    <3>1. \A l \in late : l[1] \in 1..MaxAttempts
      BY <2>2, LateOfAttempt
    <3>2. \A l \in late : log'[l[1]] = log[l[1]]
      BY <2>1, <2>3, <3>1 DEF RunningIsNext
    <3> QED BY <2>1, <3>2 DEF LateIsNext
  <2>6. RunningIsNext'
    BY <2>1, <2>2, <2>3 DEF RunningIsNext
  <2>7. Ahead'
    <3> SUFFICES ASSUME NEW a \in 1..MaxAttempts, a > attempt PROVE log'[a] = <<>>
      BY <2>2 DEF Ahead
    <3>1. a # attempt
      BY <2>2
    <3> QED BY <2>3, <3>1 DEF Ahead
  <2> QED BY <2>3, <2>4, <2>5, <2>6, <2>7
<1>3. CASE Refuse
  <2>1. /\ state = "running" /\ call = "sent" /\ call' = "refused"
        /\ UNCHANGED <<log, tried, state, next, late>>
    BY <1>3 DEF Refuse, daemonVars
  <2> QED
    BY <2>1 DEF attempt, Types, StoredInOrder, LateIsNext, RunningIsNext, Rested, Ahead
<1>4. CASE HandleLate
  <2>1. PICK l \in late : /\ Make(l[1], l[2])
                          /\ late' = late \ {l}
                          /\ UNCHANGED <<tried, state, next, call>>
    BY <1>4 DEF HandleLate, uiVars
  <2>2. l[1] \in 1..attempt /\ l[1] \in 1..MaxAttempts /\ l[2] = Len(log[l[1]]) + 1 /\ attempt' = attempt
    BY <2>1 DEF Types, LateIsNext, attempt
  <2>3. /\ log' \in [1..MaxAttempts -> Seq(Nat)]
        /\ \A b \in 1..MaxAttempts : b # l[1] => log'[b] = log[b]
        /\ StoredInOrder'
    BY <2>1, <2>2, MakeNext
  <2>4. Types' /\ Rested'
    BY <2>1, <2>2, <2>3 DEF Types, Rested
  <2>5. \A m \in late : m[1] = l[1] => m = l
    <3> SUFFICES ASSUME NEW m \in late, m[1] = l[1] PROVE m = l
      OBVIOUS
    <3>1. m[2] = l[2]
      BY DEF LateIsNext
    <3>2. m = <<m[1], m[2]>> /\ l = <<l[1], l[2]>>
      BY DEF Types
    <3> QED BY <3>1, <3>2
  <2>6. LateIsNext'
    <3>1. \A m \in late' : m \in late /\ m[1] \in 1..MaxAttempts /\ m[1] # l[1]
      BY <2>1, <2>5, LateOfAttempt
    <3> QED BY <2>3, <3>1 DEF LateIsNext
  <2>7. RunningIsNext'
    BY <2>1, <2>2, <2>3 DEF RunningIsNext, Types
  <2>8. Ahead'
    BY <2>2, <2>3 DEF Ahead, Types
  <2> QED BY <2>3, <2>4, <2>6, <2>7, <2>8
<1>5. ASSUME state = "running", GoOn, call = "made" PROVE Ordered'
  <2>1. /\ UNCHANGED <<log, tried, late>> /\ attempt' = attempt /\ call' = "sent"
        /\ \/ next' = 1 /\ state' = "done"
           \/ next' = next + 1 /\ UNCHANGED state
    BY <1>5 DEF GoOn, daemonVars, kernelVars, attempt
  <2>2. Types' /\ StoredInOrder' /\ LateIsNext' /\ Ahead' /\ Rested'
    BY <2>1, <1>5 DEF Types, StoredInOrder, LateIsNext, Ahead, Rested
  <2>3. RunningIsNext'
    BY <2>1, <1>5 DEF RunningIsNext
  <2> QED BY <2>2, <2>3
<1>6. ASSUME Fail, UNCHANGED late PROVE Ordered'
  <2>1. /\ UNCHANGED <<log, tried, late>> /\ attempt' = attempt
        /\ next' = 1 /\ state' = "failed" /\ call' = "sent"
    BY <1>6 DEF Fail, daemonVars, kernelVars, attempt
  <2> QED
    BY <2>1 DEF Types, StoredInOrder, LateIsNext, RunningIsNext, Rested, Ahead
<1>7. CASE TimeOut
  <2>1. /\ state = "running" /\ call = "sent"
        /\ UNCHANGED <<log, tried>> /\ attempt' = attempt
        /\ next' = 1 /\ state' = "failed" /\ call' = "sent"
        /\ late' = late \cup {<<attempt, next>>}
    BY <1>7 DEF TimeOut, Fail, daemonVars, kernelVars, attempt
  <2>2. attempt \in 1..attempt /\ next \in Nat /\ next = Len(log[attempt]) + 1
    BY <2>1 DEF Types, RunningIsNext
  <2>3. Types' /\ LateIsNext'
    BY <2>1, <2>2 DEF Types, LateIsNext
  <2> QED
    BY <2>1, <2>3 DEF StoredInOrder, RunningIsNext, Rested, Ahead
<1>8. CASE UNCHANGED vars
  BY <1>8 DEF vars, daemonVars, uiVars, attempt, Types, StoredInOrder, LateIsNext, RunningIsNext,
              Rested, Ahead
<1> QED
  BY <1>1, <1>2, <1>3, <1>4, <1>5, <1>6, <1>7, <1>8 DEF Next, Reply, ReplyRefused, Lost

-----------------------------------------------------------------------------
(* What forms ask for                                                        *)

\* The rules bundles create.
Ports == SUBSET Services \ {{}}
EstablishedRules == {EstablishedRule(c) : c \in {"forward", "input"}}
ClientsRules     == {Clients(s, i, o) : s \in Ends, i \in Ways, o \in Ways}
AccessRules      == {AccessRule(f, p) : f \in {g \in Form : g.kind = "access"}, p \in Ports}
BundleRules      == EstablishedRules \cup ClientsRules \cup AccessRules

\* The attributes of rules.
Attributes == {"class", "id", "prio", "chain", "src", "dst", "srcList", "dstList", "in", "out",
               "kinds", "action", "to"}
IsRule(r) == DOMAIN r = Attributes /\ r = [x \in Attributes |-> r[x]]

\* The objects bundles create.
BundlePolicies == {Policy(s, o) : s \in Addrs, o \in Devices}
BundleNATs     == {NATSpec(s, l, o, t) : s \in Ends, l \in MaybeList, o \in Devices, t \in Ends}
Creates ==
       {Create("policies", p) : p \in BundlePolicies}
  \cup {Create("nats", n) : n \in BundleNATs}
  \cup {Create("rules", r) : r \in BundleRules}

\* The calls the bundle of a form may have.
Replies == {Create("rules", EstablishedRule(c)) : c \in {"forward", "input"}}
TheNAT(f) ==
  NATSpec(f.src, IF f.kind = "masq" THEN f.srcList ELSE Any, f.out, IF f.kind = "return" THEN f.to ELSE Any)
CreatesOf(f) ==
  CASE f.kind = "egress"  -> {Create("policies", Policy(f.src, f.out)), Create("nats", TheNAT(f))}
    [] f.kind = "return"  -> Replies \cup {Create("nats", TheNAT(f)),
                                           Create("rules", Clients(f.src, Any, f.out))}
    [] f.kind = "masq"    -> Replies \cup {Create("nats", TheNAT(f))}
    [] f.kind = "gateway" -> Replies \cup {Create("rules", Clients(f.src, f.in, f.out))}
    [] f.kind = "config"  -> {}
    [] f.kind = "access"  -> {Create("rules", AccessRule(f, p)) : p \in Ports}
Values(f) ==
  CASE f.kind = "egress"  -> {<<"ip_forward", "1">>}
    [] f.kind = "return"  -> {"rp.all", "rp.default", f.out} \X {"2"}
    [] f.kind = "masq"    -> {"rp.all", "rp.default"} \X {"2"}
    [] f.kind = "gateway" -> {<<"ip_forward", "1">>}
    [] f.kind = "config"  -> {<<"ip_forward", IF f.forward THEN "1" ELSE "0">>,
                              <<"forwarding6", IF f.forward6 THEN "1" ELSE "0">>,
                              <<"rp.all", f.rp>>, <<"rp.default", f.rp>>}
                             \cup {<<d, f.rp>> : d \in {f.dev} \ {Any}}
    [] f.kind = "access"  -> {}
Sets(f)  == {Set(v[1], v[2]) : v \in Values(f)}
Calls(f) == CreatesOf(f) \cup Sets(f) \cup {Apply}

\* A rule has the priority and the action asked for, and matches everything forwarded.
LEMMA RuleIs ==
  ASSUME NEW n, NEW a
  PROVE  /\ IsRule(Rule(n, a))
         /\ Rule(n, a).class = 0 /\ Rule(n, a).id = 0 /\ Rule(n, a).prio = n /\ Rule(n, a).chain = "forward"
         /\ Rule(n, a).src = Any /\ Rule(n, a).dst = Any /\ Rule(n, a).in = Any /\ Rule(n, a).out = Any
         /\ Rule(n, a).srcList = Any /\ Rule(n, a).dstList = Any
         /\ Rule(n, a).kinds = Kinds /\ Rule(n, a).action = a /\ Rule(n, a).to = Any
<1>1. /\ IsRule(F!Blank)
      /\ F!Blank.class = 0 /\ F!Blank.id = 0 /\ F!Blank.chain = "forward"
      /\ F!Blank.src = Any /\ F!Blank.dst = Any /\ F!Blank.in = Any /\ F!Blank.out = Any
      /\ F!Blank.srcList = Any /\ F!Blank.dstList = Any /\ F!Blank.kinds = Kinds /\ F!Blank.to = Any
  BY DEF F!Blank, IsRule, Attributes
<1> QED BY <1>1 DEF Rule, IsRule, Attributes

\* Two sequences together have the elements of both.
LEMMA Together ==
  ASSUME NEW S, NEW s \in Seq(S), NEW t \in Seq(S)
  PROVE  /\ s \o t \in Seq(S) /\ Len(s \o t) = Len(s) + Len(t)
         /\ Elements(s \o t) = Elements(s) \cup Elements(t)
<1>1. s \o t \in Seq(S) /\ Len(s \o t) = Len(s) + Len(t)
  OBVIOUS
<1>2. \A i \in DOMAIN s : i \in DOMAIN (s \o t) /\ (s \o t)[i] = s[i]
  OBVIOUS
<1>3. \A i \in DOMAIN t : Len(s) + i \in DOMAIN (s \o t) /\ (s \o t)[Len(s) + i] = t[i]
  OBVIOUS
<1>4. \A i \in DOMAIN (s \o t) : \/ i \in DOMAIN s
                                 \/ i - Len(s) \in DOMAIN t /\ Len(s) + (i - Len(s)) = i
  OBVIOUS
<1>5. Elements(s \o t) \subseteq Elements(s) \cup Elements(t)
  <2> SUFFICES ASSUME NEW i \in DOMAIN (s \o t)
               PROVE  (s \o t)[i] \in Elements(s) \cup Elements(t)
    BY DEF Elements
  <2>1. CASE i \in DOMAIN s
    BY <1>2, <2>1 DEF Elements
  <2>2. CASE i - Len(s) \in DOMAIN t /\ Len(s) + (i - Len(s)) = i
    <3>1. (s \o t)[i] = t[i - Len(s)]
      BY <1>3, <2>2
    <3> QED BY <2>2, <3>1 DEF Elements
  <2> QED BY <1>4, <2>1, <2>2
<1>6. Elements(s) \subseteq Elements(s \o t)
  BY <1>2 DEF Elements
<1>7. Elements(t) \subseteq Elements(s \o t)
  BY <1>3 DEF Elements
<1> QED BY <1>1, <1>5, <1>6, <1>7

\* Literal sequences.
LEMMA Literal ==
  /\ \A S : <<>> \in Seq(S)
  /\ \A S, x : x \in S => <<x>> \in Seq(S) /\ Len(<<x>>) = 1
  /\ \A S, x, y : x \in S /\ y \in S => <<x, y>> \in Seq(S) /\ Len(<<x, y>>) = 2
  /\ \A S, x, y, z : x \in S /\ y \in S /\ z \in S => <<x, y, z>> \in Seq(S)
OBVIOUS

\* The elements of literal sequences.
LEMMA LiteralElements ==
  /\ Elements(<<>>) = {}
  /\ \A x : Elements(<<x>>) = {x}
  /\ \A x, y : Elements(<<x, y>>) = {x, y}
BY DEF Elements

\* Calls that are made or not.
LEMMA Optional ==
  ASSUME NEW S, NEW s \in Seq(S), NEW b \in BOOLEAN
  PROVE  /\ When(b, s) \in Seq(S)
         /\ Elements(When(b, s)) = IF b THEN Elements(s) ELSE {}
BY Literal, LiteralElements DEF When

\* Which settings bundles may set.
LEMMA Created ==
  ASSUME NEW f, NEW k, NEW x, <<k, x>> \in Values(f)
  PROVE  Set(k, x) \in Calls(f)
<1>1. Set(k, x) = Set(<<k, x>>[1], <<k, x>>[2])
  OBVIOUS
<1>2. Set(<<k, x>>[1], <<k, x>>[2]) \in Sets(f)
  BY Zenon DEF Sets
<1> QED BY <1>1, <1>2, Zenon DEF Calls

\* Rules bundles create.
LEMMA Rules ==
  /\ \A c \in {"forward", "input"} : EstablishedRule(c) \in BundleRules
  /\ \A s \in Ends, i \in Ways, o \in Ways : Clients(s, i, o) \in BundleRules
  /\ \A f \in Form, p \in Ports : f.kind = "access" => AccessRule(f, p) \in BundleRules
BY DEF BundleRules, EstablishedRules, ClientsRules, AccessRules

\* Accepts for packets that belong to a connection, in both chains.
LEMMA Both ==
  ASSUME NEW f, Replies \subseteq Calls(f)
  PROVE  /\ BothChains \in Seq(Calls(f))
         /\ Create("rules", EstablishedRule("forward")) \in Elements(BothChains)
<1>1. /\ Create("rules", EstablishedRule("forward")) \in Calls(f)
      /\ Create("rules", EstablishedRule("input")) \in Calls(f)
  BY DEF Replies
<1>2. <<Create("rules", EstablishedRule("forward")), Create("rules", EstablishedRule("input"))>>
        = BothChains
  BY DEF BothChains
<1> HIDE DEF BothChains
<1>3. BothChains \in Seq(Calls(f))
  BY <1>1, <1>2, Literal
<1>4. Elements(BothChains) = {Create("rules", EstablishedRule("forward")),
                              Create("rules", EstablishedRule("input"))}
  BY <1>2, LiteralElements
<1> QED BY <1>3, <1>4

\* One setting after the other.
LEMMA Filters ==
  ASSUME NEW S, NEW K, NEW keys \in Seq(K), NEW v, \A k \in Elements(keys) : Set(k, v) \in S
  PROVE  rp_filter(keys, v) \in Seq(S)
<1>1. \A i \in DOMAIN keys : Set(keys[i], v) \in S
  BY DEF Elements
<1>2. Len(keys) \in Nat /\ DOMAIN keys = 1..Len(keys)
  OBVIOUS
<1>3. \A i \in 1..Len(keys) : Set(keys[i], v) \in S
  BY <1>1, <1>2
<1> QED BY <1>2, <1>3 DEF rp_filter

\* The settings of all devices are among the keys.
LEMMA FilterKeys ==
  ASSUME NEW d
  PROVE  /\ \A K : {"rp.all", "rp.default"} \subseteq K => <<"rp.all", "rp.default">> \in Seq(K)
         /\ Elements(<<"rp.all", "rp.default">>) = {"rp.all", "rp.default"}
         /\ \A K : {"rp.all", "rp.default", d} \subseteq K => <<"rp.all", "rp.default", d>> \in Seq(K)
         /\ Elements(<<"rp.all", "rp.default", d>>) = {"rp.all", "rp.default", d}
BY DEF Elements

\* Calls are sequences, and so are calls after calls.
LEMMA Joined ==
  ASSUME NEW S, NEW s \in Seq(S), NEW t \in Seq(S)
  PROVE  /\ s \o t \in Seq(S)
         /\ Len(s) >= 1 \/ Len(t) >= 1 => Len(s \o t) >= 1
         /\ Elements(s \o t) = Elements(s) \cup Elements(t)
<1>1. Len(s) \in Nat /\ Len(t) \in Nat
  OBVIOUS
<1>2. s \o t \in Seq(S) /\ Len(s \o t) = Len(s) + Len(t)
      /\ Elements(s \o t) = Elements(s) \cup Elements(t)
  BY Together
<1> QED BY <1>1, <1>2

\* A bundle of three parts.
LEMMA Parts ==
  ASSUME NEW S, NEW a \in Seq(S), NEW b \in Seq(S), NEW c \in Seq(S), Len(a) >= 1 \/ Len(b) >= 1
  PROVE  /\ (a \o b) \o c \in Seq(S) /\ Len((a \o b) \o c) >= 1
         /\ Elements(a) \cup Elements(b) \subseteq Elements((a \o b) \o c)
<1>1. a \o b \in Seq(S) /\ Len(a \o b) >= 1 /\ Elements(a \o b) = Elements(a) \cup Elements(b)
  BY Joined
<1>2. /\ (a \o b) \o c \in Seq(S) /\ Len((a \o b) \o c) >= 1
      /\ Elements((a \o b) \o c) = Elements(a \o b) \cup Elements(c)
  <2> DEFINE d == a \o b
  <2>1. d \in Seq(S) /\ Len(d) >= 1
    BY <1>1
  <2> HIDE DEF d
  <2>2. d \o c \in Seq(S) /\ Len(d \o c) >= 1 /\ Elements(d \o c) = Elements(d) \cup Elements(c)
    BY <2>1, Joined
  <2> QED BY <2>2 DEF d
<1> QED BY <1>1, <1>2

\* The rule RepliesPass is about.
ForwardReplies == Create("rules", EstablishedRule("forward"))

\* Each kind of bundle is a sequence of calls it may have, and has one at least.
LEMMA EgressCalls ==
  ASSUME NEW f \in Form, f.kind = "egress"
  PROVE  CallsOf(f) \in Seq(Calls(f)) /\ Len(CallsOf(f)) >= 1
<1> DEFINE S == Calls(f)
           a == When(f.forward, <<SetIPForward(TRUE)>>)
           b == <<Create("policies", Policy(f.src, f.out))>>
           c == When(f.nat, <<Create("nats", TheNAT(f))>>)
<1>1. /\ f.src \in Addrs /\ f.out \in Devices /\ f.forward \in BOOLEAN /\ f.nat \in BOOLEAN
      /\ CallsOf(f) = submitEasyEgress(f)
  BY DEF Form, CallsOf
<1>2. SetIPForward(TRUE) \in S
  <2>1. Values(f) = {<<"ip_forward", "1">>}
    BY DEF Values
  <2> QED BY <2>1, Created DEF SetIPForward
<1>3. Create("policies", Policy(f.src, f.out)) \in S /\ Create("nats", TheNAT(f)) \in S
  BY DEF Calls, CreatesOf
<1> HIDE DEF S
<1>4. a \in Seq(S) /\ b \in Seq(S) /\ c \in Seq(S) /\ Len(b) = 1
  BY <1>1, <1>2, <1>3, Literal, Optional
<1>5. CallsOf(f) = (a \o b) \o c
  BY <1>1 DEF submitEasyEgress, TheNAT
<1> HIDE DEF a, b, c
<1>6. (a \o b) \o c \in Seq(S) /\ Len((a \o b) \o c) >= 1
  <2>1. Len(a) >= 1 \/ Len(b) >= 1
    BY <1>4
  <2> QED BY <1>4, <2>1, Parts
<1> QED BY <1>5, <1>6 DEF S

\* So is a return bundle; with replies, it creates the accept for them.
LEMMA ReturnCalls ==
  ASSUME NEW f \in Form, f.kind = "return"
  PROVE  /\ CallsOf(f) \in Seq(Calls(f)) /\ Len(CallsOf(f)) >= 1
         /\ f.established => ForwardReplies \in Elements(CallsOf(f))
<1> DEFINE S == Calls(f)
           clients == <<Create("rules", Clients(f.src, Any, f.out))>>
           filters == rp_filter(<<"rp.all", "rp.default", f.out>>, "2")
           a == <<Create("nats", TheNAT(f))>>
           b == When(f.established, BothChains \o clients)
           c == When(f.rp, filters)
<1>1. /\ f.src \in Addrs /\ f.out \in Devices /\ f.established \in BOOLEAN /\ f.rp \in BOOLEAN
      /\ CallsOf(f) = submitEasyReturn(f)
  BY DEF Form, CallsOf
<1>2. \A k \in {"rp.all", "rp.default", f.out} : Set(k, "2") \in S
  <2>1. Values(f) = {"rp.all", "rp.default", f.out} \X {"2"}
    BY DEF Values
  <2> QED BY <2>1, Created
<1>3. Create("nats", TheNAT(f)) \in S
  BY DEF Calls, CreatesOf
<1>4. Create("rules", Clients(f.src, Any, f.out)) \in S
  BY DEF Calls, CreatesOf
<1>5. BothChains \in Seq(S) /\ ForwardReplies \in Elements(BothChains)
  <2>1. Replies \subseteq Calls(f)
    BY DEF Calls, CreatesOf
  <2> QED BY <2>1, Both DEF ForwardReplies
<1> HIDE DEF S
<1>6. clients \in Seq(S) /\ a \in Seq(S) /\ Len(a) = 1
  BY <1>3, <1>4, Literal
<1>7. filters \in Seq(S)
  <2> DEFINE keys == <<"rp.all", "rp.default", f.out>>
             K == {"rp.all", "rp.default", f.out}
  <2>1. keys \in Seq(K) /\ Elements(keys) = K
    BY FilterKeys
  <2>2. \A k \in Elements(keys) : Set(k, "2") \in S
    BY <1>2, <2>1
  <2> HIDE DEF keys, K
  <2>3. rp_filter(keys, "2") \in Seq(S)
    BY <2>1, <2>2, Filters
  <2> QED BY <2>3 DEF keys
<1>8. CallsOf(f) = (a \o b) \o c
  BY <1>1 DEF submitEasyReturn, TheNAT
<1> HIDE DEF a, clients, filters
<1>9. BothChains \o clients \in Seq(S)
      /\ Elements(BothChains \o clients) = Elements(BothChains) \cup Elements(clients)
  BY <1>5, <1>6, Joined
<1> DEFINE replies == BothChains \o clients
<1> HIDE DEF ForwardReplies, replies, BothChains
<1>10. b \in Seq(S) /\ (f.established => ForwardReplies \in Elements(b)) /\ c \in Seq(S)
  <2>1. replies \in Seq(S) /\ ForwardReplies \in Elements(replies) /\ b = When(f.established, replies)
    BY <1>5, <1>9 DEF replies
  <2> HIDE DEF b
  <2>2. b \in Seq(S) /\ Elements(b) = IF f.established THEN Elements(replies) ELSE {}
    BY <1>1, <2>1, Optional
  <2>3. c \in Seq(S)
    BY <1>1, <1>7, Optional
  <2> QED BY <2>1, <2>2, <2>3
<1> HIDE DEF b, c
<1>11. /\ (a \o b) \o c \in Seq(S) /\ Len((a \o b) \o c) >= 1
       /\ Elements(a) \cup Elements(b) \subseteq Elements((a \o b) \o c)
  <2>1. Len(a) >= 1 \/ Len(b) >= 1
    BY <1>6
  <2> QED BY <1>6, <1>10, <2>1, Parts
<1> QED BY <1>8, <1>10, <1>11 DEF S

\* So does the other one, in full.
LEMMA MasqCalls ==
  ASSUME NEW f \in Form, f.kind = "masq"
  PROVE  /\ CallsOf(f) \in Seq(Calls(f)) /\ Len(CallsOf(f)) >= 1
         /\ f.full => ForwardReplies \in Elements(CallsOf(f))
<1> DEFINE S == Calls(f)
           filters == rp_filter(<<"rp.all", "rp.default">>, "2")
           a == <<Create("nats", TheNAT(f))>>
           b == When(f.full, BothChains)
           c == When(f.full, filters)
<1>1. f.full \in BOOLEAN /\ CallsOf(f) = submitEasyMasq(f)
  BY DEF Form, CallsOf
<1>2. Set("rp.all", "2") \in S /\ Set("rp.default", "2") \in S
  <2>1. Values(f) = {"rp.all", "rp.default"} \X {"2"}
    BY DEF Values
  <2> QED BY <2>1, Created
<1>3. Create("nats", TheNAT(f)) \in S
  BY DEF Calls, CreatesOf
<1>4. BothChains \in Seq(S) /\ ForwardReplies \in Elements(BothChains)
  <2>1. Replies \subseteq Calls(f)
    BY DEF Calls, CreatesOf
  <2> QED BY <2>1, Both DEF ForwardReplies
<1> HIDE DEF S
<1>5. a \in Seq(S) /\ Len(a) = 1
  BY <1>3, Literal
<1>6. filters \in Seq(S)
  <2> DEFINE keys == <<"rp.all", "rp.default">>
             K == {"rp.all", "rp.default"}
  <2>1. keys \in Seq(K) /\ Elements(keys) = K
    BY FilterKeys
  <2>2. \A k \in Elements(keys) : Set(k, "2") \in S
    BY <1>2, <2>1
  <2> HIDE DEF keys, K
  <2>3. rp_filter(keys, "2") \in Seq(S)
    BY <2>1, <2>2, Filters
  <2> QED BY <2>3 DEF keys
<1>7. CallsOf(f) = (a \o b) \o c
  BY <1>1 DEF submitEasyMasq, TheNAT
<1> HIDE DEF a, BothChains, ForwardReplies, filters
<1>8. /\ b \in Seq(S) /\ c \in Seq(S)
      /\ f.full => ForwardReplies \in Elements(b)
  BY <1>1, <1>4, <1>6, Optional
<1> HIDE DEF b, c
<1>9. /\ (a \o b) \o c \in Seq(S) /\ Len((a \o b) \o c) >= 1
      /\ Elements(a) \cup Elements(b) \subseteq Elements((a \o b) \o c)
  <2>1. Len(a) >= 1 \/ Len(b) >= 1
    BY <1>5
  <2> QED BY <1>5, <1>8, <2>1, Parts
<1> QED BY <1>7, <1>8, <1>9 DEF S

\* So does a gateway.
LEMMA GatewayCalls ==
  ASSUME NEW f \in Form, f.kind = "gateway"
  PROVE  /\ CallsOf(f) \in Seq(Calls(f)) /\ Len(CallsOf(f)) >= 1
         /\ ForwardReplies \in Elements(CallsOf(f))
<1> DEFINE S == Calls(f)
           a == <<SetIPForward(TRUE)>>
           some == {f.src, f.in, f.out} # {Any}
           c == When(some, <<Create("rules", Clients(f.src, f.in, f.out))>>)
<1>1. f.src \in Ends /\ f.in \in Ways /\ f.out \in Ways /\ CallsOf(f) = doEasyGateway(f)
  BY DEF Form, CallsOf
<1>2. SetIPForward(TRUE) \in S
  <2>1. Values(f) = {<<"ip_forward", "1">>}
    BY DEF Values
  <2> QED BY <2>1, Created DEF SetIPForward
<1>3. Create("rules", Clients(f.src, f.in, f.out)) \in S
  BY DEF Calls, CreatesOf
<1>4. BothChains \in Seq(S) /\ ForwardReplies \in Elements(BothChains)
  <2>1. Replies \subseteq Calls(f)
    BY DEF Calls, CreatesOf
  <2> QED BY <2>1, Both DEF ForwardReplies
<1> HIDE DEF S
<1>5. a \in Seq(S) /\ Len(a) = 1
  BY <1>2, Literal
<1>6. c \in Seq(S)
  <2>1. some \in BOOLEAN
    OBVIOUS
  <2>2. <<Create("rules", Clients(f.src, f.in, f.out))>> \in Seq(S)
    BY <1>3, Literal
  <2> HIDE DEF some
  <2> QED BY <2>1, <2>2, Optional
<1>7. CallsOf(f) = (a \o BothChains) \o c
  BY <1>1 DEF doEasyGateway
<1> HIDE DEF a, c, BothChains, ForwardReplies
<1>8. /\ (a \o BothChains) \o c \in Seq(S) /\ Len((a \o BothChains) \o c) >= 1
      /\ Elements(a) \cup Elements(BothChains) \subseteq Elements((a \o BothChains) \o c)
  <2>1. Len(a) >= 1 \/ Len(BothChains) >= 1
    BY <1>5
  <2> QED BY <1>4, <1>5, <1>6, <2>1, Parts
<1> QED BY <1>4, <1>7, <1>8 DEF S

\* The settings form sets values, and applies if it is told to.
LEMMA ConfigCalls ==
  ASSUME NEW f \in Form, f.kind = "config"
  PROVE  CallsOf(f) \in Seq(Calls(f)) /\ Len(CallsOf(f)) >= 1
<1> DEFINE S == Calls(f)
           six == Set("forwarding6", IF f.forward6 THEN "1" ELSE "0")
           K == {"rp.all", "rp.default"} \cup ({f.dev} \ {Any})
           all == <<"rp.all", "rp.default">>
           dev == When(f.dev # Any, <<f.dev>>)
           keys == all \o dev
           a == <<SetIPForward(f.forward), six>>
           b == When(f.rp # "leave", rp_filter(keys, f.rp))
           c == When(f.apply, <<Apply>>)
<1>1. f.apply \in BOOLEAN /\ CallsOf(f) = submitEasyConfig(f)
  BY DEF Form, CallsOf
<1>2. SetIPForward(f.forward) \in S /\ six \in S /\ \A k \in K : Set(k, f.rp) \in S
  <2>1. Values(f) = {<<"ip_forward", IF f.forward THEN "1" ELSE "0">>,
                     <<"forwarding6", IF f.forward6 THEN "1" ELSE "0">>,
                     <<"rp.all", f.rp>>, <<"rp.default", f.rp>>}
                    \cup {<<d, f.rp>> : d \in {f.dev} \ {Any}}
    BY DEF Values
  <2>2. \A k \in K : <<k, f.rp>> \in Values(f)
    BY <2>1
  <2> QED BY <2>1, <2>2, Created DEF SetIPForward
<1>3. Apply \in S
  BY DEF Calls
<1> HIDE DEF S
<1>4. a \in Seq(S) /\ Len(a) = 2
  BY <1>2, Literal
<1>5. b \in Seq(S)
  <2>1. all \in Seq(K) /\ Elements(all) = {"rp.all", "rp.default"}
    BY FilterKeys
  <2>2. dev \in Seq(K) /\ Elements(dev) \subseteq K
    <3>1. CASE f.dev = Any
      BY <3>1, Literal, LiteralElements DEF When
    <3>2. CASE f.dev # Any
      BY <3>2, Literal, LiteralElements DEF When
    <3> QED BY <3>1, <3>2
  <2>3. \A k \in K : Set(k, f.rp) \in S
    BY <1>2
  <2> HIDE DEF dev, all
  <2>4. keys \in Seq(K) /\ Elements(keys) = Elements(all) \cup Elements(dev)
    BY <2>1, <2>2, Joined
  <2>5. \A k \in Elements(keys) : Set(k, f.rp) \in S
    BY <2>1, <2>2, <2>3, <2>4
  <2> HIDE DEF keys, K
  <2>6. rp_filter(keys, f.rp) \in Seq(S)
    BY <2>4, <2>5, Filters
  <2> QED BY <2>6, Literal DEF When
<1>6. c \in Seq(S)
  BY <1>3, Literal DEF When
<1>7. CallsOf(f) = (a \o b) \o c
  BY <1>1 DEF submitEasyConfig
<1> HIDE DEF a, b, c
<1>8. (a \o b) \o c \in Seq(S) /\ Len((a \o b) \o c) >= 1
  <2>1. Len(a) >= 1 \/ Len(b) >= 1
    BY <1>4
  <2> QED BY <1>4, <1>5, <1>6, <2>1, Parts
<1> QED BY <1>7, <1>8 DEF S

\* An access form creates one rule for each port.
LEMMA AccessCalls ==
  ASSUME NEW f \in Form, f.kind = "access"
  PROVE  /\ CallsOf(f) \in Seq(Calls(f)) /\ Len(CallsOf(f)) >= 1
         /\ \A c \in Elements(CallsOf(f)) : \E p \in Ports : c = Create("rules", AccessRule(f, p))
<1> DEFINE S == Calls(f)
<1>1. f.ports \in Seq(Ports) /\ f.ports # <<>> /\ CallsOf(f) = submitEasyAccess(f)
  BY DEF Form, CallsOf, Ports
<1>2. \A p \in Ports : Create("rules", AccessRule(f, p)) \in S
  BY DEF Calls, CreatesOf
<1>3. CallsOf(f) = [i \in DOMAIN f.ports |-> Create("rules", AccessRule(f, f.ports[i]))]
  BY <1>1 DEF submitEasyAccess
<1>4. /\ DOMAIN f.ports = 1..Len(f.ports) /\ Len(f.ports) \in Nat /\ Len(f.ports) >= 1
      /\ \A i \in DOMAIN f.ports : f.ports[i] \in Ports
  BY <1>1
<1>5. \A i \in DOMAIN f.ports : Create("rules", AccessRule(f, f.ports[i])) \in S
  BY <1>2, <1>4
<1> HIDE DEF S
<1>6. CallsOf(f) \in Seq(S) /\ Len(CallsOf(f)) = Len(f.ports)
  BY <1>3, <1>4, <1>5
<1>7. ASSUME NEW c \in Elements(CallsOf(f)) PROVE \E p \in Ports : c = Create("rules", AccessRule(f, p))
  <2>1. PICK i \in DOMAIN f.ports : c = Create("rules", AccessRule(f, f.ports[i]))
    BY <1>3 DEF Elements
  <2> QED BY <1>4, <2>1
<1> QED BY <1>4, <1>6, <1>7 DEF S

\* Every form is a sequence of calls it may have, and has one at least.
LEMMA CallsAre ==
  ASSUME NEW f \in Form
  PROVE  CallsOf(f) \in Seq(Calls(f)) /\ Len(CallsOf(f)) >= 1
<1>1. f.kind \in {"egress", "return", "masq", "gateway", "config", "access"}
  BY DEF Form
<1> QED BY <1>1, EgressCalls, ReturnCalls, MasqCalls, GatewayCalls, ConfigCalls, AccessCalls

\* A rule of an access form.
LEMMA AccessRuleIs ==
  ASSUME NEW f \in Form, f.kind = "access", NEW p
  PROVE  LET r == AccessRule(f, p)
         IN  /\ IsRule(r) /\ r.class = 0 /\ r.id = 0 /\ r.to = Any /\ r.chain = f.chain
             /\ r.kinds = p \X {"new", "established"}
             /\ f.do = "block" => r.prio = 50 /\ r.action = "drop"
             /\ f.do = "allow" => r.prio = 100 /\ r.action = "accept"
<1> DEFINE r == AccessRule(f, p)
           q == Rule(AccessPrio(f.do), IF f.do = "block" THEN "drop" ELSE "accept")
           kinds == p \X {"new", "established"}
           src == Unless(f.srcList, f.src)
           dst == Unless(f.dstList, f.dst)
<1>1. /\ IsRule(q) /\ q.class = 0 /\ q.id = 0 /\ q.to = Any /\ q.prio = AccessPrio(f.do)
      /\ q.action = IF f.do = "block" THEN "drop" ELSE "accept"
  BY RuleIs
<1>2. r = [q EXCEPT !.chain = f.chain, !.src = src, !.dst = dst, !.srcList = f.srcList,
                    !.dstList = f.dstList, !.in = f.in, !.out = f.out, !.kinds = kinds]
  BY DEF AccessRule
<1> DEFINE a == [q EXCEPT !.chain = f.chain, !.src = src, !.dst = dst]
           b == [a EXCEPT !.srcList = f.srcList, !.dstList = f.dstList]
           c == [b EXCEPT !.in = f.in, !.out = f.out]
<1>3. r = [c EXCEPT !.kinds = kinds]
  BY <1>2
<1> HIDE DEF r, q, kinds, src, dst, a, b, c
<1>4. IsRule(a) /\ a.chain = f.chain /\ \A x \in {"class", "id", "to", "prio", "action"} : a[x] = q[x]
  <2>1. IsRule(a)
    BY <1>1 DEF IsRule, a
  <2> QED BY <1>1, <2>1 DEF IsRule, Attributes, a
<1>5. IsRule(b) /\ \A x \in {"class", "id", "to", "prio", "action", "chain"} : b[x] = a[x]
  <2>1. IsRule(b)
    BY <1>4 DEF IsRule, b
  <2> QED BY <1>4, <2>1 DEF IsRule, Attributes, b
<1>6. IsRule(c) /\ \A x \in {"class", "id", "to", "prio", "action", "chain"} : c[x] = b[x]
  <2>1. IsRule(c)
    BY <1>5 DEF IsRule, c
  <2> QED BY <1>5, <2>1 DEF IsRule, Attributes, c
<1>7. IsRule(r) /\ r.kinds = kinds /\ \A x \in {"class", "id", "to", "prio", "action", "chain"} : r[x] = c[x]
  <2>1. IsRule(r)
    BY <1>3, <1>6 DEF IsRule
  <2> QED BY <1>3, <1>6, <2>1 DEF IsRule, Attributes
<1>8. /\ r.class = 0 /\ r.id = 0 /\ r.to = Any /\ r.chain = f.chain
      /\ r.prio = AccessPrio(f.do) /\ r.action = IF f.do = "block" THEN "drop" ELSE "accept"
  BY <1>1, <1>4, <1>5, <1>6, <1>7
<1> QED BY <1>7, <1>8 DEF r, kinds, AccessPrio

\* What the rules of bundles have in common, and what tells them apart.
LEMMA RulesAre ==
  ASSUME NEW r \in BundleRules
  PROVE  /\ IsRule(r) /\ r.class = 0 /\ r.id = 0 /\ r.to = Any
         /\ \/ r.prio = 10 /\ r.action = "accept" /\ r.kinds = Established
            \/ r.prio = 40 /\ r.action = "accept"
            \/ r.prio = 50 /\ r.action = "drop"
            \/ r.prio = 100 /\ r.action = "accept"
<1>1. CASE r \in EstablishedRules
  <2>1. PICK c \in {"forward", "input"} : r = [Rule(10, "accept") EXCEPT !.chain = c, !.kinds = Established]
    BY <1>1 DEF EstablishedRules, EstablishedRule
  <2> DEFINE q == Rule(10, "accept")
  <2>2. /\ IsRule(q) /\ q.class = 0 /\ q.id = 0 /\ q.to = Any /\ q.prio = 10 /\ q.action = "accept"
    BY RuleIs
  <2>3. r = [q EXCEPT !.chain = c, !.kinds = Established]
    BY <2>1
  <2> HIDE DEF q, Established
  <2>4. IsRule(r)
    BY <2>2, <2>3 DEF IsRule
  <2> QED BY <2>2, <2>3, <2>4 DEF IsRule, Attributes
<1>2. CASE r \in ClientsRules
  <2>1. PICK s \in Ends, i \in Ways, o \in Ways : r = Clients(s, i, o)
    BY <1>2 DEF ClientsRules
  <2> DEFINE q == Rule(40, "accept")
  <2>2. /\ IsRule(q) /\ q.class = 0 /\ q.id = 0 /\ q.to = Any /\ q.prio = 40 /\ q.action = "accept"
    BY RuleIs
  <2>3. r = [q EXCEPT !.src = s, !.in = i, !.out = o]
    BY <2>1 DEF Clients
  <2> HIDE DEF q
  <2>4. IsRule(r)
    BY <2>2, <2>3 DEF IsRule
  <2> QED BY <2>2, <2>3, <2>4 DEF IsRule, Attributes
<1>3. CASE r \in AccessRules
  <2>1. PICK f \in Form, p \in Ports : f.kind = "access" /\ r = AccessRule(f, p)
    BY <1>3 DEF AccessRules
  <2>2. f.do \in {"allow", "block"}
    BY <2>1 DEF Form
  <2> QED BY <2>1, <2>2, AccessRuleIs
<1> QED BY <1>1, <1>2, <1>3 DEF BundleRules

\* Changing the id of what has id zero, and changing it back.
LEMMA BackAgain ==
  ASSUME NEW w, NEW n, w = [x \in DOMAIN w |-> w[x]], w.id = 0
  PROVE  [[w EXCEPT !.id = n] EXCEPT !.id = 0] = w
OBVIOUS

\* A created object has the id zero, whichever it gets when it is stored.
LEMMA Renumbered ==
  ASSUME NEW c \in Creates, NEW n
  PROVE  [[c.what EXCEPT !.id = n] EXCEPT !.id = 0] = c.what
<1>1. CASE c \in {Create("policies", p) : p \in BundlePolicies}
  <2>1. PICK s \in Addrs, o \in Devices : c = Create("policies", Policy(s, o))
    BY <1>1 DEF BundlePolicies
  <2>2. c.what = Policy(s, o)
    BY <2>1 DEF Create
  <2>3. c.what = [x \in DOMAIN c.what |-> c.what[x]] /\ c.what.id = 0
    BY <2>2 DEF Policy
  <2> QED BY <2>3, BackAgain
<1>2. CASE c \in {Create("nats", m) : m \in BundleNATs}
  <2>1. PICK s \in Ends, l \in MaybeList, o \in Devices, t \in Ends : c = Create("nats", NATSpec(s, l, o, t))
    BY <1>2 DEF BundleNATs
  <2>2. c.what = NATSpec(s, l, o, t)
    BY <2>1 DEF Create
  <2>3. c.what = [x \in DOMAIN c.what |-> c.what[x]] /\ c.what.id = 0
    BY <2>2 DEF NATSpec
  <2> QED BY <2>3, BackAgain
<1>3. CASE c \in {Create("rules", r) : r \in BundleRules}
  <2>1. PICK r \in BundleRules : c = Create("rules", r)
    BY <1>3
  <2>2. c.what = r /\ IsRule(r) /\ r.id = 0
    BY <2>1, RulesAre DEF Create
  <2> QED BY <2>2, BackAgain DEF IsRule
<1> QED BY <1>1, <1>2, <1>3 DEF Creates

\* What a form creates is what bundles create.
LEMMA CreatesAre ==
  ASSUME NEW f \in Form
  PROVE  CreatesOf(f) \subseteq Creates
<1>1. f.kind \in {"egress", "return", "masq", "gateway", "config", "access"}
  BY DEF Form
<1>2. \A s \in Addrs, o \in Devices : Create("policies", Policy(s, o)) \in Creates
  BY DEF Creates, BundlePolicies
<1>3. \A s \in Ends, l \in MaybeList, o \in Devices, t \in Ends :
        Create("nats", NATSpec(s, l, o, t)) \in Creates
  BY DEF Creates, BundleNATs
<1>4. \A r \in BundleRules : Create("rules", r) \in Creates
  BY DEF Creates
<1>5. Replies \subseteq Creates
  BY <1>4, Rules DEF Replies
<1>6. CASE f.kind = "egress"
  <2>1. f.src \in Addrs /\ f.out \in Devices
    BY <1>6 DEF Form
  <2>2. Create("nats", TheNAT(f)) \in Creates
    BY <1>3, <1>6, <2>1 DEF TheNAT, Ends, MaybeList
  <2> QED BY <1>2, <1>6, <2>1, <2>2 DEF CreatesOf
<1>7. CASE f.kind = "return"
  <2>1. f.src \in Addrs /\ f.out \in Devices /\ f.to \in Ends
    BY <1>7 DEF Form
  <2>2. Clients(f.src, Any, f.out) \in BundleRules
    BY <2>1, Rules DEF Ends, Ways
  <2>3. Create("nats", TheNAT(f)) \in Creates
    BY <1>3, <1>7, <2>1 DEF TheNAT, Ends, MaybeList
  <2> QED BY <1>4, <1>5, <1>7, <2>2, <2>3 DEF CreatesOf
<1>8. CASE f.kind = "masq"
  <2>1. f.src \in Ends /\ f.srcList \in MaybeList /\ f.out \in Devices
    BY <1>8 DEF Form
  <2>2. Create("nats", TheNAT(f)) \in Creates
    BY <1>3, <1>8, <2>1 DEF TheNAT, Ends
  <2> QED BY <1>5, <1>8, <2>2 DEF CreatesOf
<1>9. CASE f.kind = "gateway"
  <2>1. f.src \in Ends /\ f.in \in Ways /\ f.out \in Ways
    BY <1>9 DEF Form
  <2>2. Clients(f.src, f.in, f.out) \in BundleRules
    BY <2>1, Rules
  <2> QED BY <1>4, <1>5, <1>9, <2>2 DEF CreatesOf
<1>10. CASE f.kind = "access"
  <2>1. \A p \in Ports : AccessRule(f, p) \in BundleRules
    BY <1>10, Rules
  <2> QED BY <1>4, <1>10, <2>1 DEF CreatesOf
<1>11. CASE f.kind = "config"
  BY <1>11 DEF CreatesOf
<1> QED BY <1>1, <1>6, <1>7, <1>8, <1>9, <1>10, <1>11

\* A call creates an object, sets a value or applies.
LEMMA CallIs ==
  ASSUME NEW f \in Form, NEW c \in Calls(f)
  PROVE  \/ c.op = "create" /\ c \in Creates /\ c \in CreatesOf(f) /\ c.in \in {"policies", "nats", "rules"}
         \/ c.op = "set" /\ <<c.in, c.what>> \in Values(f)
         \/ c.op = "apply"
<1>1. CASE c \in CreatesOf(f)
  <2>0. c \in Creates
    BY <1>1, CreatesAre
  <2>1. PICK x : \E i \in {"policies", "nats", "rules"} : c = Create(i, x)
    BY <2>0 DEF Creates
  <2> QED BY <1>1, <2>0, <2>1 DEF Create
<1>2. CASE c \in Sets(f)
  <2>1. PICK v \in Values(f) : c = Set(v[1], v[2])
    BY <1>2, Zenon DEF Sets
  <2>2. c.op = "set" /\ c.in = v[1] /\ c.what = v[2]
    BY <2>1 DEF Set
  <2>3. v = <<v[1], v[2]>>
    <3>1. f.kind \in {"egress", "return", "masq", "gateway", "config", "access"}
      BY DEF Form
    <3> QED BY <3>1 DEF Values
  <2> QED BY <2>2, <2>3
<1>3. CASE c = Apply
  BY <1>3 DEF Apply
<1> QED BY <1>1, <1>2, <1>3 DEF Calls

\* A form gives a key one value.
LEMMA OneValue ==
  ASSUME NEW f \in Form, NEW k, NEW x, NEW y, <<k, x>> \in Values(f), <<k, y>> \in Values(f)
  PROVE  x = y
<1>1. f.kind \in {"egress", "return", "masq", "gateway", "config", "access"}
  BY DEF Form
<1>2. CASE f.kind = "config"
  <2>1. f.dev \in Devices \cup {Any}
    BY <1>2 DEF Form, Ways
  <2>2. f.dev # Any => f.dev \notin {"ip_forward", "forwarding6"}
    BY <2>1, NamesAssumption
  <2> QED BY <1>2, <2>2 DEF Values
<1> QED BY <1>1, <1>2 DEF Values

-----------------------------------------------------------------------------
(* What the daemon keeps                                                     *)

\* Calls are made of bundles, none beyond the last.
Within ==
  /\ next >= 1
  /\ state = "running" => next <= Len(CallsOf(tried[attempt]))
  /\ \A l \in late : l[2] <= Len(CallsOf(tried[l[1]]))
  /\ \A a \in 1..attempt : Len(log[a]) <= Len(CallsOf(tried[a]))

\* Of an attempt that succeeded all calls were made.
Finished ==
  /\ done \subseteq 1..attempt
  /\ \A a \in done : Len(log[a]) = Len(CallsOf(tried[a]))
  /\ state = "running" => attempt \notin done

\* The objects are those of calls, with ids of their own.
Stored(w) == {[x EXCEPT !.id = n] : x \in w, n \in Nat}
Shape(o) ==
  /\ o \in [DOMAIN F!Nothing -> {o[x] : x \in DOMAIN F!Nothing}]
  /\ o.lists = KnownLists /\ o.forwards = {}
  /\ o.policies \subseteq Stored(BundlePolicies)
  /\ o.nats \subseteq Stored(BundleNATs)
  /\ o.rules \subseteq Stored(BundleRules)
IdsAreNumbers == ids \in Numberings

\* The table is compiled from objects that were stored once, and none is taken away.
Part(o, d) == \A x \in {"policies", "nats", "rules"} : o[x] \subseteq d[x]
Compiled == Shape(source) /\ table = F!Script(source) /\ Part(source, objects)

\* What was made of each attempt is there; settings have values a submitted form asked for.
Kept(c, o, s) ==
  IF c.op = "create" THEN \E n \in Nat : [c.what EXCEPT !.id = n] \in o[c.in]
  ELSE c.op = "set" => c.in \in DOMAIN s
AllKept == \A a \in 1..attempt : \A i \in 1..Len(log[a]) : Kept(CallsOf(tried[a])[i], objects, settings)
AskedBy(f, x, y) ==
  \E c \in Elements(CallsOf(f)), n \in Nat :
    c.op = "create" /\ c.in = x /\ y = [c.what EXCEPT !.id = n]
ObjectsAsked(o) ==
  \A x \in {"policies", "nats", "rules"} : \A y \in o[x] : \E f \in Elements(tried) : AskedBy(f, x, y)
SettingsAsked ==
  \A k \in DOMAIN settings : \E f \in Elements(tried) : <<k, settings[k]>> \in Values(f)

Effects == /\ Shape(objects) /\ Compiled /\ IdsAreNumbers /\ AllKept /\ SettingsAsked
           /\ ObjectsAsked(objects)
Whole == Ordered /\ Within /\ Finished /\ Effects

\* A form that was submitted is one the users may enter, and has calls.
LEMMA Submitted ==
  ASSUME Types, NEW a \in 1..attempt
  PROVE  /\ tried[a] \in Forms /\ tried[a] \in Form /\ tried[a] \in Elements(tried)
         /\ CallsOf(tried[a]) \in Seq(Calls(tried[a])) /\ Len(CallsOf(tried[a])) \in 1..MaxCalls
         /\ a \in 1..MaxAttempts
<1>1. tried \in Seq(Forms) /\ attempt = Len(tried) /\ attempt \in 0..MaxAttempts
  BY DEF Types, attempt
<1>2. tried[a] \in Forms /\ a \in DOMAIN tried
  BY <1>1
<1>3. tried[a] \in Form
  BY <1>2, FormsAssumption
<1>4. CallsOf(tried[a]) \in Seq(Calls(tried[a])) /\ Len(CallsOf(tried[a])) >= 1
  BY <1>3, CallsAre
<1>5. Len(CallsOf(tried[a])) <= MaxCalls
  BY <1>2, CallsAssumption
<1>6. Len(CallsOf(tried[a])) \in Nat
  BY <1>4
<1> QED BY <1>1, <1>2, <1>3, <1>4, <1>5, <1>6, BoundAssumption DEF Elements

\* Only what the call creates is new.
Grown(o, p, c, n) ==
  \A x \in {"policies", "nats", "rules"} :
    /\ o[x] \subseteq p[x]
    /\ \A y \in p[x] : y \in o[x] \/ (x = c.in /\ y = [c.what EXCEPT !.id = n])

\* A stored object keeps the attributes of what was asked for.
LEMMA AddedTo ==
  ASSUME NEW o, Shape(o), NEW c \in Creates, NEW n \in Nat,
         c.in \in {"policies", "nats", "rules"},
         NEW p, p = [o EXCEPT ![c.in] = @ \cup {[c.what EXCEPT !.id = n]}]
  PROVE  /\ Shape(p) /\ [c.what EXCEPT !.id = n] \in p[c.in]
         /\ Grown(o, p, c, n)
<1>1. DOMAIN F!Nothing = {"policies", "rules", "nats", "forwards", "lists"}
  BY DEF F!Nothing
<1>2. \/ c.in = "policies" /\ c.what \in BundlePolicies
      \/ c.in = "nats" /\ c.what \in BundleNATs
      \/ c.in = "rules" /\ c.what \in BundleRules
  BY DEF Creates, Create
<1> DEFINE new == [c.what EXCEPT !.id = n]
<1>3. \A w : c.what \in w => new \in Stored(w)
  BY DEF Stored
<1> HIDE DEF new
<1>4. /\ DOMAIN p = DOMAIN F!Nothing /\ p = [x \in DOMAIN F!Nothing |-> p[x]]
      /\ p[c.in] = o[c.in] \cup {new}
      /\ \A x \in DOMAIN F!Nothing : x # c.in => p[x] = o[x]
  BY <1>1 DEF Shape, new
<1>5. p \in [DOMAIN F!Nothing -> {p[x] : x \in DOMAIN F!Nothing}]
  BY <1>4
<1>6. p.lists = KnownLists /\ p.forwards = {}
  BY <1>1, <1>4 DEF Shape
<1>7. p.policies \subseteq Stored(BundlePolicies)
  BY <1>1, <1>2, <1>3, <1>4 DEF Shape
<1>8. p.nats \subseteq Stored(BundleNATs)
  BY <1>1, <1>2, <1>3, <1>4 DEF Shape
<1>9. p.rules \subseteq Stored(BundleRules)
  BY <1>1, <1>2, <1>3, <1>4 DEF Shape
<1>10. \A x \in {"policies", "nats", "rules"} :
         o[x] \subseteq p[x] /\ \A y \in p[x] : y \in o[x] \/ (x = c.in /\ y = new)
  BY <1>1, <1>4
<1>11. Grown(o, p, c, n)
  BY <1>10 DEF Grown, new
<1> QED BY <1>4, <1>5, <1>6, <1>7, <1>8, <1>9, <1>11 DEF Shape, new

\* Whether the apply succeeds or not, the table is compiled from objects stored now or before.
LEMMA StillCompiled ==
  ASSUME Compiled, Shape(objects'), Part(objects, objects'), Applies \/ ApplyFails
  PROVE  Compiled'
<1>1. CASE Applies
  <2>1. table' = F!Script(objects') /\ source' = objects'
    BY <1>1 DEF Applies
  <2>2. Shape(source') /\ Part(source', objects') /\ F!Script(source') = F!Script(objects')
    BY <2>1 DEF Part
  <2>3. Shape(source)' /\ Part(source, objects)' /\ F!Script(source)' = F!Script(source')
    BY <2>2 DEF Shape, Part
  <2> QED BY <2>1, <2>2, <2>3 DEF Compiled
<1>2. CASE ApplyFails
  <2>1. source' = source /\ table' = table
    BY <1>2 DEF ApplyFails
  <2>2. Shape(source)' /\ F!Script(source') = F!Script(source)
    BY <2>1 DEF Compiled, Shape
  <2>3. Part(source, objects)'
    BY <2>1 DEF Compiled, Part
  <2> QED BY <2>1, <2>2, <2>3 DEF Compiled
<1> QED BY <1>1, <1>2

\* A call of a bundle is one of its elements.
LEMMA OfBundle ==
  ASSUME NEW S, NEW q \in Seq(S), NEW i \in 1..Len(q), Len(q) \in 1..MaxCalls
  PROVE  q[i] \in S /\ i \in 1..MaxCalls /\ q[i] \in Elements(q)
<1>1. i \in DOMAIN q /\ q[i] \in S
  OBVIOUS
<1>2. i \in 1..MaxCalls
  BY BoundAssumption
<1> QED BY <1>1, <1>2 DEF Elements

\* A call of a bundle has its effect, and takes none away.
LEMMA StoresEffects ==
  ASSUME Types, Effects, NEW a \in 1..attempt, NEW i \in 1..Len(CallsOf(tried[a])),
         Stores(CallsOf(tried[a])[i], ids[a, i]), UNCHANGED <<ids, tried>>
  PROVE  /\ Shape(objects') /\ Part(objects, objects') /\ IdsAreNumbers' /\ SettingsAsked'
         /\ ObjectsAsked(objects') /\ Kept(CallsOf(tried[a])[i], objects', settings')
         /\ \A f \in Form : \A d \in Calls(f) : Kept(d, objects, settings) => Kept(d, objects', settings')
<1> DEFINE f == tried[a]
           c == CallsOf(f)[i]
           n == ids[a, i]
<1>1. /\ f \in Form /\ f \in Elements(tried) /\ a \in 1..MaxAttempts
      /\ CallsOf(f) \in Seq(Calls(f)) /\ Len(CallsOf(f)) \in 1..MaxCalls
  BY Submitted
<1>2. c \in Calls(f) /\ i \in 1..MaxCalls /\ c \in Elements(CallsOf(f))
  BY <1>1, OfBundle
<1>3. n \in Nat
  <2>1. <<a, i>> \in (1..MaxAttempts) \X (1..MaxCalls)
    BY <1>1, <1>2
  <2> QED BY <2>1, NumberingsAssumption DEF Effects, IdsAreNumbers
<1>4. IdsAreNumbers'
  BY DEF Effects, IdsAreNumbers
<1>5. CASE c.op = "create"
  <2>1. /\ objects' = [objects EXCEPT ![c.in] = @ \cup {[c.what EXCEPT !.id = n]}]
        /\ UNCHANGED settings
    BY <1>5 DEF Stores
  <2>2. c \in Creates /\ c.in \in {"policies", "nats", "rules"}
    BY <1>1, <1>2, <1>5, CallIs
  <2> HIDE DEF c, n
  <2>3. /\ Shape(objects') /\ [c.what EXCEPT !.id = n] \in objects'[c.in]
        /\ \A x \in {"policies", "nats", "rules"} :
             /\ objects[x] \subseteq objects'[x]
             /\ \A y \in objects'[x] : y \in objects[x] \/ (x = c.in /\ y = [c.what EXCEPT !.id = n])
    <3>1. Shape(objects)
      BY DEF Effects
    <3>2. ASSUME NEW p, p = [objects EXCEPT ![c.in] = @ \cup {[c.what EXCEPT !.id = n]}]
          PROVE  Shape(p) /\ [c.what EXCEPT !.id = n] \in p[c.in] /\ Grown(objects, p, c, n)
      BY <1>3, <2>2, <3>1, <3>2, AddedTo
    <3> HIDE DEF Shape
    <3> QED BY <2>1, <3>2 DEF Grown
  <2>4. Kept(c, objects', settings')
    BY <1>3, <1>5, <2>3 DEF Kept
  <2>5. ASSUME NEW g \in Form, NEW d \in Calls(g), Kept(d, objects, settings)
        PROVE  Kept(d, objects', settings')
    <3>1. CASE d.op = "create"
      <4>1. d.in \in {"policies", "nats", "rules"}
        BY <3>1, CallIs
      <4> QED BY <2>3, <2>5, <3>1, <4>1 DEF Kept
    <3>2. CASE d.op # "create"
      BY <2>1, <2>5, <3>2 DEF Kept
    <3> QED BY <3>1, <3>2
  <2>6. SettingsAsked'
    BY <2>1 DEF Effects, SettingsAsked
  <2>7. Part(objects, objects')
    BY <2>3 DEF Part
  <2>8. ObjectsAsked(objects')
    <3> SUFFICES ASSUME NEW x \in {"policies", "nats", "rules"}, NEW y \in objects'[x]
                 PROVE  \E g \in Elements(tried) : AskedBy(g, x, y)
      BY DEF ObjectsAsked
    <3>1. CASE y \in objects[x]
      BY <3>1 DEF Effects, ObjectsAsked
    <3>2. CASE x = c.in /\ y = [c.what EXCEPT !.id = n]
      <4>1. AskedBy(f, x, y)
        BY <1>2, <1>3, <1>5, <3>2 DEF AskedBy
      <4> QED BY <1>1, <4>1
    <3> QED BY <2>3, <3>1, <3>2
  <2> QED BY <1>4, <2>3, <2>4, <2>5, <2>6, <2>7, <2>8 DEF c
<1>6. ASSUME UNCHANGED objects PROVE Shape(objects') /\ Part(objects, objects') /\ ObjectsAsked(objects')
  <2>1. ObjectsAsked(objects')
    BY <1>6 DEF Effects, ObjectsAsked
  <2>2. Shape(objects') /\ Part(objects, objects')
    BY <1>6 DEF Effects, Part
  <2> QED BY <2>1, <2>2
<1>7. CASE c.op = "set"
  <2>1. /\ settings' = [k \in DOMAIN settings \cup {c.in} |-> IF k = c.in THEN c.what ELSE settings[k]]
        /\ UNCHANGED objects
    BY <1>7 DEF Stores
  <2>2. <<c.in, c.what>> \in Values(f)
    BY <1>1, <1>2, <1>7, CallIs
  <2> HIDE DEF c
  <2>3. Kept(c, objects', settings')
    BY <1>7, <2>1 DEF Kept
  <2>4. \A d : Kept(d, objects, settings) => Kept(d, objects', settings')
    BY <2>1 DEF Kept
  <2>5. SettingsAsked'
    <3> SUFFICES ASSUME NEW k \in DOMAIN settings'
                 PROVE  \E g \in Elements(tried) : <<k, settings'[k]>> \in Values(g)
      BY DEF SettingsAsked
    <3>1. CASE k = c.in
      BY <1>1, <2>1, <2>2, <3>1
    <3>2. CASE k # c.in
      BY <2>1, <3>2 DEF Effects, SettingsAsked
    <3> QED BY <3>1, <3>2
  <2> QED BY <1>4, <1>6, <2>1, <2>3, <2>4, <2>5 DEF c
<1>8. CASE c.op = "apply"
  <2>1. UNCHANGED <<objects, settings>>
    BY <1>8 DEF Stores
  <2> HIDE DEF c
  <2>2. Kept(c, objects', settings') /\ \A d : Kept(d, objects, settings) => Kept(d, objects', settings')
    BY <1>8, <2>1 DEF Kept
  <2>3. SettingsAsked'
    BY <2>1 DEF Effects, SettingsAsked
  <2> QED BY <1>4, <1>6, <2>1, <2>2, <2>3 DEF c
<1>9. c.op \in {"create", "set", "apply"}
  BY <1>1, <1>2, CallIs
<1> QED BY <1>5, <1>7, <1>8, <1>9

\* So has a call the daemon makes, and the table stays compiled from what was stored.
LEMMA MakeEffects ==
  ASSUME Types, Effects, NEW a \in 1..attempt, NEW i \in 1..Len(CallsOf(tried[a])), Make(a, i),
         UNCHANGED <<ids, tried>>
  PROVE  /\ Shape(objects') /\ Compiled' /\ IdsAreNumbers' /\ SettingsAsked'
         /\ ObjectsAsked(objects') /\ Kept(CallsOf(tried[a])[i], objects', settings')
         /\ \A f \in Form : \A d \in Calls(f) : Kept(d, objects, settings) => Kept(d, objects', settings')
<1>1. Stores(CallsOf(tried[a])[i], ids[a, i]) /\ (Applies \/ ApplyFails)
  BY DEF Make
<1>2. Shape(objects') /\ Part(objects, objects')
  BY <1>1, StoresEffects
<1>3. Compiled'
  BY <1>1, <1>2, StillCompiled DEF Effects
<1> QED BY <1>1, <1>3, StoresEffects

\* The daemon makes the next call of an attempt: its effect is there, the log is within the bundle.
LEMMA Made ==
  ASSUME Whole, NEW a \in 1..attempt, Make(a, Len(log[a]) + 1), UNCHANGED <<ids, tried>>,
         Len(log[a]) + 1 <= Len(CallsOf(tried[a]))
  PROVE  /\ Effects' /\ attempt' = attempt
         /\ \A b \in 1..attempt : Len(log'[b]) <= Len(CallsOf(tried[b]))
         /\ Len(log'[a]) = Len(log[a]) + 1
         /\ \A b \in 1..attempt : b # a => log'[b] = log[b]
<1> DEFINE i == Len(log[a]) + 1
<1>1. Types /\ StoredInOrder /\ Effects /\ Within
  BY DEF Whole, Ordered
<1>2. a \in 1..MaxAttempts /\ 1..attempt \subseteq 1..MaxAttempts /\ attempt' = attempt
  BY <1>1, BoundAssumption DEF Types, attempt
<1>3. /\ Len(log'[a]) = Len(log[a]) + 1
      /\ \A b \in 1..MaxAttempts : b # a => log'[b] = log[b]
  BY <1>1, <1>2, MakeNext
<1>4. \A b \in 1..attempt : Len(log[b]) \in Nat /\ Len(log[b]) <= Len(CallsOf(tried[b]))
  BY <1>1, <1>2 DEF Types, Within
<1>5. \A b \in 1..attempt : tried[b] \in Form /\ CallsOf(tried[b]) \in Seq(Calls(tried[b]))
  BY <1>1, Submitted
<1>6. i \in 1..Len(CallsOf(tried[a]))
  BY <1>4, <1>5
<1>7. \A b \in 1..attempt : Len(log'[b]) <= Len(CallsOf(tried[b]))
  BY <1>2, <1>3, <1>4
<1>8. /\ Shape(objects') /\ Compiled' /\ IdsAreNumbers' /\ SettingsAsked' /\ ObjectsAsked(objects')
      /\ Kept(CallsOf(tried[a])[i], objects', settings')
      /\ \A f \in Form : \A d \in Calls(f) : Kept(d, objects, settings) => Kept(d, objects', settings')
  BY <1>1, <1>6, MakeEffects
<1>9. AllKept'
  <2> SUFFICES ASSUME NEW b \in 1..attempt, NEW j \in 1..Len(log'[b])
               PROVE  Kept(CallsOf(tried[b])[j], objects', settings')
    BY <1>2 DEF AllKept
  <2>1. CASE j \in 1..Len(log[b])
    <3>1. CallsOf(tried[b])[j] \in Calls(tried[b])
      BY <1>4, <1>5, <2>1
    <3>2. Kept(CallsOf(tried[b])[j], objects, settings)
      BY <1>1, <2>1 DEF Effects, AllKept
    <3> QED BY <1>5, <1>8, <3>1, <3>2
  <2>2. CASE j \notin 1..Len(log[b])
    <3>1. b = a
      <4>1. ASSUME b # a PROVE FALSE
        <5>1. log'[b] = log[b]
          BY <1>2, <1>3, <4>1
        <5> QED BY <2>2, <5>1
      <4> QED BY <4>1
    <3>2. j \in 1..(Len(log[a]) + 1) /\ j \notin 1..Len(log[a]) /\ Len(log[a]) \in Nat
      BY <1>3, <1>4, <2>2, <3>1
    <3>3. j = i
      BY <3>2
    <3> QED BY <1>8, <3>1, <3>3
  <2> QED BY <2>1, <2>2
<1>10. Effects'
  <2>1. ObjectsAsked(objects)'
    BY <1>8 DEF ObjectsAsked
  <2>2. Shape(objects)'
    BY <1>8 DEF Shape
  <2> QED BY <1>8, <1>9, <2>1, <2>2 DEF Effects
<1> QED BY <1>2, <1>3, <1>7, <1>10

\* What is stored and in force stays as long as nothing changes.
LEMMA SameTable ==
  ASSUME UNCHANGED <<objects, table, source>>
  PROVE  (Compiled => Compiled') /\ (Shape(objects) => Shape(objects)')
<1>1. F!Script(source') = F!Script(source)
  OBVIOUS
<1>2. Shape(source) => Shape(source)'
  BY DEF Shape
<1>3. Part(source, objects) => Part(source, objects)'
  BY DEF Part
<1> QED BY <1>1, <1>2, <1>3 DEF Compiled, Shape

\* A step that makes no call and submits no form leaves what the daemon keeps.
LEMMA NothingMade ==
  ASSUME Effects, UNCHANGED <<objects, settings, table, source, log, ids, tried>>
  PROVE  Effects' /\ attempt' = attempt
<1>1. attempt' = attempt
  BY DEF attempt
<1>2. Shape(objects)' /\ Compiled' /\ IdsAreNumbers'
  BY SameTable DEF Effects, IdsAreNumbers
<1>3. AllKept' /\ SettingsAsked' /\ ObjectsAsked(objects)'
  BY <1>1 DEF Effects, AllKept, SettingsAsked, ObjectsAsked
<1> QED BY <1>1, <1>2, <1>3 DEF Effects

\* The invariant holds at the start.
LEMMA InitWhole == Init => Whole
<1> SUFFICES ASSUME Init PROVE Whole
  OBVIOUS
<1>1. Ordered
  BY InitOrdered
<1>2. attempt = 0 /\ done = {} /\ late = {} /\ next = 1 /\ state = "form" /\ ids \in Numberings
  BY DEF Init, attempt
<1>3. Within /\ Finished
  BY <1>2 DEF Within, Finished
<1>4. Shape(objects) /\ source = objects
  BY DEF Init, Shape, F!Nothing
<1>5. Compiled
  <2>1. F!Asked(objects) = {}
    BY DEF Init, F!Asked, F!Nothing, F!Leaves, F!AutoNAT, F!Expand
  <2>2. F!Script(objects) = {}
    BY <2>1 DEF F!Script, F!Dedupe
  <2> QED BY <1>4, <2>2 DEF Init, Compiled, Part
<1>6. AllKept /\ SettingsAsked /\ ObjectsAsked(objects)
  BY <1>2 DEF AllKept, SettingsAsked, ObjectsAsked, Init, F!Nothing
<1> QED BY <1>1, <1>2, <1>3, <1>4, <1>5, <1>6 DEF Whole, Effects, IdsAreNumbers

\* Every step keeps it.
LEMMA NextWhole == Whole /\ [Next]_vars => Whole'
<1> SUFFICES ASSUME Whole, [Next]_vars PROVE Whole'
  OBVIOUS
<1>1. Ordered' /\ Ordered /\ Types /\ Types' /\ Within /\ Finished /\ Effects
  BY NextOrdered DEF Whole, Ordered
<1>2. \A a \in 1..attempt : /\ Len(CallsOf(tried[a])) \in Nat /\ Len(CallsOf(tried[a])) >= 1
                            /\ Len(log[a]) \in Nat /\ a \in 1..MaxAttempts
  BY <1>1, Submitted, BoundAssumption DEF Types
<1>3. attempt \in Nat /\ next \in Nat
  BY <1>1 DEF Types
<1>4. ASSUME NEW f \in Forms, Submit(f) PROVE Within' /\ Finished' /\ Effects'
  <2>1. /\ tried' = Append(tried, f) /\ state # "running" /\ state' = "running"
        /\ UNCHANGED <<objects, settings, table, source, log, ids, next, call, done, late>>
    BY <1>4 DEF Submit, daemonVars, kernelVars
  <2>2. attempt' = attempt + 1 /\ \A a \in 1..attempt : tried'[a] = tried[a]
    BY <1>1, <2>1 DEF attempt, Types
  <2>3. next = 1 /\ log[attempt'] = <<>> /\ Len(log[attempt']) = 0
    BY <1>1, <1>3, <2>1, <2>2 DEF Ordered, Rested, Ahead, Types
  <2>4. Len(CallsOf(tried'[attempt'])) >= 1
    <3>1. tried'[attempt'] = f /\ f \in Form
      BY <1>1, <1>3, <2>1, <2>2, FormsAssumption DEF Types, attempt
    <3> QED BY <3>1, CallsAre
  <2>5. \A l \in late : l[1] \in 1..attempt
    BY <1>1 DEF Types
  <2>6. \A a \in 1..attempt' : a \in 1..attempt \/ a = attempt'
    BY <1>3, <2>2
  <2>7. Len(CallsOf(tried'[attempt'])) \in Nat
    <3>1. tried'[attempt'] = f /\ f \in Form
      BY <1>1, <1>3, <2>1, <2>2, FormsAssumption DEF Types, attempt
    <3> QED BY <3>1, CallsAre
  <2>8. Within'
    <3> DEFINE n == Len(CallsOf(tried'[attempt']))
    <3>0. next' = 1 /\ log' = log /\ n >= 1 /\ n \in Nat
      BY <2>1, <2>3, <2>4, <2>7
    <3> HIDE DEF n
    <3>1. next' >= 1 /\ next' <= n
      BY <3>0
    <3>2. \A l \in late' : l[2] <= Len(CallsOf(tried'[l[1]]))
      BY <1>1, <2>1, <2>2, <2>5 DEF Within
    <3>3. \A a \in 1..attempt' : Len(log'[a]) <= Len(CallsOf(tried'[a]))
      <4>1. ASSUME NEW a \in 1..attempt PROVE Len(log'[a]) <= Len(CallsOf(tried'[a]))
        BY <1>1, <2>2, <3>0 DEF Within
      <4>2. Len(log'[attempt']) = 0
        BY <2>3, <3>0
      <4>3. Len(log'[attempt']) <= n
        BY <3>0, <4>2
      <4> QED BY <2>6, <4>1, <4>3 DEF n
    <3> QED BY <3>1, <3>2, <3>3 DEF Within, n
  <2>9. Finished'
    <3>1. attempt' \notin done /\ done \subseteq 1..attempt'
      BY <1>1, <1>3, <2>2 DEF Finished
    <3>2. \A a \in done : Len(log[a]) = Len(CallsOf(tried'[a]))
      BY <1>1, <2>2 DEF Finished
    <3> QED BY <2>1, <3>1, <3>2 DEF Finished
  <2>10. AllKept'
    <3> SUFFICES ASSUME NEW a \in 1..attempt', NEW i \in 1..Len(log'[a])
                 PROVE  Kept(CallsOf(tried'[a])[i], objects', settings')
      BY DEF AllKept
    <3>1. a \in 1..attempt
      BY <2>1, <2>3, <2>6
    <3> QED BY <1>1, <2>1, <2>2, <3>1 DEF Effects, AllKept
  <2>11. SettingsAsked' /\ ObjectsAsked(objects)'
    <3>1. \A g \in Elements(tried) : g \in Elements(tried')
      <4>1. \A i \in DOMAIN tried : i \in DOMAIN tried' /\ tried'[i] = tried[i]
        BY <1>1, <2>1 DEF Types
      <4> QED BY <4>1 DEF Elements
    <3>2. SettingsAsked'
      BY <1>1, <2>1, <3>1 DEF Effects, SettingsAsked
    <3>3. ObjectsAsked(objects)'
      BY <1>1, <2>1, <3>1 DEF Effects, ObjectsAsked
    <3> QED BY <3>2, <3>3
  <2>12. Shape(objects)' /\ Compiled' /\ IdsAreNumbers'
    BY <1>1, <2>1, SameTable DEF Effects, IdsAreNumbers
  <2> QED BY <2>8, <2>9, <2>10, <2>11, <2>12 DEF Effects
<1>5. CASE Handle
  <2>1. /\ state = "running" /\ call = "sent" /\ Make(attempt, next)
        /\ UNCHANGED <<ids, tried, state, next, done, late>>
    BY <1>5 DEF Handle
  <2>2. attempt \in 1..attempt /\ next = Len(log[attempt]) + 1 /\ next <= Len(CallsOf(tried[attempt]))
    BY <1>1, <2>1 DEF Types, RunningIsNext, Ordered, Within
  <2>3. /\ Effects' /\ attempt' = attempt
        /\ \A b \in 1..attempt : Len(log'[b]) <= Len(CallsOf(tried[b]))
        /\ \A b \in 1..attempt : b # attempt => log'[b] = log[b]
    BY <2>1, <2>2, Made
  <2>4. Within' /\ Finished'
    BY <1>1, <2>1, <2>3 DEF Within, Finished
  <2> QED BY <1>1, <2>3, <2>4 DEF Whole
<1>6. CASE HandleLate
  <2>1. PICK l \in late : /\ Make(l[1], l[2]) /\ late' = late \ {l}
                          /\ UNCHANGED <<ids, tried, state, next, call, done>>
    BY <1>6 DEF HandleLate, uiVars
  <2>2. l[1] \in 1..attempt /\ l[2] = Len(log[l[1]]) + 1 /\ l[2] <= Len(CallsOf(tried[l[1]]))
    BY <1>1 DEF Types, LateIsNext, Ordered, Within
  <2>3. /\ Effects' /\ attempt' = attempt
        /\ \A b \in 1..attempt : Len(log'[b]) <= Len(CallsOf(tried[b]))
        /\ \A b \in 1..attempt : b # l[1] => log'[b] = log[b]
    BY <2>1, <2>2, Made
  <2>4. l[1] \notin done
    BY <1>1, <1>2, <2>2 DEF Finished
  <2>5. Within' /\ Finished'
    BY <1>1, <2>1, <2>3, <2>4 DEF Within, Finished
  <2> QED BY <1>1, <2>3, <2>5 DEF Whole
<1>7. ASSUME state = "running", GoOn, call = "made" PROVE Within' /\ Finished' /\ Effects'
  <2>1. /\ UNCHANGED <<objects, settings, table, source, log, ids, tried, late>>
        /\ next' = IF IsLast(tried[attempt], next) THEN 1 ELSE next + 1
        /\ IF IsLast(tried[attempt], next)
           THEN state' = "done" /\ done' = done \cup {attempt}
           ELSE UNCHANGED <<state, done>>
    BY <1>7 DEF GoOn, daemonVars, kernelVars
  <2>2. Effects' /\ attempt' = attempt
    BY <1>1, <2>1, NothingMade
  <2>3. attempt \in 1..attempt /\ next = Len(log[attempt]) /\ next <= Len(CallsOf(tried[attempt]))
    BY <1>1, <1>7 DEF Types, RunningIsNext, Ordered, Within
  <2>4. CASE IsLast(tried[attempt], next)
    <3>1. next' = 1 /\ state' = "done" /\ done' = done \cup {attempt} /\ next = Len(CallsOf(tried[attempt]))
      BY <2>1, <2>4 DEF IsLast
    <3>2. Within'
      BY <1>1, <2>1, <2>2, <3>1 DEF Within
    <3>3. Finished'
      BY <1>1, <2>1, <2>2, <2>3, <3>1 DEF Finished
    <3> QED BY <2>2, <3>2, <3>3
  <2>5. CASE ~IsLast(tried[attempt], next)
    <3>1. next' = next + 1 /\ UNCHANGED <<state, done>> /\ next # Len(CallsOf(tried[attempt]))
      BY <2>1, <2>5 DEF IsLast
    <3>2. next' >= 1 /\ next' <= Len(CallsOf(tried[attempt]))
      BY <1>2, <1>3, <2>3, <3>1
    <3>3. Within'
      BY <1>1, <2>1, <2>2, <3>2 DEF Within
    <3>4. Finished'
      BY <1>1, <2>1, <2>2, <3>1 DEF Finished
    <3> QED BY <2>2, <3>3, <3>4
  <2> QED BY <2>4, <2>5
<1>8. ASSUME Fail, UNCHANGED late PROVE Within' /\ Finished' /\ Effects'
  <2>1. /\ UNCHANGED <<objects, settings, table, source, log, ids, tried, done, late>>
        /\ next' = 1 /\ state' = "failed"
    BY <1>8 DEF Fail, daemonVars, kernelVars
  <2>2. Effects' /\ attempt' = attempt
    BY <1>1, <2>1, NothingMade
  <2>3. Within' /\ Finished'
    BY <1>1, <2>1, <2>2 DEF Within, Finished
  <2> QED BY <2>2, <2>3
<1>9. CASE TimeOut
  <2>1. /\ UNCHANGED <<objects, settings, table, source, log, ids, tried, done>>
        /\ next' = 1 /\ state' = "failed" /\ late' = late \cup {<<attempt, next>>} /\ state = "running"
    BY <1>9 DEF TimeOut, Fail, daemonVars, kernelVars
  <2>2. Effects' /\ attempt' = attempt
    BY <1>1, <2>1, NothingMade
  <2>3. next <= Len(CallsOf(tried[attempt]))
    BY <1>1, <2>1 DEF Within
  <2>4. \A l \in late' : l[2] <= Len(CallsOf(tried'[l[1]]))
    BY <1>1, <2>1, <2>3 DEF Within
  <2>5. Within' /\ Finished'
    BY <1>1, <2>1, <2>2, <2>4 DEF Within, Finished
  <2> QED BY <1>1, <2>2, <2>5 DEF Whole
<1>10. ASSUME UNCHANGED <<daemonVars, ids, tried, state, next, done, late>>
       PROVE  Within' /\ Finished' /\ Effects'
  <2>1. UNCHANGED <<objects, settings, table, source, log, ids, tried, state, next, done, late>>
    BY <1>10 DEF daemonVars, kernelVars
  <2>2. Effects' /\ attempt' = attempt
    BY <1>1, <2>1, NothingMade
  <2>3. Within' /\ Finished'
    BY <1>1, <2>1, <2>2 DEF Within, Finished
  <2> QED BY <2>2, <2>3
<1>11. CASE Refuse
  BY <1>1, <1>10, <1>11 DEF Refuse, Whole
<1>12. CASE UNCHANGED vars
  BY <1>1, <1>10, <1>12 DEF vars, uiVars, Whole
<1>13. ASSUME Within', Finished', Effects' PROVE Whole'
  BY <1>1, <1>13 DEF Whole
<1> QED
  BY <1>4, <1>5, <1>6, <1>7, <1>8, <1>9, <1>11, <1>12, <1>13 DEF Next, Reply, ReplyRefused, Lost

\* What an attempt that succeeded asked for is there.
LEMMA SuccessKept ==
  ASSUME Whole, NEW f \in Completed
  PROVE  /\ f \in Form /\ f \in Forms
         /\ \A c \in Elements(CallsOf(f)) : c \in Calls(f) /\ Kept(c, objects, settings)
<1>1. PICK a \in done : f = tried[a]
  BY DEF Completed
<1>2. Types /\ AllKept /\ a \in 1..attempt /\ Len(log[a]) = Len(CallsOf(f))
  BY <1>1 DEF Whole, Ordered, Effects, Finished
<1>3. f \in Form /\ f \in Forms /\ CallsOf(f) \in Seq(Calls(f))
  BY <1>1, <1>2, Submitted
<1>4. ASSUME NEW c \in Elements(CallsOf(f)) PROVE c \in Calls(f) /\ Kept(c, objects, settings)
  <2>1. PICK i \in DOMAIN CallsOf(f) : c = CallsOf(f)[i]
    BY DEF Elements
  <2>2. i \in 1..Len(log[a])
    BY <1>2, <1>3, <2>1
  <2> QED BY <1>1, <1>2, <1>3, <2>1, <2>2 DEF AllKept
<1> QED BY <1>3, <1>4

\* What succeeded is complete.
LEMMA WholeComplete == Whole => DoneIsComplete
<1> SUFFICES ASSUME Whole, NEW f \in Completed, NEW c \in Elements(CallsOf(f))
             PROVE  /\ c.op = "create" => c.what \in Anonymous(objects[c.in])
                    /\ c.op = "set" /\ Elements(tried) = {f}
                       => c.in \in DOMAIN settings /\ settings[c.in] = c.what
  BY DEF DoneIsComplete
<1>1. f \in Form /\ c \in Calls(f) /\ Kept(c, objects, settings)
  BY SuccessKept
<1>2. CASE c.op = "create"
  <2>1. PICK n \in Nat : [c.what EXCEPT !.id = n] \in objects[c.in]
    BY <1>1, <1>2 DEF Kept
  <2>2. [[c.what EXCEPT !.id = n] EXCEPT !.id = 0] = c.what
    BY <1>1, <1>2, CallIs, Renumbered
  <2>3. [[c.what EXCEPT !.id = n] EXCEPT !.id = 0] \in Anonymous(objects[c.in])
    BY <2>1, Zenon DEF Anonymous
  <2> QED BY <1>2, <2>2, <2>3
<1>3. CASE c.op # "create"
  <2> SUFFICES ASSUME c.op = "set", Elements(tried) = {f}
               PROVE  c.in \in DOMAIN settings /\ settings[c.in] = c.what
    BY <1>3
  <2>1. c.in \in DOMAIN settings
    BY <1>1 DEF Kept
  <2>2. <<c.in, settings[c.in]>> \in Values(f)
    BY <2>1 DEF Whole, Effects, SettingsAsked
  <2>3. <<c.in, c.what>> \in Values(f)
    BY <1>1, CallIs
  <2> QED BY <1>1, <2>1, <2>2, <2>3, OneValue
<1> QED BY <1>2, <1>3

-----------------------------------------------------------------------------
(* Rules in force                                                            *)

\* A set of numbers has a smallest one.
LEMMA Smallest == ASSUME NEW S \in SUBSET Nat, S # {} PROVE \E i \in S : \A j \in S : i <= j
<1> DEFINE Below == {p \in Nat \X Nat : p[1] < p[2]}
<1>1. IsWellFoundedOn(Below, Nat)
  BY NatLessThanWellFounded DEF OpToRel
<1>2. PICK i \in S : \A j \in S : ~(<<j, i>> \in Below)
  BY <1>1, WFMin
<1>3. ASSUME NEW j \in S PROVE i <= j
  <2>1. i \in Nat /\ j \in Nat /\ (j < i => <<j, i>> \in Below)
    OBVIOUS
  <2> QED BY <1>2, <2>1
<1> QED BY <1>3

\* Which of two rules of a class is in front.
Earlier(q, r) == q.prio < r.prio \/ (q.prio = r.prio /\ q.id < r.id)

\* Of some rules one is not preceded.
LEMMA FirstOf ==
  ASSUME NEW S, S # {}, \A r \in S : r.prio \in Nat /\ r.id \in Nat
  PROVE  \E r \in S : \A q \in S : ~Earlier(q, r)
<1> DEFINE prios == {r.prio : r \in S}
<1>1. PICK p \in prios : \A n \in prios : p <= n
  <2>1. prios \in SUBSET Nat /\ prios # {}
    OBVIOUS
  <2> QED BY <2>1, Smallest
<1> DEFINE best == {r \in S : r.prio = p}
           numbers == {r.id : r \in best}
<1>2. PICK i \in numbers : \A n \in numbers : i <= n
  <2>1. numbers \in SUBSET Nat /\ numbers # {}
    BY <1>1
  <2> QED BY <2>1, Smallest
<1>3. PICK r \in best : r.id = i
  BY <1>2
<1>4. ASSUME NEW q \in S PROVE ~Earlier(q, r)
  <2>1. p <= q.prio /\ (q.prio = p => i <= q.id)
    BY <1>1, <1>2
  <2> QED BY <1>3, <2>1 DEF Earlier
<1> QED BY <1>3, <1>4

\* Of the rules alike one is kept, and it is in front.
LEMMA OneKept ==
  ASSUME NEW S, NEW r \in S, \A q \in S : q.class \in Nat /\ q.prio \in Nat /\ q.id \in Nat
  PROVE  \E q \in F!Dedupe(S) :
           F!SameFingerprint(q, r) /\ q.class <= r.class /\ (q.class = r.class => q.prio <= r.prio)
<1> DEFINE alike   == {q \in S : F!SameFingerprint(q, r)}
           classes == {q.class : q \in alike}
<1>1. r \in alike
  BY DEF F!SameFingerprint
<1>2. \A q \in alike : \A x \in S : F!SameFingerprint(x, q) => x \in alike
  BY DEF F!SameFingerprint
<1>3. \A q \in alike : q \in S /\ F!SameFingerprint(q, r)
  OBVIOUS
<1> HIDE DEF alike
<1>4. PICK c \in classes : \A n \in classes : c <= n
  <2>1. classes \in SUBSET Nat /\ classes # {}
    BY <1>1, <1>3
  <2> QED BY <2>1, Smallest
<1> DEFINE inClass == {q \in alike : q.class = c}
<1>5. PICK q \in inClass : \A x \in inClass : ~Earlier(x, q)
  <2>1. inClass # {} /\ \A x \in inClass : x.prio \in Nat /\ x.id \in Nat
    BY <1>3, <1>4
  <2> QED BY <2>1, FirstOf
<1>6. q \in S /\ F!SameFingerprint(q, r) /\ q.class = c /\ c <= r.class
  BY <1>1, <1>3, <1>4, <1>5
<1>7. q \in F!Dedupe(S)
  <2> SUFFICES ASSUME NEW x \in S, F!SameFingerprint(x, q), F!InFront(x, q) PROVE FALSE
    BY <1>6 DEF F!Dedupe
  <2>1. x \in alike /\ c <= x.class /\ x.class \in Nat
    BY <1>2, <1>4, <1>5
  <2>2. x.class = c /\ Earlier(x, q)
    BY <1>4, <1>6, <2>1 DEF F!InFront, Earlier
  <2> QED BY <1>5, <2>1, <2>2
<1>8. q.class = r.class => q.prio <= r.prio
  <2> SUFFICES ASSUME q.class = r.class PROVE q.prio <= r.prio
    OBVIOUS
  <2>1. r \in inClass
    BY <1>1, <1>6
  <2>2. ~Earlier(r, q) /\ q.prio \in Nat /\ r.prio \in Nat
    BY <1>5, <1>6, <2>1
  <2> QED BY <2>2 DEF Earlier
<1> QED BY <1>6, <1>7, <1>8

\* Something without its id.
Zero(x) == [x EXCEPT !.id = 0]

\* Rules that differ in their id only, and rules that differ in priority and class too.
LEMMA ZeroIs ==
  ASSUME NEW q, NEW r, IsRule(q), IsRule(r)
  PROVE  /\ Zero(q) = Zero(r) <=> \A x \in Attributes : x # "id" => q[x] = r[x]
         /\ F!SameFingerprint(q, r) <=>
              \A x \in Attributes : x \notin {"class", "id", "prio"} => q[x] = r[x]
<1>1. /\ DOMAIN Zero(q) = Attributes /\ DOMAIN Zero(r) = Attributes
      /\ Zero(q) = [x \in Attributes |-> IF x = "id" THEN 0 ELSE q[x]]
      /\ Zero(r) = [x \in Attributes |-> IF x = "id" THEN 0 ELSE r[x]]
  BY DEF Zero, IsRule, Attributes
<1>2. Zero(q) = Zero(r) <=> \A x \in Attributes : x # "id" => q[x] = r[x]
  <2>1. ASSUME Zero(q) = Zero(r), NEW x \in Attributes, x # "id" PROVE q[x] = r[x]
    <3>1. Zero(q)[x] = q[x] /\ Zero(r)[x] = r[x]
      BY <1>1, <2>1
    <3> QED BY <2>1, <3>1
  <2>2. ASSUME \A x \in Attributes : x # "id" => q[x] = r[x] PROVE Zero(q) = Zero(r)
    BY <1>1, <2>2
  <2> QED BY <2>1, <2>2
<1> DEFINE print(s) == [[[s EXCEPT !.class = 0] EXCEPT !.id = 0] EXCEPT !.prio = 0]
<1>3. ASSUME NEW s, IsRule(s)
      PROVE  print(s) = [x \in Attributes |-> IF x \in {"class", "id", "prio"} THEN 0 ELSE s[x]]
  BY <1>3 DEF IsRule, Attributes
<1>4. F!SameFingerprint(q, r) <=> print(q) = print(r)
  BY DEF F!SameFingerprint
<1> HIDE DEF print
<1>5. /\ print(q) = [x \in Attributes |-> IF x \in {"class", "id", "prio"} THEN 0 ELSE q[x]]
      /\ print(r) = [x \in Attributes |-> IF x \in {"class", "id", "prio"} THEN 0 ELSE r[x]]
  BY <1>3
<1>6. print(q) = print(r) <=> \A x \in Attributes : x \notin {"class", "id", "prio"} => q[x] = r[x]
  <2>1. ASSUME print(q) = print(r), NEW x \in Attributes, x \notin {"class", "id", "prio"} PROVE q[x] = r[x]
    <3>1. print(q)[x] = q[x] /\ print(r)[x] = r[x]
      BY <1>5, <2>1
    <3> QED BY <2>1, <3>1
  <2>2. ASSUME \A x \in Attributes : x \notin {"class", "id", "prio"} => q[x] = r[x] PROVE print(q) = print(r)
    BY <1>5, <2>2
  <2> QED BY <2>1, <2>2
<1> QED BY <1>2, <1>4, <1>6

\* What is asked for, once bundles have stored something.
LEMMA StoredRules ==
  ASSUME NEW r \in Stored(BundleRules)
  PROVE  /\ IsRule(r) /\ r.class = 0 /\ r.id \in Nat /\ r.prio \in Nat /\ r.to = Any
         /\ \/ r.prio = 10 /\ r.action = "accept" /\ r.kinds = Established
            \/ r.prio = 40 /\ r.action = "accept"
            \/ r.prio = 50 /\ r.action = "drop"
            \/ r.prio = 100 /\ r.action = "accept"
<1>1. PICK w \in BundleRules, n \in Nat : r = [w EXCEPT !.id = n]
  BY DEF Stored
<1> HIDE DEF Established
<1>2. /\ IsRule(w) /\ w.class = 0 /\ w.to = Any
      /\ \/ w.prio = 10 /\ w.action = "accept" /\ w.kinds = Established
         \/ w.prio = 40 /\ w.action = "accept"
         \/ w.prio = 50 /\ w.action = "drop"
         \/ w.prio = 100 /\ w.action = "accept"
  BY RulesAre
<1>3. IsRule(r)
  BY <1>1, <1>2 DEF IsRule
<1> QED BY <1>1, <1>2, <1>3 DEF IsRule, Attributes

\* No list is called like no list.
LEMMA AnyIsUnknown == ~F!Known(Any, KnownLists)
BY ListsAssumption, NamesAssumption DEF F!Known

\* The entries that are rendered: lists are expanded.
Entries(o) == UNION {F!Expand(m, o.lists) : m \in o.nats \cup F!AutoNAT(o)}

\* NAT entries that lack their id are records of the other attributes.
NATFields == {"id", "kind", "to", "src", "srcList", "out"}
IsNAT(n) == DOMAIN n = NATFields /\ n = [x \in NATFields |-> n[x]] /\ n.id \in Nat

\* Stored and derived entries are such records.
LEMMA NATsAre ==
  ASSUME NEW o, Shape(o)
  PROVE  /\ \A n \in o.nats : IsNAT(n)
         /\ \A n \in F!AutoNAT(o) : IsNAT(n) /\ n.srcList = Any
         /\ \A p \in o.policies : p.id \in Nat /\ p.action = "egress"
<1>1. \A p \in o.policies : p.id \in Nat /\ p.action = "egress"
  BY DEF Shape, Stored, BundlePolicies, Policy
<1>2. ASSUME NEW n \in o.nats PROVE IsNAT(n)
  <2>1. PICK w \in BundleNATs, i \in Nat : n = [w EXCEPT !.id = i]
    BY DEF Shape, Stored
  <2>2. PICK s \in Ends, l \in MaybeList, d \in Devices, t \in Ends : w = NATSpec(s, l, d, t)
    BY DEF BundleNATs
  <2> QED BY <2>1, <2>2 DEF NATSpec, IsNAT, NATFields
<1>3. ASSUME NEW n \in F!AutoNAT(o) PROVE IsNAT(n) /\ n.srcList = Any
  <2>1. PICK p \in o.policies : n = F!Masquerade(p.id, p.src, p.egress)
    BY DEF F!AutoNAT, F!Leaves
  <2> QED BY <1>1, <2>1 DEF F!Masquerade, IsNAT, NATFields
<1> QED BY <1>1, <1>2, <1>3

\* An entry that is rendered is a stored or derived one, or one for an address of its list.
LEMMA Expanded ==
  ASSUME NEW n, IsNAT(n), NEW lists
  PROVE  \A m \in F!Expand(n, lists) :
           IsNAT(m) /\ m.id = n.id /\ m.out = n.out /\ m.kind = n.kind /\ m.to = n.to
<1> SUFFICES ASSUME NEW m \in F!Expand(n, lists)
             PROVE  IsNAT(m) /\ m.id = n.id /\ m.out = n.out /\ m.kind = n.kind /\ m.to = n.to
  OBVIOUS
<1>1. m = n \/ \E a : m = [n EXCEPT !.src = a, !.srcList = Any]
  BY DEF F!Expand
<1>2. CASE m = n
  BY <1>2
<1>3. ASSUME NEW a, m = [n EXCEPT !.src = a, !.srcList = Any]
      PROVE  IsNAT(m) /\ m.id = n.id /\ m.out = n.out /\ m.kind = n.kind /\ m.to = n.to
  <2>1. IsNAT(m)
    BY <1>3 DEF IsNAT, NATFields
  <2> QED BY <1>3, <2>1 DEF IsNAT, NATFields
<1> QED BY <1>1, <1>2, <1>3

\* So all of them are.
LEMMA EntriesAre ==
  ASSUME NEW o, Shape(o), NEW m \in Entries(o)
  PROVE  IsNAT(m)
<1>1. PICK n \in o.nats \cup F!AutoNAT(o) : m \in F!Expand(n, o.lists)
  BY DEF Entries
<1> QED BY <1>1, NATsAre, Expanded

\* What is asked for: stored rules, and those derived from policies and NAT entries.
LEMMA AskedAre ==
  ASSUME NEW o, Shape(o), NEW r \in F!Asked(o)
  PROVE  \/ r \in o.rules
         \/ r.class = 2 /\ r.prio = 90 /\ r.id \in Nat
         \/ r.class = 4 /\ r.prio = 500 /\ r.id \in Nat /\ r.chain = "postrouting"
<1>1. o.forwards = {} /\ \A p \in o.policies : p.id \in Nat /\ p.action = "egress"
  BY NATsAre DEF Shape
<1>2. CASE r \in {F!DenyRule(p) : p \in {q \in o.policies : q.action = "deny"}}
  BY <1>1, <1>2
<1>3. CASE r \in {F!ForwardOut(p) : p \in F!Leaves(o)} \cup {F!ForwardBack(p) : p \in F!Leaves(o)}
  <2>1. PICK p \in o.policies : r = F!ForwardOut(p) \/ r = F!ForwardBack(p)
    BY <1>3 DEF F!Leaves
  <2> QED BY <1>1, <2>1 DEF F!ForwardOut, F!ForwardBack, F!ForwardPrio, F!Blank
<1>4. CASE r \in {F!DirectMark(p) : p \in {q \in o.policies : q.action = "direct" /\ q.list # Any}}
  BY <1>1, <1>4
<1>5. CASE r \in {F!NATRule(n) : n \in Entries(o)}
  <2>1. PICK n \in Entries(o) : r = F!NATRule(n)
    BY <1>5
  <2>2. n.id \in Nat
    BY EntriesAre DEF IsNAT
  <2> QED BY <2>1, <2>2 DEF F!NATRule, F!Blank
<1>6. CASE r \in {F!ForwardRule(f) : f \in o.forwards}
  BY <1>1, <1>6
<1> QED BY <1>2, <1>3, <1>4, <1>5, <1>6 DEF F!Asked, Entries

\* Rules have a class, a priority and an id, which are numbers.
LEMMA AskedNumbers ==
  ASSUME NEW o, Shape(o), NEW r \in F!Asked(o)
  PROVE  /\ r.class \in Nat /\ r.prio \in Nat /\ r.id \in Nat
         /\ r.class <= 0 => r \in o.rules
<1>1. o.rules \subseteq Stored(BundleRules)
  BY DEF Shape
<1>2. CASE r \in o.rules
  BY <1>1, <1>2, StoredRules
<1>3. CASE r \notin o.rules
  BY <1>3, AskedAre
<1> QED BY <1>2, <1>3

\* Of a stored rule for forwarded packets, one alike is in force.
LEMMA RuleInForce ==
  ASSUME NEW o, Shape(o), NEW r \in o.rules, r.chain = "forward"
  PROVE  \E q \in o.rules : /\ F!SameFingerprint(q, r) /\ q.prio <= r.prio
                            /\ F!Compile(q, o.lists) \in F!Script(o)
<1>1. r \in F!Asked(o) /\ r.class = 0
  BY StoredRules DEF F!Asked, Shape
<1>2. PICK q \in F!Dedupe(F!Asked(o)) :
        F!SameFingerprint(q, r) /\ q.class <= r.class /\ (q.class = r.class => q.prio <= r.prio)
  <2>1. \A x \in F!Asked(o) : x.class \in Nat /\ x.prio \in Nat /\ x.id \in Nat
    BY AskedNumbers
  <2> QED BY <1>1, <2>1, OneKept
<1>3. q \in F!Asked(o) /\ q.class <= 0
  BY <1>1, <1>2 DEF F!Dedupe
<1>4. q \in o.rules /\ q.class = 0 /\ q.action # "snat"
  <2>1. q \in o.rules
    BY <1>3, AskedNumbers
  <2>2. q.class = 0 /\ q.action \in {"accept", "drop"}
    BY <2>1, StoredRules DEF Shape
  <2> QED BY <2>1, <2>2
<1>5. q.chain = "forward"
  <2>1. IsRule(q) /\ IsRule(r)
    BY <1>4, StoredRules DEF Shape
  <2> QED BY <1>2, <2>1 DEF F!SameFingerprint, IsRule, Attributes
<1>6. F!Compile(q, o.lists) \in F!Script(o)
  BY <1>2, <1>4, <1>5 DEF F!Script, F!Rendered, F!Chains
<1> QED BY <1>1, <1>2, <1>4, <1>6

\* What alike rules have in common.
LEMMA Alike ==
  ASSUME NEW q, NEW r, IsRule(q), IsRule(r), F!SameFingerprint(q, r)
  PROVE  /\ q.chain = r.chain /\ q.src = r.src /\ q.dst = r.dst /\ q.in = r.in /\ q.out = r.out
         /\ q.srcList = r.srcList /\ q.dstList = r.dstList /\ q.kinds = r.kinds /\ q.action = r.action
         /\ q.to = r.to
BY DEF F!SameFingerprint, IsRule, Attributes

\* Alike rules hit the same packets.
LEMMA AlikeHit ==
  ASSUME NEW q, NEW r, IsRule(q), IsRule(r), F!SameFingerprint(q, r), NEW l, NEW k
  PROVE  F!Hits(F!Compile(q, l), k) <=> F!Hits(F!Compile(r, l), k)
BY Alike DEF F!Hits, F!Compile

\* A rule in force for forwarded packets is one a bundle stored, or comes with an egress.
LEMMA OfTable ==
  ASSUME NEW o, Shape(o), NEW t \in F!Script(o)
  PROVE  /\ t.prio \in Nat /\ t.id \in Nat
         /\ t.chain = "forward" =>
              \/ t.prio = 90
              \/ \E r \in o.rules : t = F!Compile(r, o.lists)
<1>1. PICK r \in F!Asked(o) : t = F!Compile(r, o.lists)
  BY DEF F!Script, F!Dedupe
<1>2. t.prio = r.prio /\ t.id = r.id /\ t.chain = r.chain
  BY <1>1 DEF F!Compile
<1> QED BY <1>1, <1>2, AskedAre, AskedNumbers

\* A rule for forwarded packets that hits decides, unless one of a lower priority does.
LEMMA Decided ==
  ASSUME NEW o, Shape(o), NEW t \in F!Script(o), t.chain = "forward", NEW k, F!Hits(t, k)
  PROVE  /\ F!Deciding(F!Script(o), k) # {}
         /\ \A d \in F!Deciding(F!Script(o), k) : /\ d \in F!Script(o) /\ d.chain = "forward"
                                                  /\ F!Hits(d, k) /\ d.prio <= t.prio
<1> DEFINE hit == {r \in F!Script(o) : r.chain = "forward" /\ F!Hits(r, k)}
           prios == {r.prio : r \in hit}
<1>1. \A r \in F!Script(o) : r.prio \in Nat
  BY OfTable
<1>2. F!Deciding(F!Script(o), k) = {r \in hit : ~\E q \in hit : q.prio < r.prio}
  BY DEF F!Deciding
<1>3. t \in hit /\ \A r \in hit : r \in F!Script(o) /\ r.chain = "forward" /\ F!Hits(r, k)
  OBVIOUS
<1> HIDE DEF hit
<1>4. PICK p \in prios : \A n \in prios : p <= n
  <2>1. prios \in SUBSET Nat /\ prios # {}
    BY <1>1, <1>3
  <2> QED BY <2>1, Smallest
<1>5. PICK r \in hit : r.prio = p
  BY <1>4
<1>6. \A q \in hit : ~(q.prio < r.prio)
  <2>1. \A q \in hit : p <= q.prio
    BY <1>4
  <2> QED BY <1>1, <1>3, <1>5, <2>1
<1>7. ASSUME NEW d \in hit, ~(t.prio < d.prio) PROVE d.prio <= t.prio
  BY <1>1, <1>3, <1>7
<1> QED BY <1>2, <1>3, <1>5, <1>6, <1>7

\* A packet that a stored rule hits is decided by rules of its priority or a lower one.
LEMMA HitBy ==
  ASSUME NEW o, Shape(o), NEW r \in o.rules, r.chain = "forward", NEW k, F!Hits(F!Compile(r, KnownLists), k),
         r.prio < 90
  PROVE  /\ F!Deciding(F!Script(o), k) # {}
         /\ \A d \in F!Deciding(F!Script(o), k) :
              \E x \in o.rules : d = F!Compile(x, KnownLists) /\ F!Hits(d, k) /\ x.prio <= r.prio
<1>1. PICK q \in o.rules : /\ F!SameFingerprint(q, r) /\ q.prio <= r.prio
                          /\ F!Compile(q, o.lists) \in F!Script(o)
  BY RuleInForce
<1> DEFINE t == F!Compile(q, o.lists)
<1>2. IsRule(q) /\ IsRule(r) /\ q.prio \in Nat /\ r.prio \in Nat /\ o.lists = KnownLists
  BY StoredRules DEF Shape
<1>3. q.chain = "forward" /\ F!Hits(t, k)
  BY <1>1, <1>2, Alike, AlikeHit
<1>4. t \in F!Script(o) /\ t.chain = "forward" /\ t.prio = q.prio
  BY <1>1, <1>3 DEF F!Compile
<1> HIDE DEF t
<1>5. /\ F!Deciding(F!Script(o), k) # {}
      /\ \A d \in F!Deciding(F!Script(o), k) : /\ d \in F!Script(o) /\ d.chain = "forward"
                                               /\ F!Hits(d, k) /\ d.prio <= t.prio
  BY <1>3, <1>4, Decided
<1>6. ASSUME NEW d \in F!Deciding(F!Script(o), k)
      PROVE  \E x \in o.rules : d = F!Compile(x, KnownLists) /\ F!Hits(d, k) /\ x.prio <= r.prio
  <2>1. d \in F!Script(o) /\ d.chain = "forward" /\ F!Hits(d, k) /\ d.prio <= r.prio /\ d.prio \in Nat
    <3>1. d.prio \in Nat
      BY <1>5, OfTable
    <3> QED BY <1>1, <1>2, <1>4, <1>5, <3>1
  <2>2. d.prio # 90
    BY <1>2, <2>1
  <2>3. PICK x \in o.rules : d = F!Compile(x, o.lists)
    BY <2>1, <2>2, OfTable
  <2>4. x.prio <= r.prio
    BY <2>1, <2>3 DEF F!Compile
  <2> QED BY <1>2, <2>1, <2>3, <2>4
<1> QED BY <1>5, <1>6

\* A call in force created an object the table was compiled from.
LEMMA CallInForce ==
  ASSUME Whole, NEW f \in Completed, InForce(f), NEW c \in Elements(CallsOf(f)), c.op = "create",
         c.in = "rules"
  PROVE  \E r \in source.rules : IsRule(r) /\ \A x \in Attributes : x # "id" => r[x] = c.what[x]
<1>1. c.what \in Anonymous(source.rules)
  BY DEF InForce
<1>2. PICK r \in source.rules : c.what = [r EXCEPT !.id = 0]
  BY <1>1 DEF Anonymous
<1>3. IsRule(r)
  BY StoredRules DEF Whole, Effects, Compiled, Shape
<1>4. \A x \in Attributes : x # "id" => r[x] = c.what[x]
  BY <1>2, <1>3 DEF IsRule, Attributes
<1> QED BY <1>3, <1>4

\* An accept for the packets of connections is in force once a bundle with replies is.
LEMMA WholeReplies == Whole => RepliesPass
<1> SUFFICES ASSUME Whole, NEW f \in Completed, InForce(f),
                    f.kind = "gateway" \/ (f.kind = "masq" /\ f.full)
                      \/ (f.kind = "return" /\ f.established),
                    NEW k \in F!Packet, k.kind \in Established
             PROVE  F!Verdicts(table, k) = {"accept"}
  BY DEF RepliesPass
<1>1. Shape(source) /\ table = F!Script(source)
  BY DEF Whole, Effects, Compiled
<1>2. f \in Form
  BY SuccessKept
<1>3. ForwardReplies \in Elements(CallsOf(f))
  BY <1>2, ReturnCalls, MasqCalls, GatewayCalls
<1> DEFINE w == EstablishedRule("forward")
<1>4. ForwardReplies.op = "create" /\ ForwardReplies.in = "rules" /\ ForwardReplies.what = w
  BY DEF ForwardReplies, Create
<1> HIDE DEF ForwardReplies
<1>5. PICK r \in source.rules : IsRule(r) /\ \A x \in Attributes : x # "id" => r[x] = w[x]
  <2> HIDE DEF w
  <2>1. w = ForwardReplies.what
    BY <1>4
  <2> QED BY <1>3, <1>4, <2>1, CallInForce
<1>6. /\ w.prio = 10 /\ w.chain = "forward" /\ w.kinds = Established
      /\ w.src = Any /\ w.dst = Any /\ w.srcList = Any /\ w.dstList = Any /\ w.in = Any /\ w.out = Any
  <2> DEFINE q == Rule(10, "accept")
  <2>1. /\ IsRule(q) /\ q.prio = 10 /\ q.src = Any /\ q.dst = Any /\ q.srcList = Any
        /\ q.dstList = Any /\ q.in = Any /\ q.out = Any
    BY RuleIs
  <2>2. w = [q EXCEPT !.chain = "forward", !.kinds = Established]
    BY DEF EstablishedRule
  <2> HIDE DEF q, w, Established
  <2> QED BY <2>1, <2>2 DEF IsRule, Attributes
<1> HIDE DEF w, Established
<1>7. /\ r.prio = 10 /\ r.chain = "forward" /\ r.kinds = Established
      /\ r.src = Any /\ r.dst = Any /\ r.srcList = Any /\ r.dstList = Any /\ r.in = Any /\ r.out = Any
  BY <1>5, <1>6 DEF Attributes
<1>8. F!Hits(F!Compile(r, KnownLists), k)
  <2>1. k.src \in Addrs /\ k.dst \in Addrs /\ k.in \in Devices /\ k.out \in Devices
    BY DEF F!Packet
  <2>2. F!Addresses(Any, Any, KnownLists) = Addrs /\ F!Through(Any) = Devices
    BY AnyIsUnknown DEF F!Addresses, F!Through
  <2> QED BY <1>7, <2>1, <2>2 DEF F!Hits, F!Compile
<1>9. /\ F!Deciding(table, k) # {}
      /\ \A d \in F!Deciding(table, k) :
           \E x \in source.rules : d = F!Compile(x, KnownLists) /\ F!Hits(d, k) /\ x.prio <= r.prio
  <2>1. r.prio < 90
    BY <1>7
  <2> QED BY <1>1, <1>7, <1>8, <2>1, HitBy
<1>10. ASSUME NEW d \in F!Deciding(table, k) PROVE d.action = "accept"
  <2>1. PICK x \in source.rules : d = F!Compile(x, KnownLists) /\ x.prio <= 10
    BY <1>7, <1>9
  <2>2. x.action = "accept"
    BY <1>1, <2>1, StoredRules DEF Shape
  <2> QED BY <2>1, <2>2 DEF F!Compile
<1> QED BY <1>9, <1>10 DEF F!Verdicts

\* So is a drop of a block that is in force.
LEMMA WholeBlocks == Whole => BlocksHold
<1> SUFFICES ASSUME Whole, NEW f \in Completed, f.kind = "access", f.do = "block", f.chain = "forward",
                    InForce(f), NEW c \in Elements(CallsOf(f)), NEW k \in F!Packet,
                    F!Hits(F!Compile(c.what, KnownLists), k), k.kind \notin Established, ~LetOut(k)
             PROVE  F!Verdicts(table, k) = {"drop"}
  BY DEF BlocksHold
<1>1. Shape(source) /\ table = F!Script(source)
  BY DEF Whole, Effects, Compiled
<1>2. f \in Form
  BY SuccessKept
<1>3. PICK p \in Ports : c = Create("rules", AccessRule(f, p))
  BY <1>2, AccessCalls
<1> DEFINE w == AccessRule(f, p)
<1>4. c.op = "create" /\ c.in = "rules" /\ c.what = w
  BY <1>3 DEF Create
<1>5. IsRule(w) /\ w.prio = 50 /\ w.chain = "forward" /\ w.action = "drop"
  BY <1>2, AccessRuleIs
<1> HIDE DEF w, Established
<1>6. PICK r \in source.rules : IsRule(r) /\ \A x \in Attributes : x # "id" => r[x] = w[x]
  <2>1. w = c.what
    BY <1>4
  <2> QED BY <1>4, <2>1, CallInForce
<1>7. r.prio = 50 /\ r.chain = "forward"
  BY <1>5, <1>6 DEF Attributes
<1>8. F!Hits(F!Compile(r, KnownLists), k)
  <2>1. F!SameFingerprint(r, w)
    <3>1. \A x \in Attributes : x \notin {"class", "id", "prio"} => r[x] = w[x]
      BY <1>6
    <3> QED BY <1>5, <1>6, <3>1, ZeroIs
  <2> QED BY <1>4, <1>5, <1>6, <2>1, AlikeHit
<1>9. /\ F!Deciding(table, k) # {}
      /\ \A d \in F!Deciding(table, k) :
           \E x \in source.rules : d = F!Compile(x, KnownLists) /\ F!Hits(d, k) /\ x.prio <= r.prio
  <2>1. r.prio < 90
    BY <1>7
  <2> QED BY <1>1, <1>7, <1>8, <2>1, HitBy
<1>10. ASSUME NEW d \in F!Deciding(table, k) PROVE d.action = "drop"
  <2>1. PICK x \in source.rules : d = F!Compile(x, KnownLists) /\ F!Hits(d, k) /\ x.prio <= 50
    BY <1>7, <1>9
  <2>2. k.kind \in x.kinds
    BY <2>1 DEF F!Hits, F!Compile
  <2>3. x.prio # 10
    BY <1>1, <2>2, StoredRules DEF Shape
  <2>4. x.prio # 40
    BY <2>1 DEF LetOut
  <2>5. x.action = "drop"
    BY <1>1, <2>1, <2>3, <2>4, StoredRules DEF Shape
  <2> QED BY <2>1, <2>5 DEF F!Compile
<1> QED BY <1>9, <1>10 DEF F!Verdicts

-----------------------------------------------------------------------------
(* Trying again                                                              *)

\* Sets of rules.
Numbered(S) == \A q \in S : IsRule(q) /\ q.class \in Nat /\ q.prio \in Nat /\ q.id \in Nat
CompiledFrom(S, lists) == {F!Compile(r, lists) : r \in {q \in F!Dedupe(S) : F!Rendered(q)}}

\* Compiling says nothing of what differs in the id only.
LEMMA ZeroCompiled ==
  ASSUME NEW q, NEW r, IsRule(q), IsRule(r), Zero(q) = Zero(r), NEW l
  PROVE  Zero(F!Compile(q, l)) = Zero(F!Compile(r, l)) /\ (F!Rendered(q) <=> F!Rendered(r))
<1>1. /\ q.prio = r.prio /\ q.chain = r.chain /\ q.action = r.action /\ q.src = r.src /\ q.dst = r.dst
      /\ q.srcList = r.srcList /\ q.dstList = r.dstList /\ q.in = r.in /\ q.out = r.out /\ q.kinds = r.kinds
      /\ q.to = r.to
  BY ZeroIs DEF Attributes
<1>2. Zero(F!Compile(q, l)) = Zero(F!Compile(r, l))
  BY <1>1 DEF Zero, F!Compile
<1> QED BY <1>1, <1>2 DEF F!Rendered

\* Rules that are the same but for their ids are the same, once deduped and compiled.
LEMMA RenderedAlike ==
  ASSUME NEW S, NEW T, Numbered(S), Numbered(T), Anonymous(S) = Anonymous(T), NEW l
  PROVE  Anonymous(CompiledFrom(S, l)) \subseteq Anonymous(CompiledFrom(T, l))
<1>1. \A q \in S : \E r \in T : Zero(r) = Zero(q)
  BY DEF Anonymous, Zero
<1>2. \A r \in T : \E q \in S : Zero(q) = Zero(r)
  BY DEF Anonymous, Zero
<1> SUFFICES ASSUME NEW q \in F!Dedupe(S), F!Rendered(q)
             PROVE  \E x \in CompiledFrom(T, l) : Zero(x) = Zero(F!Compile(q, l))
  BY DEF Anonymous, CompiledFrom, Zero
<1>3. q \in S
  BY DEF F!Dedupe
<1>4. PICK r \in T : Zero(r) = Zero(q)
  BY <1>1, <1>3
<1>5. PICK t \in F!Dedupe(T) :
        F!SameFingerprint(t, r) /\ t.class <= r.class /\ (t.class = r.class => t.prio <= r.prio)
  BY OneKept DEF Numbered
<1>6. t \in T
  BY DEF F!Dedupe
<1>7. PICK s \in S : Zero(s) = Zero(t)
  BY <1>2, <1>6
<1>8. IsRule(q) /\ IsRule(r) /\ IsRule(s) /\ IsRule(t)
  BY <1>3, <1>6 DEF Numbered
<1>9. q.class = r.class /\ q.prio = r.prio /\ s.class = t.class /\ s.prio = t.prio
  BY <1>4, <1>7, <1>8, ZeroIs DEF Attributes
<1>10. \A x \in Attributes : x \notin {"class", "id", "prio"} => s[x] = t[x] /\ t[x] = r[x] /\ r[x] = q[x]
  <2>1. \A x \in Attributes : x # "id" => s[x] = t[x]
    BY <1>7, <1>8, ZeroIs
  <2>2. \A x \in Attributes : x # "id" => r[x] = q[x]
    BY <1>4, <1>8, ZeroIs
  <2>3. \A x \in Attributes : x \notin {"class", "id", "prio"} => t[x] = r[x]
    BY <1>5, <1>8, ZeroIs
  <2> QED BY <2>1, <2>2, <2>3
<1>11. F!SameFingerprint(s, q)
  <2>1. \A x \in Attributes : x \notin {"class", "id", "prio"} => s[x] = q[x]
    BY <1>10
  <2> QED BY <1>8, <2>1, ZeroIs
<1>12. ~F!InFront(s, q)
  BY <1>11 DEF F!Dedupe
<1>13. /\ q.class \in Nat /\ q.prio \in Nat /\ s.class \in Nat /\ s.prio \in Nat
  BY <1>3 DEF Numbered
<1>14. t.class = r.class /\ t.prio = r.prio
  BY <1>5, <1>9, <1>12, <1>13 DEF F!InFront
<1>15. Zero(t) = Zero(q)
  <2>1. \A x \in Attributes : x # "id" => t[x] = q[x]
    <3>1. t["class"] = q["class"] /\ t["prio"] = q["prio"]
      BY <1>9, <1>14
    <3> QED BY <1>10, <3>1
  <2> QED BY <1>8, <2>1, ZeroIs
<1>16. Zero(F!Compile(t, l)) = Zero(F!Compile(q, l)) /\ F!Rendered(t)
  BY <1>8, <1>15, ZeroCompiled
<1>17. F!Compile(t, l) \in CompiledFrom(T, l)
  BY <1>16 DEF CompiledFrom
<1> QED BY <1>16, <1>17

\* Where what is asked for comes from.
LEMMA AskedFrom ==
  ASSUME NEW o, Shape(o)
  PROVE  /\ \A r \in F!Asked(o) :
              \/ r \in o.rules
              \/ \E p \in F!Leaves(o) : r = F!ForwardOut(p) \/ r = F!ForwardBack(p)
              \/ \E n \in Entries(o) : r = F!NATRule(n)
         /\ o.rules \subseteq F!Asked(o)
         /\ \A p \in F!Leaves(o) : F!ForwardOut(p) \in F!Asked(o) /\ F!ForwardBack(p) \in F!Asked(o)
         /\ \A n \in Entries(o) : F!NATRule(n) \in F!Asked(o)
<1>1. o.forwards = {} /\ \A p \in o.policies : p.action = "egress"
  BY NATsAre DEF Shape
<1>2. F!Asked(o) = o.rules \cup {F!ForwardOut(p) : p \in F!Leaves(o)}
                     \cup {F!ForwardBack(p) : p \in F!Leaves(o)}
                     \cup {F!NATRule(n) : n \in Entries(o)}
  BY <1>1 DEF F!Asked, Entries
<1> QED BY <1>2

\* The attributes of derived rules, the id apart.
OutAttribute(x, src, egress) ==
  CASE x = "class" -> 2 [] x = "prio" -> 90 [] x = "src" -> src [] x = "out" -> egress
    [] OTHER -> F!Blank[x]
BackAttribute(x, src, egress) ==
  CASE x = "class" -> 2 [] x = "prio" -> 90 [] x = "dst" -> src [] x = "in" -> egress
    [] OTHER -> F!Blank[x]
NATAttribute(x, src, out, kind, to) ==
  CASE x = "class" -> 4 [] x = "prio" -> 500 [] x = "chain" -> "postrouting" [] x = "src" -> src
    [] x = "out" -> out [] x = "action" -> kind [] x = "to" -> (IF kind = "snat" THEN to ELSE Any)
    [] OTHER -> F!Blank[x]
\* The attributes of a NAT rule.
LEMMA NATRuleIs ==
  ASSUME NEW n
  PROVE  /\ IsRule(F!NATRule(n)) /\ F!NATRule(n).id = n.id
         /\ \A x \in Attributes : x # "id" =>
              F!NATRule(n)[x] = NATAttribute(x, n.src, n.out, n.kind, n.to)
<1> DEFINE to == IF n.kind = "snat" THEN n.to ELSE Any
           a == [F!Blank EXCEPT !.class = 4, !.id = n.id]
           b == [a EXCEPT !.prio = 500]
           c == [b EXCEPT !.src = n.src]
           d == [c EXCEPT !.chain = "postrouting", !.out = n.out]
           e == [d EXCEPT !.action = n.kind]
           g == [e EXCEPT !.to = to]
<1>1. F!NATRule(n) = g
  BY DEF F!NATRule
<1>2. IsRule(F!Blank)
  BY DEF F!Blank, IsRule, Attributes
<1> HIDE DEF a, b, c, d, e, g, F!Blank
<1>3. IsRule(a) /\ \A x \in Attributes :
        a[x] = CASE x = "class" -> 4 [] x = "id" -> n.id [] OTHER -> F!Blank[x]
  BY <1>2 DEF IsRule, Attributes, a
<1>4. IsRule(b) /\ \A x \in Attributes : b[x] = IF x = "prio" THEN 500 ELSE a[x]
  BY <1>3 DEF IsRule, b
<1>5. IsRule(c) /\ \A x \in Attributes : c[x] = IF x = "src" THEN n.src ELSE b[x]
  BY <1>4 DEF IsRule, c
<1>6. IsRule(d)
  BY <1>5 DEF IsRule, d
<1>7. \A x \in Attributes : d[x] = CASE x = "chain" -> "postrouting" [] x = "out" -> n.out [] OTHER -> c[x]
  BY <1>5 DEF IsRule, Attributes, d
<1>8. IsRule(e) /\ \A x \in Attributes : e[x] = IF x = "action" THEN n.kind ELSE d[x]
  BY <1>6 DEF IsRule, Attributes, e
<1>9. IsRule(g) /\ \A x \in Attributes : g[x] = IF x = "to" THEN to ELSE e[x]
  BY <1>8 DEF IsRule, Attributes, g
<1> HIDE DEF to
<1>10. g.id = n.id
  BY <1>3, <1>4, <1>5, <1>7, <1>8, <1>9 DEF Attributes
<1>11. ASSUME NEW x \in Attributes, x # "id" PROVE g[x] = NATAttribute(x, n.src, n.out, n.kind, n.to)
  <2>1. g[x] = CASE x = "class" -> 4 [] x = "prio" -> 500 [] x = "chain" -> "postrouting"
                 [] x = "src" -> n.src [] x = "out" -> n.out [] x = "action" -> n.kind [] x = "to" -> to
                 [] OTHER -> F!Blank[x]
    BY <1>3, <1>4, <1>5, <1>7, <1>8, <1>9, <1>11 DEF Attributes
  <2> QED BY <2>1 DEF NATAttribute, to
<1> QED BY <1>1, <1>9, <1>10, <1>11

\* The attributes of the rules derived from a policy or a NAT entry.
LEMMA DerivedRules ==
  ASSUME NEW p
  PROVE  /\ IsRule(F!ForwardOut(p)) /\ IsRule(F!ForwardBack(p)) /\ IsRule(F!NATRule(p))
         /\ F!ForwardOut(p).id = p.id /\ F!ForwardBack(p).id = p.id /\ F!NATRule(p).id = p.id
         /\ \A x \in Attributes : x # "id" =>
              /\ F!ForwardOut(p)[x] = OutAttribute(x, p.src, p.egress)
              /\ F!ForwardBack(p)[x] = BackAttribute(x, p.src, p.egress)
              /\ F!NATRule(p)[x] = NATAttribute(x, p.src, p.out, p.kind, p.to)
<1>1. IsRule(F!Blank)
  BY DEF F!Blank, IsRule, Attributes
<1> HIDE DEF F!Blank
<1>2. IsRule(F!ForwardOut(p)) /\ IsRule(F!ForwardBack(p)) /\ IsRule(F!NATRule(p))
  <2>1. IsRule(F!ForwardOut(p))
    BY <1>1 DEF F!ForwardOut, IsRule
  <2>2. IsRule(F!ForwardBack(p))
    BY <1>1 DEF F!ForwardBack, IsRule
  <2>3. IsRule(F!NATRule(p))
    BY NATRuleIs
  <2> QED BY <2>1, <2>2, <2>3
<1>3. ASSUME NEW x \in Attributes, x # "id" PROVE F!ForwardOut(p)[x] = OutAttribute(x, p.src, p.egress)
  BY <1>1, <1>3 DEF F!ForwardOut, F!ForwardPrio, IsRule, Attributes, OutAttribute
<1>4. ASSUME NEW x \in Attributes, x # "id" PROVE F!ForwardBack(p)[x] = BackAttribute(x, p.src, p.egress)
  BY <1>1, <1>4 DEF F!ForwardBack, F!ForwardPrio, IsRule, Attributes, BackAttribute
<1>5. ASSUME NEW x \in Attributes, x # "id" 
      PROVE  F!NATRule(p)[x] = NATAttribute(x, p.src, p.out, p.kind, p.to)
  BY <1>5, NATRuleIs
<1>6. F!ForwardOut(p).id = p.id /\ F!ForwardBack(p).id = p.id /\ F!NATRule(p).id = p.id
  BY <1>1, NATRuleIs DEF F!ForwardOut, F!ForwardBack, IsRule, Attributes
<1> QED BY <1>2, <1>3, <1>4, <1>5, <1>6

\* Policies and NAT entries that differ in their id only.
LEMMA StoredPolicies ==
  /\ \A p \in Stored(BundlePolicies) : /\ p.id \in Nat /\ p.action = "egress" /\ p.src \in Addrs
                                       /\ p.egress \in Devices
  /\ \A p, q \in Stored(BundlePolicies) : Zero(p) = Zero(q) => p.src = q.src /\ p.egress = q.egress
<1>1. ASSUME NEW p \in Stored(BundlePolicies)
      PROVE  /\ p.id \in Nat /\ p.action = "egress" /\ p.src \in Addrs /\ p.egress \in Devices
             /\ Zero(p).src = p.src /\ Zero(p).egress = p.egress
  <2>1. PICK s \in Addrs, e \in Devices, n \in Nat : p = [Policy(s, e) EXCEPT !.id = n]
    BY DEF Stored, BundlePolicies
  <2> QED BY <2>1 DEF Policy, Zero
<1>2. ASSUME NEW p \in Stored(BundlePolicies), NEW q \in Stored(BundlePolicies), Zero(p) = Zero(q)
      PROVE  p.src = q.src /\ p.egress = q.egress
  <2>1. p.src = Zero(p).src /\ q.src = Zero(q).src /\ p.egress = Zero(p).egress /\ q.egress = Zero(q).egress
    BY <1>1
  <2> QED BY <1>2, <2>1
<1> QED BY <1>1, <1>2

\* Entries that differ in their id only, where lists matter and where they do not.
AlikeNAT(m, n) == m.src = n.src /\ m.out = n.out /\ m.kind = n.kind /\ m.to = n.to
LEMMA ZeroNATs ==
  ASSUME NEW m, NEW n, IsNAT(m), IsNAT(n), Zero(m) = Zero(n)
  PROVE  AlikeNAT(m, n) /\ m.srcList = n.srcList
<1>1. \A x \in NATFields : x # "id" => Zero(m)[x] = m[x] /\ Zero(n)[x] = n[x]
  BY DEF Zero, IsNAT
<1>2. \A x \in NATFields : x # "id" => m[x] = n[x]
  BY <1>1
<1> QED BY <1>2 DEF AlikeNAT, NATFields

\* Such entries are expanded alike.
LEMMA ExpandAlike ==
  ASSUME NEW m, NEW n, IsNAT(m), IsNAT(n), AlikeNAT(m, n), m.srcList = n.srcList, NEW lists,
         NEW x \in F!Expand(m, lists)
  PROVE  \E y \in F!Expand(n, lists) : AlikeNAT(x, y)
<1>1. CASE F!Known(m.srcList, lists) /\ lists[m.srcList] # {}
  <2>1. PICK a \in lists[m.srcList] : x = [m EXCEPT !.src = a, !.srcList = Any]
    BY <1>1 DEF F!Expand
  <2> DEFINE y == [n EXCEPT !.src = a, !.srcList = Any]
  <2>2. y \in F!Expand(n, lists)
    BY <1>1 DEF F!Expand
  <2>3. x.src = a /\ x.out = m.out /\ x.kind = m.kind /\ x.to = m.to
    BY <2>1 DEF IsNAT, NATFields
  <2>4. y.src = a /\ y.out = n.out /\ y.kind = n.kind /\ y.to = n.to
    BY DEF IsNAT, NATFields
  <2> HIDE DEF y
  <2>5. AlikeNAT(x, y)
    BY <2>3, <2>4 DEF AlikeNAT
  <2> QED BY <2>2, <2>5
<1>2. CASE ~(F!Known(m.srcList, lists) /\ lists[m.srcList] # {})
  <2>1. x = m /\ n \in F!Expand(n, lists)
    BY <1>2 DEF F!Expand
  <2> QED BY <2>1
<1> QED BY <1>1, <1>2

\* Derived rules of the same source and device differ in their id only.
LEMMA DerivedAlike ==
  ASSUME NEW p, NEW q
  PROVE  /\ p.src = q.src /\ p.egress = q.egress =>
                                   /\ Zero(F!ForwardOut(p)) = Zero(F!ForwardOut(q))
                                   /\ Zero(F!ForwardBack(p)) = Zero(F!ForwardBack(q))
         /\ AlikeNAT(p, q) => Zero(F!NATRule(p)) = Zero(F!NATRule(q))
<1>1. ASSUME p.src = q.src, p.egress = q.egress PROVE Zero(F!ForwardOut(p)) = Zero(F!ForwardOut(q))
  <2>1. \A x \in Attributes : x # "id" => F!ForwardOut(p)[x] = F!ForwardOut(q)[x]
    BY <1>1, DerivedRules
  <2> QED BY <2>1, ZeroIs, DerivedRules
<1>2. ASSUME p.src = q.src, p.egress = q.egress PROVE Zero(F!ForwardBack(p)) = Zero(F!ForwardBack(q))
  <2>1. \A x \in Attributes : x # "id" => F!ForwardBack(p)[x] = F!ForwardBack(q)[x]
    BY <1>2, DerivedRules
  <2> QED BY <2>1, ZeroIs, DerivedRules
<1>3. ASSUME AlikeNAT(p, q) PROVE Zero(F!NATRule(p)) = Zero(F!NATRule(q))
  <2>1. \A x \in Attributes : x # "id" => F!NATRule(p)[x] = F!NATRule(q)[x]
    BY <1>3, DerivedRules DEF AlikeNAT
  <2> QED BY <2>1, ZeroIs, DerivedRules
<1> QED BY <1>1, <1>2, <1>3

\* What is asked for are rules with numbers.
LEMMA AskedNumbered == ASSUME NEW o, Shape(o) PROVE Numbered(F!Asked(o))
<1>1. ASSUME NEW r \in F!Asked(o) PROVE IsRule(r)
  <2>1. CASE r \in o.rules
    BY <2>1, StoredRules DEF Shape
  <2>2. CASE r \notin o.rules
    <3>1. \/ \E p \in F!Leaves(o) : r = F!ForwardOut(p) \/ r = F!ForwardBack(p)
          \/ \E n \in Entries(o) : r = F!NATRule(n)
      BY <2>2, AskedFrom
    <3>2. CASE \E p \in F!Leaves(o) : r = F!ForwardOut(p) \/ r = F!ForwardBack(p)
      BY <3>2, DerivedRules
    <3>3. CASE \E n \in Entries(o) : r = F!NATRule(n)
      BY <3>3, DerivedRules
    <3> QED BY <3>1, <3>2, <3>3
  <2> QED BY <2>1, <2>2
<1> QED BY <1>1, AskedNumbers DEF Numbered

\* Objects that are the same but for their ids.
Same(o, d) ==
  /\ Anonymous(o.policies) = Anonymous(d.policies)
  /\ Anonymous(o.nats) = Anonymous(d.nats)
  /\ Anonymous(o.rules) = Anonymous(d.rules)

\* What one set has, another that is the same but for the ids has too.
LEMMA Twins == ASSUME NEW S, NEW T, Anonymous(S) = Anonymous(T), NEW x \in S
               PROVE  \E y \in T : Zero(y) = Zero(x)
BY DEF Anonymous, Zero

\* And the other way round.
LEMMA Mutual ==
  ASSUME NEW S, NEW T, \A x \in S : \E y \in T : Zero(y) = Zero(x), \A y \in T : \E x \in S : Zero(x) = Zero(y)
  PROVE  Anonymous(S) = Anonymous(T)
<1>1. Anonymous(S) \subseteq Anonymous(T)
  BY DEF Anonymous, Zero
<1>2. Anonymous(T) \subseteq Anonymous(S)
  BY DEF Anonymous, Zero
<1> QED BY <1>1, <1>2

\* From the same objects but for their ids, the same is asked for.
LEMMA AskedAlike ==
  ASSUME NEW o, NEW d, Shape(o), Shape(d), Same(o, d)
  PROVE  \A r \in F!Asked(o) : \E q \in F!Asked(d) : Zero(q) = Zero(r)
<1>1. /\ o.policies \subseteq Stored(BundlePolicies) /\ d.policies \subseteq Stored(BundlePolicies)
      /\ o.lists = KnownLists /\ d.lists = KnownLists
  BY DEF Shape
<1>0. /\ \A n \in o.nats \cup F!AutoNAT(o) : IsNAT(n)
      /\ \A n \in d.nats \cup F!AutoNAT(d) : IsNAT(n)
  BY NATsAre
<1>2. ASSUME NEW p \in F!Leaves(o)
      PROVE  \E q \in F!Leaves(d) : p.src = q.src /\ p.egress = q.egress
  <2>1. p \in o.policies /\ p.egress # Any
    BY DEF F!Leaves
  <2>2. PICK q \in d.policies : Zero(q) = Zero(p)
    BY <2>1, Twins DEF Same
  <2>3. p.src = q.src /\ p.egress = q.egress /\ q.action = "egress"
    BY <1>1, <2>1, <2>2, StoredPolicies
  <2>4. q \in F!Leaves(d)
    BY <2>1, <2>3 DEF F!Leaves
  <2> QED BY <2>3, <2>4
<1>3. ASSUME NEW p, NEW q, p.src = q.src, p.egress = q.egress, NEW n \in d.nats, F!Covers(n, q)
      PROVE  \E m \in o.nats : F!Covers(m, p)
  <2>1. PICK m \in o.nats : Zero(m) = Zero(n)
    BY Twins DEF Same
  <2>2. m.src = n.src /\ m.out = n.out /\ m.srcList = n.srcList
    BY <1>0, <2>1, ZeroNATs DEF AlikeNAT
  <2> QED BY <1>3, <2>2 DEF F!Covers
<1>4. ASSUME NEW n \in o.nats \cup F!AutoNAT(o)
      PROVE  \E m \in d.nats \cup F!AutoNAT(d) : AlikeNAT(n, m) /\ n.srcList = m.srcList
  <2>1. CASE n \in o.nats
    <3>1. PICK m \in d.nats : Zero(m) = Zero(n)
      BY <2>1, Twins DEF Same
    <3> QED BY <1>0, <2>1, <3>1, ZeroNATs
  <2>2. CASE n \in F!AutoNAT(o)
    <3>1. PICK p \in F!Leaves(o) : /\ ~\E m \in o.nats : F!Covers(m, p)
                                   /\ n = F!Masquerade(p.id, p.src, p.egress)
      BY <2>2 DEF F!AutoNAT
    <3>2. PICK q \in F!Leaves(d) : p.src = q.src /\ p.egress = q.egress
      BY <1>2
    <3>3. ~\E m \in d.nats : F!Covers(m, q)
      BY <1>3, <3>1, <3>2
    <3>4. F!Masquerade(q.id, q.src, q.egress) \in F!AutoNAT(d)
      BY <3>3 DEF F!AutoNAT
    <3>5. AlikeNAT(n, F!Masquerade(q.id, q.src, q.egress))
          /\ n.srcList = F!Masquerade(q.id, q.src, q.egress).srcList
      BY <3>1, <3>2 DEF F!Masquerade, AlikeNAT
    <3> QED BY <3>4, <3>5
  <2> QED BY <2>1, <2>2
<1>8. ASSUME NEW x \in Entries(o) PROVE \E y \in Entries(d) : AlikeNAT(x, y)
  <2>1. PICK n \in o.nats \cup F!AutoNAT(o) : x \in F!Expand(n, KnownLists)
    BY <1>1 DEF Entries
  <2>2. PICK m \in d.nats \cup F!AutoNAT(d) : AlikeNAT(n, m) /\ n.srcList = m.srcList
    BY <1>4
  <2>3. PICK y \in F!Expand(m, KnownLists) : AlikeNAT(x, y)
    BY <1>0, <2>1, <2>2, ExpandAlike
  <2> QED BY <1>1, <2>3 DEF Entries
<1> SUFFICES ASSUME NEW r \in F!Asked(o) PROVE \E q \in F!Asked(d) : Zero(q) = Zero(r)
  OBVIOUS
<1>5. CASE r \in o.rules
  <2>1. PICK q \in d.rules : Zero(q) = Zero(r)
    BY <1>5, Twins DEF Same
  <2> QED BY <2>1, AskedFrom
<1>6. CASE \E p \in F!Leaves(o) : r = F!ForwardOut(p) \/ r = F!ForwardBack(p)
  <2>1. PICK p \in F!Leaves(o) : r = F!ForwardOut(p) \/ r = F!ForwardBack(p)
    BY <1>6
  <2>2. PICK q \in F!Leaves(d) : p.src = q.src /\ p.egress = q.egress
    BY <1>2
  <2>3. /\ Zero(F!ForwardOut(q)) = Zero(F!ForwardOut(p)) /\ Zero(F!ForwardBack(q)) = Zero(F!ForwardBack(p))
        /\ F!ForwardOut(q) \in F!Asked(d) /\ F!ForwardBack(q) \in F!Asked(d)
    BY <2>2, DerivedAlike, AskedFrom
  <2> QED BY <2>1, <2>3
<1>7. CASE \E n \in Entries(o) : r = F!NATRule(n)
  <2>1. PICK n \in Entries(o) : r = F!NATRule(n)
    BY <1>7
  <2>2. PICK m \in Entries(d) : AlikeNAT(n, m)
    BY <1>8
  <2>3. AlikeNAT(m, n)
    BY <2>2 DEF AlikeNAT
  <2>4. Zero(F!NATRule(m)) = Zero(F!NATRule(n)) /\ F!NATRule(m) \in F!Asked(d)
    BY <2>3, DerivedAlike, AskedFrom
  <2> QED BY <2>1, <2>4
<1> QED BY <1>5, <1>6, <1>7, AskedFrom

\* So the same table is compiled, but for the ids.
LEMMA ScriptsAlike ==
  ASSUME NEW o, NEW d, Shape(o), Shape(d), Same(o, d)
  PROVE  Anonymous(F!Script(o)) = Anonymous(F!Script(d))
<1>1. Same(d, o)
  BY DEF Same
<1>2. Anonymous(F!Asked(o)) = Anonymous(F!Asked(d))
  BY <1>1, AskedAlike, Mutual
<1>3. o.lists = d.lists
  BY DEF Shape
<1>4. /\ F!Script(o) = CompiledFrom(F!Asked(o), o.lists)
      /\ F!Script(d) = CompiledFrom(F!Asked(d), o.lists)
  BY <1>3 DEF F!Script, CompiledFrom
<1>5. Numbered(F!Asked(o)) /\ Numbered(F!Asked(d))
  BY AskedNumbered
<1>6. /\ Anonymous(CompiledFrom(F!Asked(o), o.lists)) \subseteq Anonymous(CompiledFrom(F!Asked(d), o.lists))
      /\ Anonymous(CompiledFrom(F!Asked(d), o.lists)) \subseteq Anonymous(CompiledFrom(F!Asked(o), o.lists))
  <2> DEFINE S == F!Asked(o)
             T == F!Asked(d)
  <2>1. Numbered(S) /\ Numbered(T) /\ Anonymous(S) = Anonymous(T)
    BY <1>2, <1>5
  <2> HIDE DEF S, T
  <2>2. /\ Anonymous(CompiledFrom(S, o.lists)) \subseteq Anonymous(CompiledFrom(T, o.lists))
        /\ Anonymous(CompiledFrom(T, o.lists)) \subseteq Anonymous(CompiledFrom(S, o.lists))
    BY <2>1, RenderedAlike
  <2> QED BY <2>2 DEF S, T
<1> QED BY <1>4, <1>6

\* What one undisturbed run leaves has the shape of what bundles leave.
LEMMA CleanShape ==
  ASSUME NEW f \in Form, CallsOf(f) \in Seq(Calls(f))
  PROVE  Shape(Clean(f))
<1> DEFINE o == Clean(f)
           asked(x) == {c.what : c \in {d \in Elements(CallsOf(f)) : d.op = "create" /\ d.in = x}}
<1>1. DOMAIN F!Nothing = {"policies", "rules", "nats", "forwards", "lists"}
  BY DEF F!Nothing
<1>2. o = [x \in DOMAIN F!Nothing |-> IF x = "lists" THEN KnownLists ELSE asked(x)]
  BY DEF Clean
<1> HIDE DEF o
<1>3. ASSUME NEW c \in Elements(CallsOf(f)), c.op = "create"
      PROVE  \/ c.in = "policies" /\ c.what \in Stored(BundlePolicies)
             \/ c.in = "nats" /\ c.what \in Stored(BundleNATs)
             \/ c.in = "rules" /\ c.what \in Stored(BundleRules)
  <2>1. c \in Calls(f)
    BY DEF Elements
  <2>2. c \in Creates
    BY <1>3, <2>1, CallIs
  <2>3. Zero(Zero(c.what)) = c.what /\ Zero(c.what) = c.what
    <3>1. Zero(Zero(c.what)) = c.what
      BY <2>2, Renumbered DEF Zero
    <3>2. Zero(Zero(c.what)) = Zero(c.what)
      BY DEF Zero
    <3> QED BY <3>1, <3>2
  <2>4. \A w : c.what \in w => c.what \in Stored(w)
    BY <2>3 DEF Stored, Zero
  <2>5. \/ c.in = "policies" /\ c.what \in BundlePolicies
        \/ c.in = "nats" /\ c.what \in BundleNATs
        \/ c.in = "rules" /\ c.what \in BundleRules
    BY <2>2 DEF Creates, Create
  <2> QED BY <2>4, <2>5
<1>4. /\ asked("policies") \subseteq Stored(BundlePolicies) /\ asked("nats") \subseteq Stored(BundleNATs)
      /\ asked("rules") \subseteq Stored(BundleRules) /\ asked("forwards") = {}
  BY <1>3
<1> HIDE DEF asked
<1>5. /\ o.lists = KnownLists /\ o.forwards = {} /\ o.policies = asked("policies") /\ o.nats = asked("nats")
      /\ o.rules = asked("rules")
  BY <1>1, <1>2, <1>4
<1>6. o \in [DOMAIN F!Nothing -> {o[x] : x \in DOMAIN F!Nothing}]
  BY <1>2
<1> QED BY <1>4, <1>5, <1>6 DEF Shape, o

\* When one form was submitted until it succeeded and was applied, what was applied is what one
\* run of it leaves, and copies of it.
LEMMA CleanSame ==
  ASSUME Whole, NEW f \in Completed, InForce(f), Elements(tried) = {f}
  PROVE  Same(source, Clean(f))
<1>1. f \in Form /\ \A c \in Elements(CallsOf(f)) : c \in Calls(f) /\ Kept(c, objects, settings)
  BY SuccessKept
<1>2. DOMAIN F!Nothing = {"policies", "rules", "nats", "forwards", "lists"}
  BY DEF F!Nothing
<1> DEFINE asked(x) == {c.what : c \in {d \in Elements(CallsOf(f)) : d.op = "create" /\ d.in = x}}
<1>3. \A x \in {"policies", "nats", "rules"} : Clean(f)[x] = asked(x)
  BY <1>2 DEF Clean
<1>4. ASSUME NEW x \in {"policies", "nats", "rules"}
      PROVE  Anonymous(source[x]) = Anonymous(asked(x))
  <2>1. ASSUME NEW c \in Elements(CallsOf(f)), c.op = "create", NEW n
        PROVE  Zero([c.what EXCEPT !.id = n]) = c.what /\ Zero(c.what) = c.what
    <3>1. c \in Creates
      BY <1>1, <2>1, CallIs
    <3>2. Zero([c.what EXCEPT !.id = n]) = c.what
      BY <3>1, Renumbered DEF Zero
    <3>3. Zero([c.what EXCEPT !.id = n]) = Zero(c.what)
      BY DEF Zero
    <3> QED BY <3>2, <3>3
  <2>2. ASSUME NEW y \in source[x] PROVE \E z \in asked(x) : Zero(z) = Zero(y)
    <3>1. AskedBy(f, x, y)
      BY DEF Whole, Effects, Compiled, Part, ObjectsAsked
    <3>2. PICK c \in Elements(CallsOf(f)), n \in Nat :
            c.op = "create" /\ c.in = x /\ y = [c.what EXCEPT !.id = n]
      BY <3>1 DEF AskedBy
    <3>3. Zero(y) = c.what /\ Zero(c.what) = c.what
      BY <2>1, <3>2
    <3> QED BY <3>2, <3>3
  <2>3. ASSUME NEW z \in asked(x) PROVE \E y \in source[x] : Zero(y) = Zero(z)
    <3>1. PICK c \in Elements(CallsOf(f)) : c.op = "create" /\ c.in = x /\ z = c.what
      BY <2>3
    <3>2. c.what \in Anonymous(source[x])
      BY <3>1 DEF InForce
    <3>3. PICK y \in source[x] : c.what = Zero(y)
      BY <3>2 DEF Anonymous, Zero
    <3> QED BY <2>1, <3>1, <3>3
  <2> HIDE DEF asked
  <2> QED BY <2>2, <2>3, Mutual
<1> HIDE DEF asked
<1> QED BY <1>3, <1>4 DEF Same

\* The rules one form creates of a priority, for a chain and of some kinds of packet, are alike.
LEMMA OneRule ==
  ASSUME NEW f \in Form, NEW b \in CreatesOf(f), NEW c \in CreatesOf(f), b.in = "rules", c.in = "rules",
         b.what.prio = c.what.prio, b.what.chain = c.what.chain, b.what.kinds = c.what.kinds
  PROVE  b.what = c.what
<1>1. f.kind \in {"egress", "return", "masq", "gateway", "config", "access"}
  BY DEF Form
<1>2. \A x : Create("rules", x).in = "rules" /\ Create("rules", x).what = x
  BY DEF Create
<1>3. \A x : Create("policies", x).in # "rules" /\ Create("nats", x).in # "rules"
  BY DEF Create
<1>4. ASSUME NEW x \in {"forward", "input"}
      PROVE  EstablishedRule(x).prio = 10 /\ EstablishedRule(x).chain = x
  <2> DEFINE q == Rule(10, "accept")
  <2>1. IsRule(q) /\ q.prio = 10
    BY RuleIs
  <2>2. EstablishedRule(x) = [q EXCEPT !.chain = x, !.kinds = Established]
    BY DEF EstablishedRule
  <2> HIDE DEF q, Established
  <2> QED BY <2>1, <2>2 DEF IsRule, Attributes
<1>5. ASSUME NEW s, NEW i, NEW o PROVE Clients(s, i, o).prio = 40
  <2> DEFINE q == Rule(40, "accept")
  <2>1. IsRule(q) /\ q.prio = 40
    BY RuleIs
  <2>2. Clients(s, i, o) = [q EXCEPT !.src = s, !.in = i, !.out = o]
    BY DEF Clients
  <2> HIDE DEF q
  <2> QED BY <2>1, <2>2 DEF IsRule, Attributes
<1>6. ASSUME f.kind = "access", NEW k \in Ports PROVE AccessRule(f, k).kinds = k \X {"new", "established"}
  BY <1>6, AccessRuleIs
<1>7. ASSUME NEW y, CreatesOf(f) \subseteq Replies \cup {Create("nats", y)} PROVE b.what = c.what
  <2>1. \A x \in CreatesOf(f) : x.in = "rules" => \E e \in {"forward", "input"} : x.what = EstablishedRule(e)
    BY <1>2, <1>3, <1>7 DEF Replies
  <2> QED BY <1>4, <2>1
<1>8. ASSUME NEW y, NEW s, NEW i, NEW o,
             CreatesOf(f) \subseteq Replies \cup {Create("nats", y), Create("rules", Clients(s, i, o))}
      PROVE  b.what = c.what
  <2>1. \A x \in CreatesOf(f) :
          x.in = "rules" => \/ \E e \in {"forward", "input"} : x.what = EstablishedRule(e)
                            \/ x.what = Clients(s, i, o)
    BY <1>2, <1>3, <1>8 DEF Replies
  <2> QED BY <1>4, <1>5, <2>1
<1>9. CASE f.kind \in {"egress", "config"}
  <2>1. \A x \in CreatesOf(f) : x.in # "rules"
    BY <1>3, <1>9 DEF CreatesOf
  <2> QED BY <2>1
<1>10. CASE f.kind = "return"
  <2>1. CreatesOf(f) \subseteq Replies \cup {Create("nats", TheNAT(f)),
                                            Create("rules", Clients(f.src, Any, f.out))}
    BY <1>10 DEF CreatesOf
  <2> QED BY <1>8, <2>1
<1>11. CASE f.kind = "masq"
  <2>1. CreatesOf(f) \subseteq Replies \cup {Create("nats", TheNAT(f))}
    BY <1>11 DEF CreatesOf
  <2> QED BY <1>7, <2>1
<1>12. CASE f.kind = "gateway"
  <2>1. CreatesOf(f) \subseteq Replies \cup {Create("nats", 0), Create("rules", Clients(f.src, f.in, f.out))}
    BY <1>12 DEF CreatesOf
  <2> QED BY <1>8, <2>1
<1>13. CASE f.kind = "access"
  <2>1. \A x \in CreatesOf(f) : \E k \in Ports : x.what = AccessRule(f, k)
    BY <1>2, <1>13 DEF CreatesOf
  <2>2. PICK k \in Ports : b.what = AccessRule(f, k)
    BY <2>1
  <2>3. PICK l \in Ports : c.what = AccessRule(f, l)
    BY <2>1
  <2>4. k \X {"new", "established"} = l \X {"new", "established"}
    BY <1>6, <1>13, <2>2, <2>3
  <2>5. k = l
    <3>1. \A v : v \in k <=> <<v, "new">> \in k \X {"new", "established"}
      OBVIOUS
    <3>2. \A v : v \in l <=> <<v, "new">> \in l \X {"new", "established"}
      OBVIOUS
    <3>3. \A v : v \in k <=> v \in l
      BY <2>4, <3>1, <3>2
    <3> QED BY <3>3
  <2> QED BY <2>2, <2>3, <2>5
<1> QED BY <1>1, <1>9, <1>10, <1>11, <1>12, <1>13

\* Rules that are kept and alike are one.
LEMMA KeptOnce ==
  ASSUME NEW S, Numbered(S), NEW q \in F!Dedupe(S), NEW r \in F!Dedupe(S), Zero(q) = Zero(r)
  PROVE  q.id = r.id
<1>1. q \in S /\ r \in S /\ IsRule(q) /\ IsRule(r) /\ q.id \in Nat /\ r.id \in Nat
  BY DEF F!Dedupe, Numbered
<1>2. \A x \in Attributes : x # "id" => q[x] = r[x]
  BY <1>1, ZeroIs
<1>3. F!SameFingerprint(q, r) /\ F!SameFingerprint(r, q)
  BY <1>1, <1>2, ZeroIs
<1>4. q.class = r.class /\ q.prio = r.prio
  BY <1>2 DEF Attributes
<1>5. ~F!InFront(q, r) /\ ~F!InFront(r, q)
  BY <1>1, <1>3 DEF F!Dedupe
<1> QED BY <1>1, <1>4, <1>5 DEF F!InFront

\* A kept rule has the least id of those it differs from in nothing else.
LEMMA KeptFirst ==
  ASSUME NEW S, Numbered(S), NEW q \in F!Dedupe(S), NEW r \in S, Zero(q) = Zero(r)
  PROVE  q.id <= r.id
<1>1. q \in S /\ IsRule(q) /\ IsRule(r) /\ q.id \in Nat /\ r.id \in Nat
  BY DEF F!Dedupe, Numbered
<1>2. \A x \in Attributes : x # "id" => r[x] = q[x]
  BY <1>1, ZeroIs
<1>3. F!SameFingerprint(r, q)
  BY <1>1, <1>2, ZeroIs
<1>4. q.class = r.class /\ q.prio = r.prio
  BY <1>2 DEF Attributes
<1>5. ~F!InFront(r, q)
  BY <1>3 DEF F!Dedupe
<1> QED BY <1>1, <1>4, <1>5 DEF F!InFront

\* When one form was submitted, what was applied is alike: policies, NAT entries, and rules that
\* a packet cannot tell apart.
LEMMA OfOneForm ==
  ASSUME Whole, NEW f \in Form, Elements(tried) = {f}, \A c \in Elements(CallsOf(f)) : c \in Calls(f)
  PROVE  /\ \A p, q \in source.policies : p.src = q.src /\ p.egress = q.egress
         /\ \A m, n \in source.nats \cup F!AutoNAT(source) : AlikeNAT(m, n) /\ m.srcList = n.srcList
         /\ \A q, r \in source.rules :
              q.prio = r.prio /\ q.chain = r.chain /\ q.kinds = r.kinds => Zero(q) = Zero(r)
<1>1. \A x \in {"policies", "nats", "rules"} : \A y \in source[x] : AskedBy(f, x, y)
  BY DEF Whole, Effects, Compiled, Part, ObjectsAsked
<1>2. ASSUME NEW x \in {"policies", "nats", "rules"}, NEW y \in source[x]
      PROVE  \E c \in CreatesOf(f), n \in Nat : c.in = x /\ y = [c.what EXCEPT !.id = n]
  <2>1. PICK c \in Elements(CallsOf(f)), n \in Nat : c.op = "create" /\ c.in = x /\ y = [c.what EXCEPT !.id = n]
    BY <1>1 DEF AskedBy
  <2>2. c \in CreatesOf(f)
    BY <2>1, CallIs
  <2> QED BY <2>1, <2>2
<1>3. f.kind \in {"egress", "return", "masq", "gateway", "config", "access"}
  BY DEF Form
<1>4. /\ \A x : Create("policies", x).in = "policies" /\ Create("policies", x).what = x
      /\ \A x : Create("nats", x).in = "nats" /\ Create("nats", x).what = x
      /\ \A x : Create("rules", x).in = "rules"
  BY DEF Create
<1>5. ASSUME NEW c \in CreatesOf(f), c.in = "policies"
      PROVE  f.kind = "egress" /\ c.what = Policy(f.src, f.out)
  BY <1>3, <1>4, <1>5 DEF CreatesOf, Replies
<1>6. ASSUME NEW c \in CreatesOf(f), c.in = "nats"
      PROVE  c.what = TheNAT(f)
  BY <1>3, <1>4, <1>6 DEF CreatesOf, Replies
<1>7. ASSUME NEW p \in source.policies
      PROVE  f.kind = "egress" /\ p.src = f.src /\ p.egress = f.out
  <2>1. PICK c \in CreatesOf(f), n \in Nat : c.in = "policies" /\ p = [c.what EXCEPT !.id = n]
    BY <1>2
  <2>2. f.kind = "egress" /\ p = [Policy(f.src, f.out) EXCEPT !.id = n]
    BY <1>5, <2>1
  <2> QED BY <2>2 DEF Policy
<1>8. ASSUME NEW m \in source.nats
      PROVE  AlikeNAT(m, TheNAT(f)) /\ m.srcList = TheNAT(f).srcList
  <2>1. PICK c \in CreatesOf(f), n \in Nat : c.in = "nats" /\ m = [c.what EXCEPT !.id = n]
    BY <1>2
  <2>2. m = [TheNAT(f) EXCEPT !.id = n]
    BY <1>6, <2>1
  <2> QED BY <2>2 DEF TheNAT, NATSpec, AlikeNAT
<1>9. ASSUME NEW m \in F!AutoNAT(source)
      PROVE  AlikeNAT(m, TheNAT(f)) /\ m.srcList = TheNAT(f).srcList
  <2>1. PICK p \in source.policies : m = F!Masquerade(p.id, p.src, p.egress)
    BY DEF F!AutoNAT, F!Leaves
  <2>2. f.kind = "egress" /\ m = F!Masquerade(p.id, f.src, f.out)
    BY <1>7, <2>1
  <2>3. TheNAT(f) = NATSpec(f.src, Any, f.out, Any)
    BY <2>2 DEF TheNAT
  <2> QED BY <2>2, <2>3 DEF F!Masquerade, NATSpec, Unless, AlikeNAT
<1>10. \A m, n \in source.nats \cup F!AutoNAT(source) : AlikeNAT(m, n) /\ m.srcList = n.srcList
  <2> HIDE DEF TheNAT
  <2>1. \A m \in source.nats \cup F!AutoNAT(source) : AlikeNAT(m, TheNAT(f)) /\ m.srcList = TheNAT(f).srcList
    BY <1>8, <1>9
  <2> QED BY <2>1 DEF AlikeNAT
<1>11. ASSUME NEW q \in source.rules, NEW r \in source.rules,
              q.prio = r.prio, q.chain = r.chain, q.kinds = r.kinds
       PROVE  Zero(q) = Zero(r)
  <2>1. PICK b \in CreatesOf(f), n \in Nat : b.in = "rules" /\ q = [b.what EXCEPT !.id = n]
    BY <1>2
  <2>2. PICK c \in CreatesOf(f), k \in Nat : c.in = "rules" /\ r = [c.what EXCEPT !.id = k]
    BY <1>2
  <2>3. b \in Creates /\ c \in Creates
    BY CreatesAre
  <2>4. b.what \in BundleRules /\ c.what \in BundleRules
    BY <2>1, <2>2, <2>3 DEF Creates, Create
  <2>5. IsRule(b.what) /\ IsRule(c.what)
    BY <2>4, RulesAre
  <2>6. q.prio = b.what.prio /\ q.chain = b.what.chain /\ q.kinds = b.what.kinds
    BY <2>1, <2>5 DEF IsRule, Attributes
  <2>7. r.prio = c.what.prio /\ r.chain = c.what.chain /\ r.kinds = c.what.kinds
    BY <2>2, <2>5 DEF IsRule, Attributes
  <2>8. b.what = c.what
    BY <1>11, <2>1, <2>2, <2>6, <2>7, OneRule
  <2> QED BY <2>1, <2>2, <2>8 DEF Zero
<1> QED BY <1>7, <1>10, <1>11

\* Entries that come of alike ones are alike, if their rules admit the same sources.
LEMMA EntriesAlike ==
  ASSUME NEW m, NEW n, IsNAT(m), IsNAT(n), AlikeNAT(m, n), m.srcList = n.srcList,
         NEW x \in F!Expand(m, KnownLists), NEW y \in F!Expand(n, KnownLists),
         F!Compile(F!NATRule(x), KnownLists).src = F!Compile(F!NATRule(y), KnownLists).src
  PROVE  AlikeNAT(x, y)
<1>1. x.out = m.out /\ x.kind = m.kind /\ x.to = m.to /\ y.out = n.out /\ y.kind = n.kind /\ y.to = n.to
  BY Expanded
<1>2. ASSUME NEW z
      PROVE  F!Compile(F!NATRule(z), KnownLists).src = IF z.src = Any THEN Addrs ELSE {z.src}
  <2>1. F!NATRule(z).src = z.src /\ F!NATRule(z).srcList = Any
    <3>1. F!NATRule(z)["src"] = z.src /\ F!NATRule(z)["srcList"] = F!Blank["srcList"]
      BY DerivedRules DEF Attributes, NATAttribute
    <3> QED BY <3>1 DEF F!Blank
  <2>2. F!Compile(F!NATRule(z), KnownLists).src = F!Addresses(z.src, Any, KnownLists)
    BY <2>1 DEF F!Compile
  <2> QED BY <2>2, AnyIsUnknown DEF F!Addresses
<1>3. CASE F!Known(m.srcList, KnownLists) /\ KnownLists[m.srcList] # {}
  <2>1. PICK a \in KnownLists[m.srcList] : x = [m EXCEPT !.src = a, !.srcList = Any]
    BY <1>3 DEF F!Expand
  <2>2. PICK b \in KnownLists[m.srcList] : y = [n EXCEPT !.src = b, !.srcList = Any]
    BY <1>3 DEF F!Expand
  <2>3. x.src = a /\ y.src = b
    BY <2>1, <2>2 DEF IsNAT, NATFields
  <2>4. a \in Addrs /\ b \in Addrs
    BY <1>3, ListsAssumption DEF F!Known
  <2>5. a # Any /\ b # Any
    BY <2>4, NamesAssumption
  <2>6. {a} = {b}
    <3>1. F!Compile(F!NATRule(x), KnownLists).src = {a}
      BY <1>2, <2>3, <2>5
    <3>2. F!Compile(F!NATRule(y), KnownLists).src = {b}
      BY <1>2, <2>3, <2>5
    <3> QED BY <3>1, <3>2
  <2>7. x.src = y.src
    BY <2>3, <2>6
  <2> QED BY <1>1, <2>7 DEF AlikeNAT
<1>4. CASE ~(F!Known(m.srcList, KnownLists) /\ KnownLists[m.srcList] # {})
  BY <1>4 DEF F!Expand
<1> QED BY <1>3, <1>4

\* The rules in force after one form are all different.
LEMMA AllDifferent ==
  ASSUME Whole, NEW f \in Form, Elements(tried) = {f}, \A c \in Elements(CallsOf(f)) : c \in Calls(f),
         NEW s \in table, NEW t \in table, Zero(s) = Zero(t)
  PROVE  s = t
<1>1. Shape(source) /\ table = F!Script(source) /\ source.lists = KnownLists
  BY DEF Whole, Effects, Compiled, Shape
<1> DEFINE A == F!Asked(source)
<1>2. PICK q \in F!Dedupe(A) : s = F!Compile(q, KnownLists)
  BY <1>1 DEF F!Script
<1>3. PICK r \in F!Dedupe(A) : t = F!Compile(r, KnownLists)
  BY <1>1 DEF F!Script
<1>4. Numbered(A) /\ q \in A /\ r \in A
  BY <1>1, AskedNumbered DEF F!Dedupe
<1>5. /\ s.prio = t.prio /\ s.chain = t.chain /\ s.kinds = t.kinds /\ s.src = t.src
      /\ s.id = t.id => s = t
  <2>1. Zero(s) = Zero(t)
    OBVIOUS
  <2> QED BY <1>2, <1>3, <2>1 DEF Zero, F!Compile
<1>6. q.prio = r.prio /\ q.chain = r.chain /\ q.kinds = r.kinds /\ s.id = q.id /\ t.id = r.id
  BY <1>2, <1>3, <1>5 DEF F!Compile
<1>7. SUFFICES q.id = r.id
  BY <1>5, <1>6
<1>8. /\ \A p, o \in source.policies : p.src = o.src /\ p.egress = o.egress
      /\ \A m, n \in source.nats \cup F!AutoNAT(source) : AlikeNAT(m, n) /\ m.srcList = n.srcList
      /\ \A x, y \in source.rules :
           x.prio = y.prio /\ x.chain = y.chain /\ x.kinds = y.kinds => Zero(x) = Zero(y)
  BY OfOneForm
<1>9. \A x \in A : \/ x \in source.rules /\ x.prio \notin {90, 500}
                   \/ \E p \in F!Leaves(source) : x = F!ForwardOut(p) \/ x = F!ForwardBack(p)
                   \/ \E n \in Entries(source) : x = F!NATRule(n)
  <2>1. \A x \in source.rules : x.prio \notin {90, 500}
    BY <1>1, StoredRules DEF Shape
  <2> QED BY <1>1, <2>1, AskedFrom
<1>10. \A p : F!ForwardOut(p).prio = 90 /\ F!ForwardBack(p).prio = 90 /\ F!NATRule(p).prio = 500
  BY DerivedRules DEF Attributes, OutAttribute, BackAttribute, NATAttribute
<1>11. CASE q \in source.rules /\ r \in source.rules
  BY <1>4, <1>6, <1>8, <1>11, KeptOnce
<1>12. ASSUME NEW x \in Entries(source), NEW y \in Entries(source), q = F!NATRule(x), r = F!NATRule(y)
       PROVE  q.id = r.id
  <2>1. PICK m \in source.nats \cup F!AutoNAT(source) : x \in F!Expand(m, KnownLists)
    BY <1>1 DEF Entries
  <2>2. PICK n \in source.nats \cup F!AutoNAT(source) : y \in F!Expand(n, KnownLists)
    BY <1>1 DEF Entries
  <2>3. IsNAT(m) /\ IsNAT(n) /\ AlikeNAT(m, n) /\ m.srcList = n.srcList
    BY <1>1, <1>8, NATsAre
  <2>4. AlikeNAT(x, y)
    BY <1>2, <1>3, <1>5, <1>12, <2>1, <2>2, <2>3, EntriesAlike
  <2>5. Zero(q) = Zero(r)
    BY <1>12, <2>4, DerivedAlike
  <2> QED BY <1>4, <2>5, KeptOnce
<1>13. ASSUME NEW p \in F!Leaves(source), NEW o \in F!Leaves(source),
              q = F!ForwardOut(p) \/ q = F!ForwardBack(p), r = F!ForwardOut(o) \/ r = F!ForwardBack(o)
       PROVE  q.id = r.id
  <2>1. p.src = o.src /\ p.egress = o.egress
    BY <1>8 DEF F!Leaves
  <2>2. /\ Zero(F!ForwardOut(p)) = Zero(F!ForwardOut(o)) /\ Zero(F!ForwardBack(p)) = Zero(F!ForwardBack(o))
    BY <2>1, DerivedAlike
  <2>3. /\ F!ForwardOut(p).id = p.id /\ F!ForwardBack(p).id = p.id
        /\ F!ForwardOut(o).id = o.id /\ F!ForwardBack(o).id = o.id
    BY DerivedRules
  <2>4. /\ F!ForwardOut(p) \in A /\ F!ForwardBack(p) \in A /\ F!ForwardOut(o) \in A /\ F!ForwardBack(o) \in A
    BY <1>1, AskedFrom
  <2> HIDE DEF A
  <2>5. q.id <= r.id
    <3>1. \E x \in A : Zero(q) = Zero(x) /\ x.id = r.id
      BY <1>13, <2>2, <2>3, <2>4
    <3> QED BY <1>4, <3>1, KeptFirst
  <2>6. r.id <= q.id
    <3>1. \E x \in A : Zero(r) = Zero(x) /\ x.id = q.id
      BY <1>13, <2>2, <2>3, <2>4
    <3> QED BY <1>4, <3>1, KeptFirst
  <2>7. q.id \in Nat /\ r.id \in Nat
    BY <1>4 DEF Numbered
  <2> QED BY <2>5, <2>6, <2>7
<1> QED
  <2>1. CASE q \in source.rules /\ q.prio \notin {90, 500}
    BY <1>4, <1>6, <1>9, <1>10, <1>11, <2>1
  <2>2. CASE \E p \in F!Leaves(source) : q = F!ForwardOut(p) \/ q = F!ForwardBack(p)
    BY <1>4, <1>6, <1>9, <1>10, <1>13, <2>2
  <2>3. CASE \E n \in Entries(source) : q = F!NATRule(n)
    BY <1>4, <1>6, <1>9, <1>10, <1>12, <2>3
  <2> QED BY <1>4, <1>9, <2>1, <2>2, <2>3

\* The table after trying again is that of one run.
LEMMA WholeHarmless == Whole => RetryIsHarmless
<1> SUFFICES ASSUME Whole, NEW f \in Completed, Elements(tried) = {f}, InForce(f)
             PROVE  /\ Anonymous(table) = Anonymous(F!Script(Clean(f)))
                    /\ \A r, s \in table : Anonymous({r}) = Anonymous({s}) => r = s
  BY DEF RetryIsHarmless
<1>1. Shape(source) /\ table = F!Script(source)
  BY DEF Whole, Effects, Compiled
<1>2. f \in Form /\ \A c \in Elements(CallsOf(f)) : c \in Calls(f)
  BY SuccessKept
<1>3. CallsOf(f) \in Seq(Calls(f))
  BY <1>2, CallsAre
<1>4. Shape(Clean(f)) /\ Same(source, Clean(f))
  BY <1>2, <1>3, CleanShape, CleanSame
<1>5. Anonymous(table) = Anonymous(F!Script(Clean(f)))
  BY <1>1, <1>4, ScriptsAlike
<1>6. ASSUME NEW r \in table, NEW s \in table, Anonymous({r}) = Anonymous({s}) PROVE r = s
  <2>1. Zero(r) = Zero(s)
    BY <1>6 DEF Anonymous, Zero
  <2> QED BY <1>2, <2>1, AllDifferent
<1> QED BY <1>5, <1>6

-----------------------------------------------------------------------------
(* Theorems                                                                  *)

\* What is stored of an attempt is a beginning of its bundle, in order, whatever was lost,
\* refused or late: for any forms and any number of attempts.
THEOREM Prefixes == Spec => []StoredInOrder
<1>1. Ordered => StoredInOrder
  BY DEF Ordered
<1> QED BY <1>1, InitOrdered, NextOrdered, PTL DEF Spec

\* The whole invariant, for any forms, numberings and number of attempts.
THEOREM Invariant == Spec => []Whole
BY InitWhole, NextWhole, PTL DEF Spec

\* The success flash means that everything the form asked for is stored, with the values it asked
\* for unless another form was submitted.
THEOREM SuccessIsComplete == Spec => []DoneIsComplete
BY Invariant, WholeComplete, PTL

\* Submitting one form until it succeeds and is applied leaves the table of one undisturbed run,
\* however many copies failed attempts and late calls left in the store.
THEOREM TryingAgain == Spec => []RetryIsHarmless
BY Invariant, WholeHarmless, PTL

\* Once a bundle with replies succeeded and was applied, established packets are accepted,
\* whatever is blocked and whatever applies fail later.
THEOREM RepliesAlwaysPass == Spec => []RepliesPass
BY Invariant, WholeReplies, PTL

\* Once a block succeeded and was applied, new connections it is about are dropped, whatever is
\* allowed and whatever applies fail later.
THEOREM BlocksAlwaysHold == Spec => []BlocksHold
BY Invariant, WholeBlocks, PTL
=============================================================================

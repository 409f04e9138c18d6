--------------------------- MODULE FirewallProofs ---------------------------
(***************************************************************************)
(* Theorems about Firewall: for any policies, rules, NAT entries, forwards *)
(* and lists, what policies promise is in the kernel's table, although     *)
(* rules that are alike are dropped, compiled against the lists, and       *)
(* tables are older than the store.                                        *)
(***************************************************************************)
EXTENDS Firewall, WellFoundedInduction, TLAPS

\* The invariant: the table is what a desired state that was stored compiles to.
IInv ==
  /\ desired \in Desired /\ source \in Desired
  /\ table = Script(source)

-----------------------------------------------------------------------------
(* Rules *)

\* A list that is no list is not known.
LEMMA AnyIsUnknown == ASSUME NEW D \in Desired PROVE ~Known(Any, D.lists)
BY AnyAssumption DEF Desired, Lists, Known

\* An empty match admits everything, and a match of one address or device that.
LEMMA Admitted ==
  ASSUME NEW D \in Desired, NEW addr \in Addrs \cup {Any}, NEW device \in Devices \cup {Any}
  PROVE  /\ \A a \in Addrs : addr \in {a, Any} => a \in Addresses(addr, Any, D.lists)
         /\ \A d \in Devices : device \in {d, Any} => d \in Through(device)
BY AnyIsUnknown DEF Addresses, Through

\* What is asked for are rules.
LEMMA BlankType == Blank \in FirewallRule /\ Blank.srcList = Any /\ Blank.dstList = Any
BY DEF Blank, FirewallRule, Chains, Actions, MaybeList

LEMMA PolicyRulesType ==
  ASSUME NEW p \in Policy
  PROVE  /\ DenyRule(p) \in FirewallRule
         /\ ForwardOut(p) \in FirewallRule /\ ForwardBack(p) \in FirewallRule
         /\ DirectMark(p) \in FirewallRule
<1>1. /\ p.id \in Nat /\ p.prio \in Nat /\ p.src \in Addrs \cup {Any}
      /\ p.egress \in Devices \cup {Any} /\ p.list \in MaybeList
  BY DEF Policy
<1>2. /\ Blank \in FirewallRule
      /\ 1 \in 0..5 /\ 2 \in 0..5 /\ 3 \in 0..5
      /\ "drop" \in Actions /\ "mark" \in Actions /\ "mangle_prerouting" \in Chains
      /\ ForwardPrio \in Nat
  BY BlankType DEF Actions, Chains, ForwardPrio
<1>3. DenyRule(p) \in FirewallRule
  <2>1. \A r \in FirewallRule, c \in 0..5, a \in Actions :
          [r EXCEPT !.class = c, !.id = p.id, !.prio = p.prio, !.src = p.src, !.action = a] \in FirewallRule
    BY <1>1 DEF FirewallRule
  <2> QED BY <1>2, <2>1, Zenon DEF DenyRule
<1>4. ForwardOut(p) \in FirewallRule
  <2>1. \A r \in FirewallRule, c \in 0..5, o \in Nat :
          [r EXCEPT !.class = c, !.id = p.id, !.prio = o, !.src = p.src, !.out = p.egress] \in FirewallRule
    BY <1>1 DEF FirewallRule
  <2> QED BY <1>2, <2>1, Zenon DEF ForwardOut
<1>5. ForwardBack(p) \in FirewallRule
  <2>1. \A r \in FirewallRule, c \in 0..5, o \in Nat :
          [r EXCEPT !.class = c, !.id = p.id, !.prio = o, !.dst = p.src, !.in = p.egress] \in FirewallRule
    BY <1>1 DEF FirewallRule
  <2> QED BY <1>2, <2>1, Zenon DEF ForwardBack
<1>6. DirectMark(p) \in FirewallRule
  <2>1. \A r \in FirewallRule, c \in 0..5, h \in Chains, a \in Actions :
          [r EXCEPT !.class = c, !.id = p.id, !.prio = p.prio, !.src = p.src, !.chain = h,
                    !.dstList = p.list, !.action = a] \in FirewallRule
    BY <1>1 DEF FirewallRule
  <2> QED BY <1>2, <2>1, Zenon DEF DirectMark
<1> QED BY <1>3, <1>4, <1>5, <1>6

LEMMA NATType ==
  ASSUME NEW D \in Desired, NEW m \in D.nats \cup AutoNAT(D), NEW n \in Expand(m, D.lists)
  PROVE  n \in NAT /\ NATRule(n) \in FirewallRule
<1>1. m \in NAT
  <2>1. CASE m \in D.nats
    BY <2>1, ObjectsAssumption DEF Desired
  <2>2. CASE m \in AutoNAT(D)
    BY <2>2, ObjectsAssumption DEF AutoNAT, Masquerade, Leaves, Desired, Policy, NAT, MaybeList
  <2> QED BY <2>1, <2>2
<1>2. n \in NAT
  <2>1. CASE Known(m.srcList, D.lists) /\ D.lists[m.srcList] # {}
    <3>1. D.lists[m.srcList] \subseteq Addrs
      BY <2>1 DEF Known, Desired, Lists
    <3>2. PICK a \in D.lists[m.srcList] : n = [m EXCEPT !.src = a, !.srcList = Any]
      BY <2>1 DEF Expand
    <3> QED BY <1>1, <3>1, <3>2 DEF NAT, MaybeList
  <2>2. CASE ~(Known(m.srcList, D.lists) /\ D.lists[m.srcList] # {})
    BY <1>1, <2>2 DEF Expand
  <2> QED BY <2>1, <2>2
<1>a. PICK to \in Addrs \cup {Any} : to = IF n.kind = "snat" THEN n.to ELSE Any
  BY <1>2 DEF NAT
<1>3. /\ n.id \in Nat /\ n.src \in Addrs \cup {Any} /\ n.out \in Devices \cup {Any}
      /\ n.kind \in Actions
  BY <1>2 DEF NAT, Actions
<1>4. \A r \in FirewallRule, c \in 0..5, o \in Nat, h \in Chains, a \in Actions :
        [r EXCEPT !.class = c, !.id = n.id, !.prio = o, !.src = n.src, !.chain = h, !.out = n.out,
                  !.action = a, !.to = to] \in FirewallRule
  <2>1. \A r \in FirewallRule, c \in 0..5, o \in Nat, h \in Chains, a \in Actions :
          [r EXCEPT !.class = c, !.id = n.id, !.prio = o, !.src = n.src, !.chain = h, !.out = n.out,
                    !.action = a] \in FirewallRule
    BY <1>3 DEF FirewallRule
  <2>2. \A r \in FirewallRule : [r EXCEPT !.to = to] \in FirewallRule
    BY DEF FirewallRule
  <2> SUFFICES ASSUME NEW r \in FirewallRule, NEW c \in 0..5, NEW o \in Nat, NEW h \in Chains,
                      NEW a \in Actions
               PROVE  [r EXCEPT !.class = c, !.id = n.id, !.prio = o, !.src = n.src, !.chain = h,
                                !.out = n.out, !.action = a, !.to = to] \in FirewallRule
    OBVIOUS
  <2>3. PICK q \in FirewallRule :
          q = [r EXCEPT !.class = c, !.id = n.id, !.prio = o, !.src = n.src, !.chain = h,
                        !.out = n.out, !.action = a]
    BY <2>1
  <2>4. [q EXCEPT !.to = to] \in FirewallRule
    BY <2>2
  <2> QED BY <2>3, <2>4
<1>5. 4 \in 0..5 /\ "postrouting" \in Chains
  BY DEF Chains
<1>6. Blank \in FirewallRule
  BY BlankType
<1> DEFINE At(o) ==
        [Blank EXCEPT !.class = 4, !.id = n.id, !.prio = o, !.src = n.src, !.chain = "postrouting",
                      !.out = n.out, !.action = n.kind, !.to = to]
<1>7. \A o \in Nat : At(o) \in FirewallRule
  BY <1>3, <1>4, <1>5, <1>6, Zenon
<1>8. NATRule(n) = At(500)
  BY <1>a DEF NATRule
<1> HIDE DEF At
<1>9. NATRule(n) \in FirewallRule
  BY <1>7, <1>8
<1> QED BY <1>2, <1>9

LEMMA ForwardType == ASSUME NEW f \in Forward PROVE ForwardRule(f) \in FirewallRule
<1>1. /\ f.id \in Nat /\ f.src \in Addrs \cup {Any} /\ f.in \in Devices \cup {Any}
      /\ f.out \in Devices \cup {Any} /\ f.action \in Actions
  BY DEF Forward, Actions
<1>2. \A r \in FirewallRule, c \in 0..5, o \in Nat :
        [r EXCEPT !.class = c, !.id = f.id, !.prio = o, !.src = f.src, !.in = f.in, !.out = f.out,
                  !.action = f.action] \in FirewallRule
  BY <1>1 DEF FirewallRule
<1>3. 5 \in 0..5 /\ 100 \in Nat
  OBVIOUS
<1> QED BY <1>2, <1>3, BlankType, Zenon DEF ForwardRule

LEMMA AskedType == ASSUME NEW D \in Desired PROVE Asked(D) \subseteq FirewallRule
<1>1. D.policies \subseteq Policy /\ D.rules \subseteq FirewallRule /\ D.forwards \subseteq Forward
  BY ObjectsAssumption DEF Desired
<1>2. {NATRule(n) : n \in UNION {Expand(m, D.lists) : m \in D.nats \cup AutoNAT(D)}} \subseteq FirewallRule
  BY NATType
<1>3. {ForwardRule(f) : f \in D.forwards} \subseteq FirewallRule
  BY <1>1, ForwardType
<1>4. /\ {DenyRule(p) : p \in {q \in D.policies : q.action = "deny"}} \subseteq FirewallRule
      /\ {ForwardOut(p) : p \in Leaves(D)} \subseteq FirewallRule
      /\ {ForwardBack(p) : p \in Leaves(D)} \subseteq FirewallRule
      /\ {DirectMark(p) : p \in {q \in D.policies : q.action = "direct" /\ q.list # Any}}
           \subseteq FirewallRule
  BY <1>1, PolicyRulesType DEF Leaves
<1> QED BY <1>1, <1>2, <1>3, <1>4 DEF Asked

-----------------------------------------------------------------------------
(* Dedupe *)

\* Rules that are alike have the same match, chain and action.
LEMMA Alike ==
  ASSUME NEW q \in FirewallRule, NEW r \in FirewallRule
  PROVE  SameFingerprint(q, r) <=>
           \A x \in {"chain", "src", "dst", "srcList", "dstList", "in", "out", "kinds", "action", "to"} :
             q[x] = r[x]
<1>1. DOMAIN q = DOMAIN r
  BY DEF FirewallRule
<1> QED BY <1>1 DEF SameFingerprint, FirewallRule

\* A set of numbers has a smallest one.
LEMMA Smallest == ASSUME NEW S \in SUBSET Nat, S # {} PROVE \E i \in S : \A j \in S : i <= j
<1> DEFINE Below == {p \in Nat \X Nat : p[1] < p[2]}
<1>1. IsWellFoundedOn(Below, Nat)
  BY NatLessThanWellFounded DEF OpToRel
<1>2. PICK i \in S : \A j \in S : ~(<<j, i>> \in Below)
  BY <1>1, WFMin
<1>3. ASSUME NEW j \in S PROVE i <= j
  <2>1. i \in Nat /\ j \in Nat /\ (j < i => <<j, i>> \in Below)
    OBVIOUS
  <2> QED BY <1>2, <2>1
<1> QED BY <1>3

\* Of the rules alike one is kept, and it stands in front of the others.
LEMMA OneIsKept ==
  ASSUME NEW rules \in SUBSET FirewallRule, NEW r \in rules
  PROVE  \E q \in Dedupe(rules) :
           /\ SameFingerprint(q, r)
           /\ q.class <= r.class /\ (q.class = r.class => q.prio <= r.prio)
<1> DEFINE alike   == {q \in rules : SameFingerprint(q, r)}
           classes == {q.class : q \in alike}
<1>1. r \in alike /\ \A q \in rules : q.class \in Nat /\ q.prio \in Nat /\ q.id \in Nat
  BY DEF SameFingerprint, FirewallRule
<1>2. PICK c \in classes : \A n \in classes : c <= n
  <2>1. classes \in SUBSET Nat /\ classes # {}
    BY <1>1
  <2> QED BY <2>1, Smallest
<1> DEFINE inClass == {q \in alike : q.class = c}
           prios   == {q.prio : q \in inClass}
<1>3. PICK o \in prios : \A n \in prios : o <= n
  <2>1. prios \in SUBSET Nat /\ prios # {}
    BY <1>1, <1>2
  <2> QED BY <2>1, Smallest
<1> DEFINE atPrio == {q \in inClass : q.prio = o}
           ids    == {q.id : q \in atPrio}
<1>4. PICK i \in ids : \A n \in ids : i <= n
  <2>1. ids \in SUBSET Nat /\ ids # {}
    BY <1>1, <1>3
  <2> QED BY <2>1, Smallest
<1>5. PICK q \in atPrio : q.id = i
  BY <1>4
<1>6. ASSUME NEW x \in alike PROVE ~InFront(x, q)
  <2>1. /\ x.class \in Nat /\ x.prio \in Nat /\ x.id \in Nat
        /\ q.class = c /\ q.prio = o /\ q.id = i /\ c \in Nat /\ o \in Nat /\ i \in Nat
    BY <1>1, <1>5
  <2>2. c <= x.class /\ (x.class = c => o <= x.prio) /\ (x.class = c /\ x.prio = o => i <= x.id)
    BY <1>2, <1>3, <1>4
  <2> QED BY <2>1, <2>2 DEF InFront
<1>7. ASSUME NEW x \in rules, SameFingerprint(x, q) PROVE x \in alike
  BY <1>5, <1>7 DEF SameFingerprint
<1>8. q \in Dedupe(rules) /\ SameFingerprint(q, r)
  BY <1>5, <1>6, <1>7 DEF Dedupe
<1>9. q.class <= r.class /\ (q.class = r.class => q.prio <= r.prio)
  BY <1>1, <1>5, <1>6 DEF InFront
<1> QED BY <1>8, <1>9

\* What is asked for is compiled, maybe for another rule alike.
LEMMA AskedIsCompiled ==
  ASSUME NEW D \in Desired, NEW r \in Asked(D), Rendered(r)
  PROVE  \E q \in Dedupe(Asked(D)) :
           /\ q \in FirewallRule /\ SameFingerprint(q, r)
           /\ q.class <= r.class /\ (q.class = r.class => q.prio <= r.prio)
           /\ Compile(q, D.lists) \in Script(D)
<1>1. r \in FirewallRule /\ Asked(D) \in SUBSET FirewallRule
  BY AskedType
<1>2. PICK q \in Dedupe(Asked(D)) :
        /\ SameFingerprint(q, r)
        /\ q.class <= r.class /\ (q.class = r.class => q.prio <= r.prio)
  BY <1>1, OneIsKept
<1>3. q \in FirewallRule /\ Rendered(q)
  BY <1>1, <1>2, Alike DEF Dedupe, Rendered
<1> QED BY <1>2, <1>3 DEF Script

\* What rule of the table stands for a rule without lists that is asked for.
LEMMA Standing ==
  ASSUME NEW D \in Desired, NEW r \in Asked(D), Rendered(r),
         r.srcList = Any, r.dstList = Any, r.kinds = Kinds,
         NEW k \in Packet,
         r.src \in {k.src, Any}, r.dst \in {k.dst, Any}, r.in \in {k.in, Any}, r.out \in {k.out, Any}
  PROVE  \E t \in Script(D) : t.chain = r.chain /\ t.action = r.action /\ Hits(t, k)
<1>1. PICK q \in Dedupe(Asked(D)) :
        q \in FirewallRule /\ SameFingerprint(q, r) /\ Compile(q, D.lists) \in Script(D)
  BY AskedIsCompiled
<1>2. r \in FirewallRule
  BY AskedType
<1>3. /\ q.chain = r.chain /\ q.src = r.src /\ q.dst = r.dst /\ q.srcList = Any /\ q.dstList = Any
      /\ q.in = r.in /\ q.out = r.out /\ q.kinds = Kinds /\ q.action = r.action
  BY <1>1, <1>2, Alike
<1>4. /\ k.src \in Addrs /\ k.dst \in Addrs /\ k.in \in Devices /\ k.out \in Devices /\ k.kind \in Kinds
      /\ q.src \in Addrs \cup {Any} /\ q.dst \in Addrs \cup {Any}
      /\ q.in \in Devices \cup {Any} /\ q.out \in Devices \cup {Any}
  BY <1>1 DEF Packet, FirewallRule
<1>5. /\ k.src \in Addresses(q.src, Any, D.lists) /\ k.dst \in Addresses(q.dst, Any, D.lists)
      /\ k.in \in Through(q.in) /\ k.out \in Through(q.out)
  BY <1>3, <1>4, Admitted
<1>6. Hits(Compile(q, D.lists), k)
  BY <1>3, <1>4, <1>5 DEF Hits, Compile
<1> QED BY <1>1, <1>3, <1>6 DEF Compile

-----------------------------------------------------------------------------
(* The invariant *)

LEMMA NothingIsDesired == Nothing \in Desired /\ Script(Nothing) = {}
<1>1. Nothing \in Desired
  <2>1. <<>> \in [{} -> SUBSET Addrs]
    OBVIOUS
  <2>2. <<>> \in Lists
    BY <2>1 DEF Lists
  <2> QED BY <2>2 DEF Nothing, Desired
<1>2. Leaves(Nothing) = {} /\ AutoNAT(Nothing) = {}
  BY DEF Nothing, Leaves, AutoNAT
<1>3. Asked(Nothing) = {}
  BY <1>2 DEF Nothing, Asked
<1> QED BY <1>1, <1>3 DEF Script, Dedupe

LEMMA Invariant == Spec => []IInv
<1>1. Init => IInv
  BY NothingIsDesired DEF Init, IInv
<1>2. IInv /\ [Next]_vars => IInv'
  <2> SUFFICES ASSUME IInv, [Next]_vars PROVE IInv'
    OBVIOUS
  <2>1. ASSUME NEW D \in Pushes, Push(D) PROVE IInv'
    BY <2>1, PushesAssumption DEF Push, IInv
  <2>2. ASSUME NEW lists \in Lists, EditList(lists) PROVE IInv'
    BY <2>2 DEF EditList, IInv, Desired
  <2>3. CASE Commit
    BY <2>3 DEF Commit, IInv
  <2>4. CASE Refuse \/ UNCHANGED vars
    BY <2>4 DEF Refuse, vars, IInv
  <2> QED BY <2>1, <2>2, <2>3, <2>4 DEF Next
<1> QED BY <1>1, <1>2, PTL DEF Spec

-----------------------------------------------------------------------------
\* Every policy with an egress has its accepts in the table the kernel holds, whatever else is
\* stored, whichever of several rules alike was kept, and however old the table is (Plan,
\* apply.go:341-393; dedupeFirewallRules, firewall.go:62).
THEOREM Accepted == Spec => []EgressIsAccepted
<1>1. IInv => EgressIsAccepted
  <2> SUFFICES ASSUME IInv, NEW p \in Leaves(source), NEW k \in Packet,
                      (k.src = p.src /\ k.out = p.egress) \/ (k.dst = p.src /\ k.in = p.egress)
               PROVE  \E r \in table : r.chain = "forward" /\ r.action = "accept" /\ Hits(r, k)
    BY DEF EgressIsAccepted
  <2>1. source \in Desired /\ table = Script(source)
    BY DEF IInv
  <2>2. ForwardOut(p) \in Asked(source) /\ ForwardBack(p) \in Asked(source)
    BY DEF Asked
  <2>3. CASE k.src = p.src /\ k.out = p.egress
    <3>1. LET r == ForwardOut(p)
          IN  /\ r.chain = "forward" /\ r.action = "accept" /\ r.srcList = Any /\ r.dstList = Any
              /\ r.src = p.src /\ r.dst = Any /\ r.in = Any /\ r.out = p.egress /\ r.kinds = Kinds
      BY DEF ForwardOut, Blank
    <3> QED BY <2>1, <2>2, <2>3, <3>1, Standing DEF Rendered, Chains
  <2>4. CASE k.dst = p.src /\ k.in = p.egress
    <3>1. LET r == ForwardBack(p)
          IN  /\ r.chain = "forward" /\ r.action = "accept" /\ r.srcList = Any /\ r.dstList = Any
              /\ r.src = Any /\ r.dst = p.src /\ r.in = p.egress /\ r.out = Any /\ r.kinds = Kinds
      BY DEF ForwardBack, Blank
    <3> QED BY <2>1, <2>2, <2>4, <3>1, Standing DEF Rendered, Chains
  <2> QED BY <2>3, <2>4
<1> QED BY <1>1, Invariant, PTL

\* And what leaves through it is translated, by an entry the client stored or by one Plan adds,
\* unless all the entries that cover it are snat entries that do not say to what
\* (apply.go:304-339, firewall.go:311-314).
THEOREM Translated == Spec => []EgressIsTranslated
<1>1. IInv => EgressIsTranslated
  <2> SUFFICES ASSUME IInv, NEW p \in Leaves(source), NEW k \in Packet,
                      k.src = p.src, k.out = p.egress,
                      {n \in source.nats : Covers(n, p)} # {} =>
                        \E n \in {n \in source.nats : Covers(n, p)} : Translates(n)
               PROVE  \E r \in table : r.action \in {"masquerade", "snat"} /\ Hits(r, k)
    BY DEF EgressIsTranslated
  <2>1. source \in Desired /\ table = Script(source) /\ ~Known(Any, source.lists)
    BY AnyIsUnknown DEF IInv
  <2>2. \E n \in source.nats \cup AutoNAT(source) : Covers(n, p) /\ Translates(n)
    <3>1. CASE \E n \in source.nats : Covers(n, p)
      BY <3>1
    <3>2. CASE ~\E n \in source.nats : Covers(n, p)
      <4>1. Masquerade(p.id, p.src, p.egress) \in AutoNAT(source)
        BY <3>2 DEF AutoNAT
      <4>2. Covers(Masquerade(p.id, p.src, p.egress), p) /\ Translates(Masquerade(p.id, p.src, p.egress))
        BY DEF Covers, Translates, Masquerade
      <4> QED BY <4>1, <4>2
    <3> QED BY <3>1, <3>2
  <2>3. PICK n \in source.nats \cup AutoNAT(source) : Covers(n, p) /\ Translates(n)
    BY <2>2
  <2>4. n.srcList = Any /\ n.out = p.egress /\ n.src \in {p.src, Any}
    BY <2>3 DEF Covers
  <2>5. n \in Expand(n, source.lists)
    BY <2>1, <2>4 DEF Expand
  <2>6. NATRule(n) \in Asked(source) /\ n.kind \in {"masquerade", "snat"}
    BY <2>1, <2>5, NATType DEF Asked, NAT
  <2>7. LET r == NATRule(n)
        IN  /\ r.chain = "postrouting" /\ r.action = n.kind /\ r.srcList = Any /\ r.dstList = Any
            /\ r.src = n.src /\ r.dst = Any /\ r.in = Any /\ r.out = n.out /\ r.kinds = Kinds
            /\ (n.kind = "snat" => r.to = n.to)
    BY DEF NATRule, Blank
  <2>8. Rendered(NATRule(n))
    BY <2>3, <2>6, <2>7 DEF Rendered, Chains, Translates
  <2> QED BY <2>1, <2>4, <2>6, <2>7, <2>8, Standing
<1> QED BY <1>1, Invariant, PTL

-----------------------------------------------------------------------------
(* Denies *)

\* Where a rule that is asked for comes from.
LEMMA AskedOrigin ==
  ASSUME NEW D \in Desired, NEW x \in Asked(D)
  PROVE  \/ x \in D.rules /\ x.class = 0
         \/ x.class = 1 /\ x.action = "drop"
         \/ x.class \in 2..5 /\ (x.prio >= ForwardPrio \/ x.chain # "forward")
<1>1. CASE x \in D.rules
  BY <1>1, ObjectsAssumption DEF Desired
<1>2. CASE \E p \in D.policies : x = DenyRule(p)
  BY <1>2 DEF DenyRule, Blank
<1>3. CASE \E p \in Leaves(D) : x = ForwardOut(p) \/ x = ForwardBack(p)
  <2>1. ASSUME NEW p, x = ForwardOut(p) PROVE x.class = 2 /\ x.prio = ForwardPrio
    BY <2>1 DEF ForwardOut, Blank
  <2>2. ASSUME NEW p, x = ForwardBack(p) PROVE x.class = 2 /\ x.prio = ForwardPrio
    BY <2>2 DEF ForwardBack, Blank
  <2> QED BY <1>3, <2>1, <2>2 DEF ForwardPrio
<1>4. CASE \E p \in D.policies : x = DirectMark(p)
  BY <1>4 DEF DirectMark, Blank
<1>5. CASE \E n \in UNION {Expand(m, D.lists) : m \in D.nats \cup AutoNAT(D)} : x = NATRule(n)
  BY <1>5 DEF NATRule, Blank
<1>6. CASE \E f \in D.forwards : x = ForwardRule(f)
  BY <1>6 DEF ForwardRule, Blank, ForwardPrio
<1> QED BY <1>1, <1>2, <1>3, <1>4, <1>5, <1>6 DEF Asked

\* Some rule decides a packet that any rule of a forward chain hits.
LEMMA SomeDecide ==
  ASSUME NEW rules, \A r \in rules : r.prio \in Nat,
         NEW k, NEW t \in rules, t.chain = "forward", Hits(t, k)
  PROVE  Deciding(rules, k) # {}
<1> DEFINE hit   == {r \in rules : r.chain = "forward" /\ Hits(r, k)}
           prios == {r.prio : r \in hit}
<1>1. PICK o \in prios : \A n \in prios : o <= n
  <2>1. prios \in SUBSET Nat /\ prios # {}
    OBVIOUS
  <2> QED BY <2>1, Smallest
<1>2. PICK r \in hit : r.prio = o
  BY <1>1
<1>3. ASSUME NEW q \in hit PROVE ~(q.prio < r.prio)
  BY <1>1, <1>2
<1> QED BY <1>2, <1>3 DEF Deciding

\* A deny below 90 holds against everything derived from policies and forwards, and against
\* every explicit rule that is later and not alike (apply.go:255-262).
THEOREM Denied == Spec => []DenyHolds
<1>1. IInv => DenyHolds
  <2> SUFFICES ASSUME IInv, NEW p \in source.policies,
                      p.action = "deny", p.prio < ForwardPrio,
                      \A r \in source.rules : p.prio < r.prio /\ ~SameFingerprint(DenyRule(p), r),
                      NEW k \in Packet, k.src = p.src
               PROVE  Verdicts(table, k) = {"drop"}
    BY DEF DenyHolds
  <2> DEFINE d == DenyRule(p)
  <2>1. source \in Desired /\ table = Script(source) /\ Asked(source) \subseteq FirewallRule
    BY AskedType DEF IInv
  <2>2. /\ d \in Asked(source) /\ d \in FirewallRule
        /\ d.class = 1 /\ d.id = p.id /\ d.prio = p.prio /\ d.prio < ForwardPrio /\ d.chain = "forward"
        /\ d.src = p.src /\ d.dst = Any /\ d.srcList = Any /\ d.dstList = Any /\ d.in = Any
        /\ d.out = Any /\ d.kinds = Kinds /\ d.action = "drop"
    <3>1. d \in Asked(source)
      BY DEF Asked
    <3> QED BY <2>1, <3>1 DEF DenyRule, Blank
  <2> HIDE DEF d
  \* The rule that stands for it is no later.
  <2>3. PICK q \in Dedupe(Asked(source)) :
          /\ q \in FirewallRule /\ SameFingerprint(q, d)
          /\ q.class <= d.class /\ (q.class = d.class => q.prio <= d.prio)
          /\ Compile(q, source.lists) \in Script(source)
    <3>1. Rendered(d)
      BY <2>2 DEF Rendered, Chains
    <3> QED BY <2>1, <2>2, <3>1, AskedIsCompiled
  <2>4. /\ q.chain = "forward" /\ q.src = p.src /\ q.dst = Any /\ q.srcList = Any /\ q.dstList = Any
        /\ q.in = Any /\ q.out = Any /\ q.kinds = Kinds
    BY <2>2, <2>3, Alike
  <2>5. q.class = 1
    <3>1. q \in Asked(source) /\ (q.class = 0 => q \in source.rules)
      BY <2>1, <2>3, AskedOrigin DEF Dedupe
    <3>2. q \notin source.rules
      BY <2>3 DEF d, SameFingerprint
    <3>3. q.class \in Nat
      BY <2>3 DEF FirewallRule
    <3> QED BY <2>2, <2>3, <3>1, <3>2, <3>3
  <2>6. q.prio <= p.prio
    BY <2>2, <2>3, <2>5
  <2> DEFINE t == Compile(q, source.lists)
  <2>7. t \in table /\ t.chain = "forward" /\ Hits(t, k) /\ t.prio = q.prio
    <3>1. /\ k.src \in Addrs /\ k.dst \in Addrs /\ k.in \in Devices /\ k.out \in Devices
          /\ k.kind \in Kinds /\ p.src \in Addrs
      BY DEF Packet
    <3>2. /\ k.src \in Addresses(p.src, Any, source.lists) /\ k.dst \in Addresses(Any, Any, source.lists)
          /\ k.in \in Through(Any) /\ k.out \in Through(Any)
      BY <2>1, <3>1, Admitted
    <3> QED BY <2>1, <2>3, <2>4, <3>1, <3>2 DEF Compile, Hits
  <2>8. \A r \in table : r.prio \in Nat
    BY <2>1 DEF Script, Dedupe, Compile, FirewallRule
  <2>9. ASSUME NEW r \in Deciding(table, k) PROVE r.action = "drop"
    <3>1. PICK x \in Asked(source) : r = Compile(x, source.lists)
      BY <2>1 DEF Deciding, Script, Dedupe
    <3>2. r.chain = "forward" /\ ~(t.prio < r.prio)
      BY <2>7 DEF Deciding
    <3>3. /\ x.chain = "forward" /\ x.action = r.action /\ x.prio = r.prio
          /\ ~(q.prio < x.prio)
      BY <2>7, <3>1, <3>2 DEF Compile
    <3>4. /\ x.prio \in Nat /\ q.prio \in Nat /\ p.prio \in Nat
      BY <2>1, <2>2, <2>3, <3>1 DEF FirewallRule
    <3>5. x \notin source.rules
      BY <2>6, <3>3, <3>4 DEF d
    <3>6. x.prio < ForwardPrio
      BY <2>2, <2>6, <3>3, <3>4 DEF ForwardPrio
    <3> QED BY <2>1, <3>3, <3>4, <3>5, <3>6, AskedOrigin DEF ForwardPrio
  <2>10. Deciding(table, k) # {}
    BY <2>7, <2>8, SomeDecide
  <2> QED BY <2>9, <2>10 DEF Verdicts
<1> QED BY <1>1, Invariant, PTL

-----------------------------------------------------------------------------
(* Marks *)

LEMMA MarksAreDirect ==
  ASSUME \A r \in Rules : r.action # "mark",
         NEW D \in Desired, NEW x \in Asked(D), x.action = "mark"
  PROVE  \E p \in D.policies : p.action = "direct" /\ p.list # Any /\ x = DirectMark(p)
<1>1. x \notin D.rules
  BY DEF Desired
<1>2. \A p : x # DenyRule(p)
  BY DEF DenyRule, Blank
<1>3. \A p : x # ForwardOut(p)
  BY DEF ForwardOut, Blank
<1>4. \A p : x # ForwardBack(p)
  BY DEF ForwardBack, Blank
<1>5. \A n \in UNION {Expand(m, D.lists) : m \in D.nats \cup AutoNAT(D)} : x # NATRule(n)
  <2> SUFFICES ASSUME NEW m \in D.nats \cup AutoNAT(D), NEW n \in Expand(m, D.lists)
               PROVE  x # NATRule(n)
    OBVIOUS
  <2>1. n.kind # "mark"
    BY NATType DEF NAT
  <2> QED BY <2>1 DEF NATRule, Blank
<1>6. \A f \in D.forwards : x # ForwardRule(f)
  <2>1. \A f \in D.forwards : f.action # "mark"
    BY ObjectsAssumption DEF Desired, Forward
  <2> QED BY <2>1 DEF ForwardRule, Blank
<1> QED BY <1>1, <1>2, <1>3, <1>4, <1>5, <1>6 DEF Asked

\* If no explicit rule marks packets, a source's packet is marked for main exactly when a direct
\* policy has its destination listed (apply.go:276-301).
THEOREM Directed ==
  ASSUME \A r \in Rules : r.action # "mark"
  PROVE  Spec => []DirectFollowsList
<1>1. IInv => DirectFollowsList
  <2> SUFFICES ASSUME IInv, NEW s \in Addrs, NEW d \in Addrs,
                      DirectLists(s) \subseteq DOMAIN source.lists
               PROVE  Marked(s, d) <=> \E l \in DirectLists(s) : d \in source.lists[l]
    BY DEF DirectFollowsList
  <2>1. /\ source \in Desired /\ table = Script(source) /\ source.policies \subseteq Policy
        /\ ~Known(Any, source.lists)
    BY AnyIsUnknown, ObjectsAssumption DEF IInv, Desired
  <2>2. ASSUME NEW p \in source.policies
        PROVE  LET r == DirectMark(p)
               IN  /\ r.src = p.src /\ r.srcList = Any /\ r.dstList = p.list
                   /\ r.action = "mark" /\ r.chain = "mangle_prerouting"
                   /\ Addresses(p.src, Any, source.lists) = {p.src}
    <3>1. p.src # Any
      BY <2>1, AnyAssumption DEF Policy
    <3> QED BY <2>1, <3>1 DEF DirectMark, Blank, Addresses
  <2>3. ASSUME Marked(s, d) PROVE \E l \in DirectLists(s) : d \in source.lists[l]
    <3>1. PICK x \in Asked(source) :
            LET r == Compile(x, source.lists) IN r.action = "mark" /\ s \in r.src /\ d \in r.dst
      BY <2>1, <2>3 DEF Marked, Script, Dedupe
    <3>2. x.action = "mark"
      BY <3>1 DEF Compile
    <3>3. PICK p \in source.policies : p.action = "direct" /\ p.list # Any /\ x = DirectMark(p)
      BY <2>1, <3>2, MarksAreDirect
    <3>4. s = p.src
      BY <2>2, <3>1, <3>3 DEF Compile
    <3>5. p.list \in DirectLists(s)
      BY <3>3, <3>4 DEF DirectLists
    <3>6. d \in source.lists[p.list]
      BY <2>2, <3>1, <3>3, <3>5 DEF Compile, Addresses, Known
    <3> QED BY <3>5, <3>6
  <2>4. ASSUME NEW l \in DirectLists(s), d \in source.lists[l] PROVE Marked(s, d)
    <3>1. PICK p \in source.policies : p.action = "direct" /\ p.src = s /\ p.list # Any /\ l = p.list
      BY DEF DirectLists
    <3>2. DirectMark(p) \in Asked(source) /\ DirectMark(p) \in FirewallRule
      BY <2>1, <3>1, AskedType DEF Asked
    <3>3. PICK q \in Dedupe(Asked(source)) :
            /\ q \in FirewallRule /\ SameFingerprint(q, DirectMark(p))
            /\ Compile(q, source.lists) \in Script(source)
      <4>1. Rendered(DirectMark(p))
        BY <2>2 DEF Rendered, Chains
      <4> QED BY <2>1, <3>2, <4>1, AskedIsCompiled
    <3>4. q.src = s /\ q.srcList = Any /\ q.dstList = l /\ q.action = "mark"
      BY <2>2, <3>1, <3>2, <3>3, Alike
    <3>5. LET r == Compile(q, source.lists) IN r.action = "mark" /\ s \in r.src /\ d \in r.dst
      BY <2>2, <2>4, <3>1, <3>4 DEF Compile, Addresses, Known
    <3> QED BY <2>1, <3>3, <3>5 DEF Marked
  <2> QED BY <2>3, <2>4
<1> QED BY <1>1, Invariant, PTL
=============================================================================

------------------------------ MODULE Firewall ------------------------------
(***************************************************************************)
(* The firewall part of a plan: the rules Plan derives from policies       *)
(* (internal/apply/apply.go), what planFirewall (firewall.go) makes of     *)
(* them together with NAT and forward entries, and the single nft          *)
(* transaction planNFTBatch (nftscript.go) renders.  IP lists are edited   *)
(* without an apply (internal/api/server.go, ipLists and ipListOne), so    *)
(* the table in the kernel can be older than the lists.                    *)
(*                                                                         *)
(* Data.  Rules are sets of records: where the code keeps them in a slice, *)
(* class and priority say which comes first, and between equals the id,    *)
(* which stands for the order a map happens to yield them in.  A match is  *)
(* the set of addresses, devices or kinds of packet it admits; chains keep *)
(* the name they have in nft.                                              *)
(***************************************************************************)
EXTENDS Naturals, FiniteSets

CONSTANTS
  Addrs, Devices,   \* addresses and devices of the packets considered
  Kinds,            \* what else of a packet rules look at: connection state, protocol, port
  ListNames,        \* names of IP lists
  Any,              \* an empty match, or no list
  Policies, Rules, NATs, Forwards,   \* objects clients store
  Pushes            \* desired states clients store (see Desired)

ASSUME AnyAssumption == Any \notin Addrs \cup Devices \cup ListNames

Chains  == {"input", "forward", "output", "prerouting", "postrouting", "mangle_prerouting",
            "mangle_postrouting", "mangle_forward", "filter"}
Actions == {"accept", "drop", "masquerade", "snat", "mark"}
MaybeList == ListNames \cup {Any}

Policy == [id : Nat, prio : Nat, action : {"egress", "direct", "deny"}, src : Addrs,
           egress : Devices \cup {Any}, list : MaybeList]
\* Class says where a rule stands in the slice planFirewall is given.
FirewallRule ==
  [class : 0..5, id : Nat, prio : Nat, chain : Chains \cup {"custom"},
   src : Addrs \cup {Any}, dst : Addrs \cup {Any}, srcList : MaybeList, dstList : MaybeList,
   in : Devices \cup {Any}, out : Devices \cup {Any}, kinds : SUBSET Kinds, action : Actions,
   to : Addrs \cup {Any}]   \* to_source of an snat
NAT == [id : Nat, kind : {"masquerade", "snat"}, to : Addrs \cup {Any},
        src : Addrs \cup {Any}, srcList : MaybeList, out : Devices \cup {Any}]
Forward == [id : Nat, src : Addrs \cup {Any}, in : Devices \cup {Any},
            out : Devices \cup {Any}, action : {"accept", "drop"}]

ASSUME ObjectsAssumption ==
  /\ Policies \subseteq Policy
  /\ Rules \subseteq {r \in FirewallRule : r.class = 0}
  /\ NATs \subseteq NAT
  /\ Forwards \subseteq Forward

Lists == UNION {[names -> SUBSET Addrs] : names \in SUBSET ListNames}
Desired == [policies : SUBSET Policies, rules : SUBSET Rules, nats : SUBSET NATs,
            forwards : SUBSET Forwards, lists : Lists]

ASSUME PushesAssumption == Pushes \subseteq Desired

VARIABLES
  desired,    \* the store
  table,      \* the kernel's inet netpolicyd table: compiled rules
  source,     \* the desired state the table was compiled from
  result,     \* of the last nft transaction: "none", "done" or "refused"
  pushes, edits   \* counters

vars == <<desired, table, source, result, pushes, edits>>

CONSTANTS MaxPushes, MaxEdits   \* bounds
ASSUME BoundsAssumption == MaxPushes \in Nat /\ MaxEdits \in Nat

-----------------------------------------------------------------------------
(* Plan: rules derived from policies *)

Blank == [class |-> 0, id |-> 0, prio |-> 0, chain |-> "forward", src |-> Any, dst |-> Any,
          srcList |-> Any, dstList |-> Any, in |-> Any, out |-> Any, kinds |-> Kinds, action |-> "accept",
          to |-> Any]

\* Mutant of DenyRule: the priority a rule has by default.
DenyRuleDefault(p) == [Blank EXCEPT !.class = 1, !.id = p.id, !.prio = 100, !.src = p.src,
                                    !.action = "drop"]

DenyRule(p) == [Blank EXCEPT !.class = 1, !.id = p.id, !.prio = p.prio, !.src = p.src,
                             !.action = "drop"]

\* The priority of the accepts that come with an egress.
ForwardPrio == 90

\* Policies with an egress name get a forward accept, out and back.
Leaves(D) == {p \in D.policies : p.action \in {"egress", "direct"} /\ p.egress # Any}
ForwardOut(p)  == [Blank EXCEPT !.class = 2, !.id = p.id, !.prio = ForwardPrio, !.src = p.src,
                                !.out = p.egress]
\* Mutant of ForwardBack: the way back matches the source again.
ForwardBackSwapped(p) == [Blank EXCEPT !.class = 2, !.id = p.id, !.prio = ForwardPrio, !.src = p.src,
                                       !.in = p.egress]

ForwardBack(p) == [Blank EXCEPT !.class = 2, !.id = p.id, !.prio = ForwardPrio, !.dst = p.src,
                                !.in = p.egress]

\* Direct to a list: mark what goes there, for the rule that routes the mark via main.
DirectMark(p) == [Blank EXCEPT !.class = 3, !.id = p.id, !.prio = p.prio, !.src = p.src,
                               !.chain = "mangle_prerouting", !.dstList = p.list,
                               !.action = "mark"]

\* Mutant of Covers: an entry for the members of a list covers everyone.
CoversByList(n, p) == n.out = p.egress /\ n.src \in {p.src, Any}

\* Masquerading, unless an explicit NAT entry covers the source or all of the device,
\* whatever its kind.
Covers(n, p) == n.srcList = Any /\ n.out = p.egress /\ n.src \in {p.src, Any}
Masquerade(i, src, out) ==
  [id |-> i, kind |-> "masquerade", to |-> Any, src |-> src, srcList |-> Any, out |-> out]
AutoNAT(D) ==
  {Masquerade(p.id, p.src, p.egress) : p \in {q \in Leaves(D) : ~\E n \in D.nats : Covers(n, q)}}

-----------------------------------------------------------------------------
(* planFirewall *)

Known(l, lists) == l \in DOMAIN lists

\* expandNATLists: one entry per address; an unknown or empty list is ignored.
Expand(n, lists) ==
  IF Known(n.srcList, lists) /\ lists[n.srcList] # {}
  THEN {[n EXCEPT !.src = a, !.srcList = Any] : a \in lists[n.srcList]}
  ELSE {n}
NATRule(n) == [Blank EXCEPT !.class = 4, !.id = n.id, !.prio = 500, !.src = n.src,
                            !.chain = "postrouting", !.out = n.out, !.action = n.kind,
                            !.to = IF n.kind = "snat" THEN n.to ELSE Any]
ForwardRule(f) == [Blank EXCEPT !.class = 5, !.id = f.id, !.prio = 100, !.src = f.src,
                                !.in = f.in, !.out = f.out, !.action = f.action]

\* Everything that is asked for.
Asked(D) ==
  D.rules
    \cup {DenyRule(p) : p \in {q \in D.policies : q.action = "deny"}}
    \cup {ForwardOut(p) : p \in Leaves(D)} \cup {ForwardBack(p) : p \in Leaves(D)}
    \cup {DirectMark(p) : p \in {q \in D.policies : q.action = "direct" /\ q.list # Any}}
    \cup {NATRule(n) : n \in UNION {Expand(m, D.lists) : m \in D.nats \cup AutoNAT(D)}}
    \cup {ForwardRule(f) : f \in D.forwards}

\* Mutant of SameFingerprint: with the id.
FingerprintById(q, r) == [q EXCEPT !.class = 0, !.prio = 0] = [r EXCEPT !.class = 0, !.prio = 0]

\* firewallFingerprint: everything but the class, the id and the priority.
SameFingerprint(q, r) ==
  [q EXCEPT !.class = 0, !.id = 0, !.prio = 0] = [r EXCEPT !.class = 0, !.id = 0, !.prio = 0]
InFront(q, r) ==
  \/ q.class < r.class
  \/ q.class = r.class /\ q.prio < r.prio
  \/ q.class = r.class /\ q.prio = r.prio /\ q.id < r.id

\* dedupeFirewallRules: the rule in front stays, with its own priority.
Dedupe(rules) == {r \in rules : ~\E q \in rules : SameFingerprint(q, r) /\ InFront(q, r)}

-----------------------------------------------------------------------------
(* planNFTBatch *)

\* A known list is a set; an unknown one leaves the rule's own address.
Addresses(addr, l, lists) ==
  IF Known(l, lists) THEN lists[l] ELSE IF addr = Any THEN Addrs ELSE {addr}

Through(device) == IF device = Any THEN Devices ELSE {device}

Compile(r, lists) ==
  [prio |-> r.prio, id |-> r.id, chain |-> r.chain, action |-> r.action,
   src |-> Addresses(r.src, r.srcList, lists), dst |-> Addresses(r.dst, r.dstList, lists),
   in |-> Through(r.in), out |-> Through(r.out), kinds |-> r.kinds, to |-> r.to]

\* Only the managed chains are rendered, and no snat that does not say to what.
Rendered(r) == r.chain \in Chains /\ ~(r.action = "snat" /\ r.to = Any)
Script(D) == {Compile(r, D.lists) : r \in {q \in Dedupe(Asked(D)) : Rendered(q)}}

\* A known but empty list is referenced by a rule, and not declared.  (Of rules alike, which
\* have the same lists, one is kept.)
Undeclared(D) ==
  \E l \in DOMAIN D.lists :
    D.lists[l] = {} /\ \E r \in Asked(D) : l \in {r.srcList, r.dstList} /\ Rendered(r)

-----------------------------------------------------------------------------
\* A client stores a desired state.
Push(D) ==
  /\ pushes < MaxPushes
  /\ pushes' = pushes + 1
  /\ desired' = D
  /\ UNCHANGED <<table, source, result, edits>>

\* An IP list is created, replaced, extended or deleted; nothing is applied.
EditList(lists) ==
  /\ edits < MaxEdits
  /\ edits' = edits + 1
  /\ lists # desired.lists
  /\ desired' = [desired EXCEPT !.lists = lists]
  /\ UNCHANGED <<table, source, result, pushes>>

\* Mutant of Commit: lists are compiled as the last apply found them.
CommitOldLists ==
  /\ ~Undeclared(desired)
  /\ table' = Script([desired EXCEPT !.lists = source.lists])
  /\ source' = desired
  /\ result' = "done"
  /\ UNCHANGED <<desired, pushes, edits>>

\* nft -f: the whole table is replaced ...
Commit ==
  /\ ~Undeclared(desired)
  /\ table' = Script(desired)
  /\ source' = desired
  /\ result' = "done"
  /\ UNCHANGED <<desired, pushes, edits>>

\* ... or the transaction is refused and the table stays.
Refuse ==
  /\ Undeclared(desired)
  /\ result' = "refused"
  /\ UNCHANGED <<desired, table, source, pushes, edits>>

Nothing == [policies |-> {}, rules |-> {}, nats |-> {}, forwards |-> {}, lists |-> <<>>]

Init ==
  /\ desired = Nothing
  /\ table = {}
  /\ source = Nothing
  /\ result = "none"
  /\ pushes = 0
  /\ edits = 0

Next ==
  \/ \E D \in Pushes : Push(D)
  \/ \E lists \in Lists : EditList(lists)
  \/ Commit
  \/ Refuse

Spec == Init /\ [][Next]_vars
-----------------------------------------------------------------------------
(* Packets *)

Packet == [src : Addrs, dst : Addrs, in : Devices, out : Devices, kind : Kinds]
Hits(r, k) ==
  /\ k.src \in r.src /\ k.dst \in r.dst /\ k.in \in r.in /\ k.out \in r.out
  /\ k.kind \in r.kinds

\* The rules of a forward chain that may decide a packet: those of the first priority.
\* (Which of several comes first is up to ids, which say nothing.)
Deciding(rules, k) ==
  LET hit == {r \in rules : r.chain = "forward" /\ Hits(r, k)}
  IN  {r \in hit : ~\E q \in hit : q.prio < r.prio}
Verdicts(rules, k) == {r.action : r \in Deciding(rules, k)}

Marked(s, d) == \E r \in table : r.action = "mark" /\ s \in r.src /\ d \in r.dst
DirectLists(s) == {p.list : p \in {q \in source.policies : /\ q.action = "direct" /\ q.src = s
                                                            /\ q.list # Any}}

-----------------------------------------------------------------------------
(* Properties *)

\* Every policy with an egress has a forward accept both ways, whichever rule of several
\* alike was kept (apply.go:341-346: an egress is usable the moment it is declared).
EgressIsAccepted ==
  \A p \in Leaves(source), k \in Packet :
    (k.src = p.src /\ k.out = p.egress) \/ (k.dst = p.src /\ k.in = p.egress) =>
      \E r \in table : r.chain = "forward" /\ r.action = "accept" /\ Hits(r, k)

\* What leaves through the egress of a policy is translated, by an entry of Plan's own or by
\* one the client stored, unless all that cover it are snat entries that do not say to
\* what: they are taken to cover the source and are left out (apply.go:304-339).
Translates(n) == n.kind = "masquerade" \/ n.to # Any
EgressIsTranslated ==
  \A p \in Leaves(source), k \in Packet :
    /\ k.src = p.src /\ k.out = p.egress
    /\ LET covering == {n \in source.nats : Covers(n, p)}
       IN  covering # {} => \E n \in covering : Translates(n)
    => \E r \in table : r.action \in {"masquerade", "snat"} /\ Hits(r, k)

\* A source's packet is marked for main exactly when a list of one of its direct policies
\* has the destination, as long as the table was compiled with those lists known.
DirectFollowsList ==
  \A s, d \in Addrs :
    DirectLists(s) \subseteq DOMAIN source.lists =>
      (Marked(s, d) <=> \E l \in DirectLists(s) : d \in source.lists[l])

\* A deny policy of a priority below 90 drops its source, whatever egress policies and
\* forwards say, unless an explicit rule is not later, or is alike and takes its place with
\* a priority of its own (apply.go:255-262, firewall.go:62).
DenyHolds ==
  \A p \in source.policies :
    /\ p.action = "deny" /\ p.prio < ForwardPrio
    /\ \A r \in source.rules : p.prio < r.prio /\ ~SameFingerprint(DenyRule(p), r)
    => \A k \in Packet : k.src = p.src => Verdicts(table, k) = {"drop"}

(* What a document says and the code does not do. *)

\* After a successful apply the managed table matches the desired state
\* (docs/CONFIGURATION.md:42), so what a stored NAT entry covers is translated.
NATIsInPlace ==
  \A n \in source.nats, k \in Packet :
    n.srcList = Any /\ n.src \in {k.src, Any} /\ n.out \in {k.out, Any} =>
      \E r \in table : r.action \in {"masquerade", "snat"} /\ Hits(r, k)
=============================================================================

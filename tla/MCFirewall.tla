----------------------------- MODULE MCFirewall -----------------------------
(* Instances of Firewall for TLC: two clients and one remote address, a wan *)
(* and a tunnel device, one IP list.                                        *)
EXTENDS Firewall

Egress(i, s) == [id |-> i, prio |-> 100, action |-> "egress", src |-> s, egress |-> "gre0",
                 list |-> Any]
ToList(i, s) == [id |-> i, prio |-> 50, action |-> "direct", src |-> s, egress |-> Any,
                 list |-> "iran"]
\* Direct, and out through a device of its own.
OutOf(i, s)  == [ToList(i, s) EXCEPT !.egress = "wan0", !.list = Any]
Forbid == [ToList(5, "a") EXCEPT !.action = "deny", !.list = Any, !.prio = 80]

MCPolicies == {Egress(1, "a"), ToList(2, "a"), Egress(3, "b"), OutOf(4, "b"), Forbid}

\* The client's own copy of the accept an egress gets, and a drop, both after it.
Copy == [Blank EXCEPT !.id = 11, !.prio = 200, !.src = "a", !.out = "gre0"]
Drop == [Blank EXCEPT !.id = 12, !.prio = 150, !.src = "a", !.action = "drop"]
Custom == [Blank EXCEPT !.id = 13, !.chain = "custom", !.action = "drop"]
MCRules == {Copy, Drop, Custom}

\* NAT for one source, for the members of a list, and for the whole device; the last one
\* may be an snat to the other address, or an unfinished one.
OneSource  == Masquerade(21, "a", "gre0")
OneList    == [Masquerade(22, Any, "gre0") EXCEPT !.srcList = "iran"]
Whole      == [Masquerade(23, Any, "gre0") EXCEPT !.kind = "snat", !.to = "x"]
Unfinished == [Masquerade(24, Any, "gre0") EXCEPT !.kind = "snat"]
MCNATs == {OneSource, OneList, Whole, Unfinished}

MCForwards == {[id |-> 31, src |-> Any, in |-> Any, out |-> "wan0", action |-> "accept"]}

\* Every combination, with the policy that denies a client only where there is no NAT and the
\* unfinished entry only where there are no forwards.
Everything == {D \in Desired : /\ D.lists \in {<<>>, [iran |-> {"x"}]}
                               /\ Forbid \in D.policies => D.nats = {}
                               /\ Unfinished \in D.nats => D.forwards = {}}
=============================================================================

-------------------------- MODULE MCPolicyRouting --------------------------
(* Instances of PolicyRouting for TLC: two sources, two egresses.           *)
EXTENDS PolicyRouting

TwoNames   == <<"de0", "zur0">>

Via(s, e)    == [action |-> "egress", src |-> s, egress |-> e, dest |-> "any", prio |-> 5, mark |-> 0]
Marked(s, e, m) == [Via(s, e) EXCEPT !.mark = m]
Direct(s, d) == [Via(s, "de0") EXCEPT !.action = "direct", !.dest = d, !.prio = 4]
Guard(s)     == [from |-> s, prio |-> 10500, table |-> Blackhole]
Auto(s)      == [from |-> s, prio |-> 0, table |-> Main]

Want(policies, rules) == [policies |-> policies, rules |-> rules, routes |-> {}]
Nothing == Want({}, {})

\* Sources move between egresses, to direct and back, and go away; one has a guard.
Moves ==
  {Nothing, Want({Via("a", "de0")}, {}), Want({Via("a", "zur0"), Via("b", "zur0")}, {Guard("a")}),
   Want({Via("a", "de0"), Via("b", "de0")}, {Guard("a")}),
   Want({Direct("a", "any"), Direct("b", "list")}, {})}
\* Each source keeps to one egress, and egresses come into and go out of use.
Names == {Nothing, Want({Via("a", "de0")}, {}), Want({Via("b", "zur0")}, {}),
          Want({Via("a", "de0"), Via("b", "zur0")}, {})}
\* One source changes its egress.
Switch == {Want({Via("a", "de0")}, {}), Want({Via("a", "zur0")}, {})}
Guards == {Want({}, {Guard("a")})}
\* A source's policy has a priority of 1000, and goes away.
Late == {Want({Via("b", "de0"), [Via("a", "zur0") EXCEPT !.prio = 1000]}, {}), Want({Via("b", "de0")}, {})}
\* A source's rule above the band and a mark's below it.
Manual == {[from |-> "a", mark |-> 0, prio |-> 20000, table |-> Main],
           [from |-> All, mark |-> 2, prio |-> 200, table |-> Main]}
\* Every kind of item, an explicit route included.
Kinds == {[policies |-> {Marked("a", "de0", 1), Direct("b", "list")}, rules |-> {Guard("a"), Auto("b")},
           routes |-> {[dev |-> "zur0", table |-> 102]}],
          Want({Marked("a", "zur0", 1)}, {Guard("b")})}
\* Plans with items and nothing to keep: a direct list, a rule for all sources.
Sparse == {Want({Direct("b", "list")}, {Auto(All)}), Want({Direct("a", "any"), Direct("b", "list")}, {})}

\* Explicit rules and routes where policies have theirs, and a policy above the band.
Clashes == {[Want({Via("a", "de0"), Via("b", "de0")}, {}) EXCEPT !.routes = {[dev |-> "zur0", table |-> 100]}],
            Want({Via("b", "zur0")}, {[from |-> "a", prio |-> 10005, table |-> 101]}),
            Want({[Via("a", "zur0") EXCEPT !.prio = 10000]},
                 {[from |-> All, prio |-> 10005, table |-> 100]})}

With(D, n, failing, tearing, happening) ==
  [pushes |-> D, flows |-> FALSE, conntrack |-> TRUE, applies |-> n, failures |-> failing, torn |-> tearing,
   events |-> happening]
Flowing(sc) == [sc EXCEPT !.flows = TRUE]
WithoutTool(sc) == [sc EXCEPT !.conntrack = FALSE]

\* The scenarios of the passing run, and one for each statement that fails.
MCScenarios == {With(Moves, 4, 1, 1, 1), With(Moves, 3, 2, 0, 1), WithoutTool(With(Names, 5, 2, 0, 2)),
                With(Kinds, 3, 2, 0, 1), With(Sparse, 4, 1, 0, 1), With(Clashes, 3, 1, 0, 1),
                Flowing(With(Switch, 4, 0, 0, 0))}
Leaving   == {With(Late, 2, 0, 0, 0)}
Guarding  == {With(Guards, 2, 0, 0, 0)}
=============================================================================

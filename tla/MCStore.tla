------------------------------ MODULE MCStore -------------------------------
(* Instances of Store for TLC: a collection of each kind, objects with and   *)
(* without ids, names that are also ids, a list that a push renames.         *)
EXTENDS Store

Thing(i, n, b) == [id |-> i, name |-> n, body |-> b]
Good == {"x"}
MCOrder == <<"policies", "routes", "firewall", "sysctls", "lists">>

Of(c, q) == [d \in {c} |-> q]
All(q) == [d \in {"policies", "routes", "firewall", "sysctls", "lists"} |-> q]

\* Two controllers that know their objects by id: lists 1 and 2, named either way round,
\* two objects with one id, and one that lacks a field or is refused.
ByIds == {All(<<Thing(1, 3, Good)>>), All(<<Thing(1, 4, Good), Thing(2, 3, Good)>>),
          All(<<Thing(2, 3, Good), Thing(2, 4, {"y"})>>),
          Of("firewall", <<Thing(1, 3, {}), Thing(2, 4, {"bad"})>>),
          Of("routes", <<Thing(1, 3, {"bad"})>>)}
\* And one that sends a list without an id.
MCPushes == ByIds \cup {Of("lists", <<Thing(NoId, 3, Good)>>)}
\* Calls of the handlers of single objects, with and without ids.
MCEdits ==
  {Call("upsert", "lists", Thing(NoId, 1, Good)), Call("upsert", "lists", Thing(NoId, 3, {"bad"})),
   Call("upsert", "lists", Thing(1, 4, {})),
   Call("append", "lists", [ref |-> 3, body |-> {"bad"}]),
   Call("append", "lists", [ref |-> 1, body |-> {"y"}]),
   Call("delete", "lists", [ref |-> 1]), Call("delete", "sysctls", [ref |-> 3]),
   Call("update", "policies", [id |-> 1, body |-> {"y"}]),
   Call("update", "policies", [id |-> 1, body |-> {"bad"}])}
=============================================================================

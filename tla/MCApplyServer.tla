--------------------------- MODULE MCApplyServer ---------------------------
(* An instance of ApplyServer for TLC with two collections: "policies" is     *)
(* replaced by a push; "lists" is merged, and its own handlers do not apply.  *)
EXTENDS ApplyServer, TLC

MCDesiredOrder == <<"policies", "lists">>
MCPlanOrder    == <<"policies", "lists">>
\* Every handler.
Everyone == {r \in AllRequests : r.op = "push" => r.fwd # {TRUE}}
\* The requests of the run that also checks liveness: pushes of everything and of what is
\* replaced, the second with ip_forward.
Varied ==
  {r \in Everyone : /\ r.op = "push" => \/ r.coll = Collections /\ r.fwd = {}
                                        \/ r.coll = Replaced /\ r.fwd = {FALSE}
                    /\ r.op = "forward" => r.fwd = {FALSE}}
Symmetry == Permutations(Threads)
=============================================================================

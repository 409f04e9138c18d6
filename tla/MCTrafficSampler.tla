--------------------------- MODULE MCTrafficSampler ---------------------------
(* An instance of TrafficSampler for TLC.  A behaviour is about one of:      *)
(* polls one after the other, of interfaces that stay, or come and go; while *)
(* the clock is set and the daemon restarts; polls by two clients at once;   *)
(* sockets.                                                                  *)
EXTENDS TrafficSampler, TLC

Still == [ticks |-> 0, steps |-> 0, flaps |-> 0, churn |-> 0, fails |-> 0, requests |-> 0,
          restarts |-> 0, together |-> 1, ss |-> FALSE]
Poll   == [Still EXCEPT !.ticks = 3, !.fails = 1, !.requests = 3]
InTurn == [Poll EXCEPT !.ticks = 2, !.flaps = 2]
Anew   == [Poll EXCEPT !.ticks = 2, !.steps = 1, !.restarts = 1]
AtOnce == [Poll EXCEPT !.ticks = 2, !.together = 2]
OfSockets == [Still EXCEPT !.churn = 3, !.fails = 3, !.requests = 1, !.restarts = 1,
                            !.ss = TRUE]
MCBudgets == {Poll, InTurn, Anew, AtOnce, OfSockets}

Symmetry == Permutations(Requests)
=============================================================================

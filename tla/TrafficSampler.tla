---------------------------- MODULE TrafficSampler ----------------------------
(***************************************************************************)
(* GET /v1/traffic (internal/host/traffic.go, CollectTraffic): the bytes   *)
(* each interface carried since the reading another request left behind,   *)
(* and the sockets three calls of ss list, one after the other, while      *)
(* interfaces, clock and connections go on changing.                       *)
(*                                                                         *)
(* Data.  A rate is kept as its two parts, bytes and interval.  One tick   *)
(* of time is the 50 ms below which an interval is not taken, and an       *)
(* interface carries at most one byte a tick.  Received bytes stand for    *)
(* the four counters, which are treated alike.                             *)
(***************************************************************************)
EXTENDS Integers, FiniteSets, FiniteSetsExt

CONSTANTS
  Ifaces, Ignored,   \* interfaces, and those that are not interesting
  Conns, Udp,        \* sockets, and which of them are UDP
  Requests,          \* concurrent requests
  MaxConns,          \* connections the answer lists
  None,              \* no reading yet
  Budgets            \* bounds, of which a behaviour has one (see Budget)

\* How often the clock ticks or is set, interfaces or sockets change, calls fail, requests
\* come and the daemon restarts; how many requests run together; whether the host has ss.
Budget == [ticks : Nat, steps : Nat, flaps : Nat, churn : Nat, fails : Nat, requests : Nat,
           restarts : Nat, together : Nat, ss : BOOLEAN]

ASSUME NamesAssumption == Ignored \subseteq Ifaces /\ Udp \subseteq Conns /\ MaxConns \in Nat
ASSUME FiniteAssumption == IsFiniteSet(Ifaces) /\ IsFiniteSet(Conns)
ASSUME BudgetsAssumption == Budgets \subseteq Budget

\* A reading: a counter for each interface that existed.
IsReading(f)  == \E S \in SUBSET Ifaces : f \in [S -> Nat]
IsBaseline(b) == \E S \in SUBSET Ifaces : b \in [at : Nat, ifaces : [S -> Nat]]
ASSUME NoneAssumption == ~IsReading(None) /\ ~IsBaseline(None)

Counts == {"total", "established"}
SocketState == {"closed", "established", "listen"}
Row == [conn : Conns, state : SocketState \ {"closed"}, call : 1..3]

VARIABLES
  now, wall,     \* the monotonic clock and the one NTP sets
  counters,      \* of the interfaces that exist
  sockets,
  trafficLast,   \* the baseline: when, and which counters; or None
  pc,            \* "idle", "begun", "read", "1", "2", "3" or "4"
  req,           \* what a request holds, and its answer when it is idle again: see Empty
  left,          \* of the budget
  \* history, which the code does not keep:
  first,         \* the first baseline of this process
  reported,      \* bytes answered for each interface since then
  recounted,     \* a request stored after another had stored since it began
  again,         \* interfaces of which a reading that failed told bytes
  broken         \* interfaces that disappeared at some time

world   == <<now, wall, counters, sockets, broken>>
sampler == <<trafficLast, first, reported, recounted, again>>
vars == <<world, sampler, pc, req, left>>

Spend(what) == left[what] > 0 /\ left' = [left EXCEPT ![what] = @ - 1]

-----------------------------------------------------------------------------
(* The host *)

\* Time passes; the interfaces of S carry a byte.
Tick(S) ==
  /\ Spend("ticks")
  /\ now' = now + 1 /\ wall' = wall + 1
  /\ counters' = [i \in DOMAIN counters |-> IF i \in S THEN counters[i] + 1 ELSE counters[i]]
  /\ UNCHANGED <<sockets, broken, sampler, pc, req>>

\* NTP sets the clock back.
Step ==
  /\ Spend("steps")
  /\ wall' = 0
  /\ UNCHANGED <<now, counters, sockets, broken, sampler, pc, req>>

\* An interface goes away; or comes, counting from zero.
Flap(i) ==
  /\ Spend("flaps")
  /\ counters' = IF i \in DOMAIN counters
                 THEN [j \in DOMAIN counters \ {i} |-> counters[j]]
                 ELSE [j \in DOMAIN counters \cup {i} |-> IF j = i THEN 0 ELSE counters[j]]
  /\ broken' = broken \cup {i}
  /\ UNCHANGED <<now, wall, sockets, sampler, pc, req>>

\* A socket changes its state, under the eyes of the requests that run.
Change(c, state) ==
  /\ Spend("churn")
  /\ sockets[c] # state
  /\ sockets' = [sockets EXCEPT ![c] = state]
  /\ req' = [r \in Requests |->
               IF pc[r] = "idle" THEN req[r]
               ELSE [req[r] EXCEPT !.stable = @ \ {<<c, sockets[c]>>},
                                   !.seen = IF state = "established" THEN @ \cup {c} ELSE @]]
  /\ UNCHANGED <<now, wall, counters, broken, sampler, pc>>

-----------------------------------------------------------------------------
(* CollectTraffic *)

\* Mutant of Clock: the time of day.
ClockWall == wall

Clock == now

Established == {c \in Conns : sockets[c] = "established"}

\* The clock, the reading, the rates; the rows of ss, which calls succeeded, the answer.
\* History: when the request began and read, whether another stored since it began, which
\* sockets kept their state since, and which were established at some time.
Empty == [mono |-> 0, ifaces |-> <<>>, err |-> FALSE,
          delta |-> [i \in Ifaces |-> 0], total |-> 0, interval |-> 0,
          rows |-> {}, ok |-> {}, counts |-> [k \in Counts |-> 0], list |-> {},
          begunAt |-> 0, readAt |-> 0, overlapped |-> FALSE, stable |-> {}, seen |-> {}]

\* A request comes and looks at the clock first.
Begin(r) ==
  /\ pc[r] = "idle"
  /\ Cardinality({q \in Requests : pc[q] # "idle"}) < left.together
  /\ Spend("requests")
  /\ req' = [req EXCEPT ![r] =
       [Empty EXCEPT !.mono = Clock, !.begunAt = now, !.readAt = now,
                     !.stable = {<<c, sockets[c]>> : c \in Conns}, !.seen = Established]]
  /\ pc' = [pc EXCEPT ![r] = "begun"]
  /\ UNCHANGED <<world, sampler>>

\* readProcNetDev; when it fails it returns, with the error, the lines S it read until then:
\* none if the file could not be opened, and the others if reading on failed.
ReadCounters(r) ==
  /\ pc[r] = "begun"
  /\ \/ /\ req' = [req EXCEPT ![r].ifaces = counters, ![r].readAt = now]
        /\ UNCHANGED left
     \/ /\ Spend("fails")
        /\ \E S \in SUBSET DOMAIN counters :
             req' = [req EXCEPT ![r].ifaces = [i \in S |-> counters[i]], ![r].readAt = now,
                                ![r].err = TRUE]
  /\ pc' = [pc EXCEPT ![r] = "read"]
  /\ UNCHANGED <<world, sampler>>

\* Mutant of Carried: a counter that was reset is subtracted like any other.
CarriedNegative(i, cur, prev) == IF i \in DOMAIN cur \cap DOMAIN prev THEN cur[i] - prev[i] ELSE 0

\* What an interface carried: nothing known without a baseline, nothing after a reset.
Carried(i, cur, prev) ==
  IF i \in DOMAIN cur \cap DOMAIN prev /\ cur[i] > prev[i] THEN cur[i] - prev[i] ELSE 0

\* Mutant of Advances: a failed reading becomes the baseline.
AdvancesAlways(r) == TRUE

Advances(r) == ~req[r].err

\* The interfaces' bytes together: as many as there are pairs of an interface and a byte of its.
Total(delta) == Cardinality(UNION {{i} \X (1..delta[i]) : i \in Ifaces})

\* Under trafficMu: the rates, of a failed reading's lines too; the baseline advances on a good
\* reading only.
Rates(r) ==
  LET prev == IF trafficLast = None THEN <<>> ELSE trafficLast.ifaces
      delta == [i \in Ifaces |-> IF i \in Ignored THEN 0 ELSE Carried(i, req[r].ifaces, prev)]
  IN  /\ pc[r] = "read"
      /\ req' = [q \in Requests |->
           IF q = r
           THEN [req[r] EXCEPT
                   !.delta = delta,
                   !.total = Total(delta),
                   !.interval = IF trafficLast = None THEN 0
                                ELSE Max({1, req[r].mono - trafficLast.at})]
           ELSE [req[q] EXCEPT !.overlapped = @ \/ (pc[q] \in {"begun", "read"} /\ Advances(r))]]
      /\ IF Advances(r)
         THEN /\ trafficLast' = [at |-> req[r].mono, ifaces |-> req[r].ifaces]
              /\ first' = IF first = None THEN req[r].ifaces ELSE first
              /\ recounted' = (recounted \/ req[r].overlapped)
              /\ UNCHANGED again
         ELSE /\ again' = again \cup {i \in Ifaces : delta[i] > 0}
              /\ UNCHANGED <<trafficLast, first, recounted>>
      /\ reported' = [i \in Ifaces |-> reported[i] + delta[i]]
      /\ pc' = [pc EXCEPT ![r] = IF left.ss THEN "1" ELSE "4"]
      /\ UNCHANGED <<world, left>>

\* Mutant of Skipped: established sockets are never skipped.
SkippedNone(r) == FALSE

\* The full TCP table repeats the established sockets, if the first call had any.
Skipped(r) == \E row \in req[r].rows : row.call = 1

\* What a call of ss lists: established TCP, all of TCP, UDP.
Listed(r, call) ==
  {[conn |-> c, state |-> sockets[c], call |-> call] :
     c \in {d \in Conns :
              /\ sockets[d] # "closed"
              /\ CASE call = 1 -> d \notin Udp /\ sockets[d] = "established"
                   [] call = 2 -> d \notin Udp /\ ~(Skipped(r) /\ sockets[d] = "established")
                   [] call = 3 -> d \in Udp}}

\* collectSS: a call that fails is left out.
CallSS(r, at, call, then) ==
  /\ pc[r] = at
  /\ \/ /\ req' = [req EXCEPT ![r].rows = @ \cup Listed(r, call), ![r].ok = @ \cup {call}]
        /\ UNCHANGED left
     \/ Spend("fails") /\ UNCHANGED req
  /\ pc' = [pc EXCEPT ![r] = then]
  /\ UNCHANGED <<world, sampler>>

SS(r) ==
  \/ CallSS(r, "1", 1, "2") \/ CallSS(r, "2", 2, "3") \/ CallSS(r, "3", 3, "4")

Cuts(rows) == {list \in SUBSET rows : Cardinality(list) = Min({MaxConns, Cardinality(rows)})}

\* Mutant of Counted: what is counted is cut like the list.
CountedCut(rows) == CHOOSE list \in Cuts(rows) : TRUE

\* All rows are counted, and so many are listed.
Counted(rows) == rows

Answer(r) ==
  /\ pc[r] = "4"
  /\ \E list \in Cuts(req[r].rows) :
       LET counted == Counted(req[r].rows)
       IN  req' = [req EXCEPT ![r].list = list,
                     ![r].counts = [total |-> Cardinality(counted), established |->
                                      Cardinality({x \in counted : x.state = "established"})]]
  /\ pc' = [pc EXCEPT ![r] = "idle"]
  /\ UNCHANGED <<world, sampler, left>>

\* The baseline is kept in memory only, and the requests under way get no answer.
Restart ==
  /\ Spend("restarts")
  /\ trafficLast' = None /\ first' = None
  /\ reported' = [i \in Ifaces |-> 0] /\ recounted' = FALSE /\ again' = {}
  /\ pc' = [r \in Requests |-> "idle"] /\ req' = [r \in Requests |-> Empty]
  /\ UNCHANGED world

Init ==
  /\ now = 1 /\ wall = 1
  /\ counters = [i \in Ifaces |-> 0]
  /\ left \in Budgets
  /\ sockets \in [Conns -> SocketState]
  /\ left.churn = 0 => \A c \in Conns : sockets[c] = "closed"
  /\ trafficLast = None /\ first = None
  /\ reported = [i \in Ifaces |-> 0] /\ recounted = FALSE /\ again = {}
  /\ broken = {}
  /\ pc = [r \in Requests |-> "idle"]
  /\ req = [r \in Requests |-> Empty]

Next ==
  \/ \E S \in SUBSET Ifaces : Tick(S)
  \/ Step
  \/ \E i \in Ifaces : Flap(i)
  \/ \E c \in Conns, state \in SocketState : Change(c, state)
  \/ \E r \in Requests : Begin(r) \/ ReadCounters(r) \/ Rates(r) \/ SS(r) \/ Answer(r)
  \/ Restart

Spec == Init /\ [][Next]_vars
-----------------------------------------------------------------------------
(* Properties *)

\* Every variable has its type; what was carried is never negative.
TypeOK ==
  /\ now \in Nat /\ wall \in Nat
  /\ IsReading(counters)
  /\ sockets \in [Conns -> SocketState]
  /\ IsBaseline(trafficLast) \/ trafficLast = None
  /\ \A r \in Requests : req[r].delta \in [Ifaces -> Nat] /\ req[r].interval \in Nat
                         /\ req[r].rows \subseteq Row /\ req[r].list \subseteq req[r].rows

\* As long as requests do not overlap, the answers together tell every byte an interface that
\* stayed carried between the first reading and the last good one, whatever polls failed in
\* between: and once, unless a reading that failed half-way told of the interface, which leaves
\* the baseline where it was (traffic.go:106-110, 186).
NothingLost ==
  (trafficLast # None /\ ~recounted) =>
    \A i \in Ifaces \ (Ignored \cup broken) :
      /\ i \in DOMAIN trafficLast.ifaces \cap DOMAIN first
      /\ reported[i] >= trafficLast.ifaces[i] - first[i]
      /\ reported[i] > trafficLast.ifaces[i] - first[i] => i \in again

\* A request that overlaps no other never answers more than the interesting interfaces can
\* carry in its interval, plus the time it lost before its reading: whatever the clock,
\* counters or failed polls did (traffic.go:36-37: no fake spikes).
NoSpike ==
  \A r \in Requests :
    ~req[r].overlapped =>
      req[r].total <= Cardinality(Ifaces \ Ignored)
                        * (req[r].interval + (req[r].readAt - req[r].begunAt))

\* The calls of ss that would list a socket in a state.
Listing(c, state) ==
  IF c \in Udp THEN {3} ELSE IF state = "listen" THEN {2} ELSE {1, 2}

\* A socket that keeps its state while ss runs is counted once, if a call that lists it did not
\* fail, however many sockets there are (traffic.go:119-120: real totals; 215: rich rows win).
StableAreCounted ==
  \A r \in Requests : pc[r] = "idle" =>
    LET kept == {s \in req[r].stable : s[2] # "closed" /\ Listing(s[1], s[2]) \cap req[r].ok # {}}
    IN  /\ \A s \in kept : Cardinality({row \in req[r].rows : row.conn = s[1]}) = 1
        /\ req[r].counts["total"] >= Cardinality(kept)
        /\ req[r].counts["established"] >= Cardinality({s \in kept : s[2] = "established"})

\* No answer counts more established connections than there were while it was made, whatever
\* opens or closes between the calls that both list them.
EstablishedIsReal ==
  \A r \in Requests :
    pc[r] = "idle" => req[r].counts["established"] <= Cardinality(req[r].seen)
=============================================================================

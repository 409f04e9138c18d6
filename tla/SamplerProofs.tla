---------------------------- MODULE SamplerProofs ----------------------------
(***************************************************************************)
(* Theorems about TrafficSampler, for any interfaces, sockets, requests    *)
(* and bounds: the answers tell every byte, once but for what a reading    *)
(* that failed half-way told, and no more than could be carried; and they  *)
(* count the sockets as they were.                                         *)
(***************************************************************************)
EXTENDS TrafficSampler, FiniteSetTheorems, TLAPS

Waiting == {"begun", "read"}
Steady  == Ifaces \ broken

\* What the argument needs of types.  Of a request it looks at four fields.
Fields == {"mono", "ifaces", "err", "overlapped"}
Types ==
  /\ now \in Nat /\ IsReading(counters) /\ broken \subseteq Ifaces
  /\ (IsBaseline(trafficLast) \/ trafficLast = None) /\ (IsReading(first) \/ first = None)
  /\ reported \in [Ifaces -> Int]
  /\ DOMAIN pc = Requests /\ DOMAIN req = Requests
  /\ \A r \in Requests : Fields \subseteq DOMAIN req[r]

\* An interface that stays has a counter, which was not higher at the baseline.
Growing ==
  /\ \A i \in Steady : i \in DOMAIN counters
  /\ trafficLast # None => \A i \in Steady :
       /\ i \in DOMAIN trafficLast.ifaces /\ i \in DOMAIN first
       /\ trafficLast.ifaces[i] <= counters[i]

\* What a request that has read holds: lines of a reading, all of them if it did not fail, that
\* are not newer than the counters, and not older than the baseline if no other request stored
\* one in between.
Holds(r) ==
  /\ req[r].mono \in Nat
  /\ pc[r] = "begun" => ~req[r].err /\ DOMAIN req[r].ifaces = {}
  /\ pc[r] = "read" =>
       /\ IsReading(req[r].ifaces)
       /\ ~req[r].err => \A i \in Steady : i \in DOMAIN req[r].ifaces
       /\ \A i \in Steady \cap DOMAIN req[r].ifaces :
            /\ req[r].ifaces[i] <= counters[i]
            /\ trafficLast # None /\ ~req[r].overlapped => trafficLast.ifaces[i] <= req[r].ifaces[i]
AllHold == \A r \in Requests : pc[r] \in Waiting => Holds(r)

\* Nothing was told before the first baseline.
Begun ==
  /\ trafficLast = None <=> first = None
  /\ first = None => \A i \in Ifaces : reported[i] = 0

\* Requests keep the fields of Empty.
Shape ==
  /\ DOMAIN pc = Requests /\ DOMAIN req = Requests
  /\ \A r \in Requests : DOMAIN req[r] = DOMAIN Empty

\* The inductive invariant.
IInv == Types /\ Growing /\ AllHold /\ Begun /\ NothingLost

\* A reading's counters are numbers.
LEMMA ReadingType ==
  ASSUME NEW f, IsReading(f)
  PROVE  DOMAIN f \subseteq Ifaces /\ \A i \in DOMAIN f : f[i] \in Nat
BY DEF IsReading

\* And a baseline's fields are a time and a reading.
LEMMA BaselineType ==
  /\ \A b : IsBaseline(b) => b.at \in Nat /\ IsReading(b.ifaces)
  /\ \A f : IsReading(f) => \A at \in Nat : IsBaseline([at |-> at, ifaces |-> f])
BY DEF IsBaseline, IsReading

-----------------------------------------------------------------------------
(* Steps that leave the sampler alone *)

\* Time may pass, interfaces may break, and a request may leave Waiting or change fields the
\* argument does not look at.
Aside ==
  /\ UNCHANGED sampler
  /\ now' \in Nat /\ IsReading(counters') /\ broken \subseteq broken' /\ broken' \subseteq Ifaces
  /\ \A i \in Ifaces \ broken' : i \in DOMAIN counters' /\ counters'[i] >= counters[i]
  /\ DOMAIN pc' = Requests /\ DOMAIN req' = Requests
  /\ \A r \in Requests :
       /\ Fields \subseteq DOMAIN req'[r]
       /\ pc'[r] \in Waiting => /\ pc'[r] = pc[r]
                                /\ \A x \in Fields : req'[r][x] = req[r][x]

\* Such a step preserves the invariant.
LEMMA AsideStep == IInv /\ Aside => IInv'
<1> SUFFICES ASSUME IInv, Aside PROVE IInv'
  OBVIOUS
<1>1. Types' /\ Begun'
  BY DEF IInv, Aside, Types, Begun, sampler
<1>2. /\ Steady' \subseteq Steady
      /\ \A i \in Steady' : counters[i] \in Nat /\ counters'[i] \in Nat /\ counters'[i] >= counters[i]
  <2>1. IsReading(counters) /\ IsReading(counters') /\ \A i \in Steady : i \in DOMAIN counters
    BY DEF IInv, Types, Growing, Aside
  <2>2. Steady' \subseteq Steady
    BY DEF Steady, Aside
  <2> QED BY <2>1, <2>2, ReadingType DEF Steady, Aside
<1>3. trafficLast # None =>
        /\ IsReading(trafficLast.ifaces)
        /\ \A i \in Steady : trafficLast.ifaces[i] \in Nat
  BY ReadingType, BaselineType DEF IInv, Types, Growing
<1>4. Growing'
  BY <1>2, <1>3 DEF IInv, Growing, Aside, Steady, sampler
<1>5. ASSUME NEW r \in Requests, pc'[r] \in Waiting PROVE Holds(r)'
  <2>1. /\ pc'[r] = pc[r] /\ req'[r].mono = req[r].mono /\ req'[r].ifaces = req[r].ifaces
        /\ req'[r].err = req[r].err /\ req'[r].overlapped = req[r].overlapped
        /\ UNCHANGED trafficLast
    BY <1>5 DEF Aside, Fields, sampler
  <2>2. Holds(r)
    BY <1>5, <2>1 DEF IInv, AllHold
  <2>3. pc[r] = "read" => \A i \in DOMAIN req[r].ifaces : req[r].ifaces[i] \in Nat
    BY <2>2, ReadingType DEF Holds
  <2> QED BY <1>2, <2>1, <2>2, <2>3 DEF Holds
<1>6. NothingLost'
  BY DEF IInv, NothingLost, Aside, sampler
<1> QED BY <1>1, <1>4, <1>5, <1>6 DEF IInv, AllHold

\* What the host does, the sockets, and an answer are aside.
LEMMA HostAside ==
  ASSUME IInv,
         \/ Step \/ \E S \in SUBSET Ifaces : Tick(S)
         \/ \E i \in Ifaces : Flap(i)
         \/ \E c \in Conns, state \in SocketState : Change(c, state)
         \/ UNCHANGED vars
  PROVE  Aside
<1>1. /\ now \in Nat /\ IsReading(counters) /\ broken \subseteq Ifaces
      /\ DOMAIN pc = Requests /\ DOMAIN req = Requests
      /\ \A r \in Requests : Fields \subseteq DOMAIN req[r]
      /\ \A i \in Steady : i \in DOMAIN counters
  BY DEF IInv, Types, Growing
<1>2. /\ DOMAIN counters \subseteq Ifaces /\ \A i \in DOMAIN counters : counters[i] \in Nat
      /\ counters \in [DOMAIN counters -> Nat]
  BY <1>1, ReadingType DEF IsReading
<1>3. ASSUME NEW S \in SUBSET Ifaces, Tick(S) PROVE Aside
  <2>1. /\ now' = now + 1 /\ UNCHANGED <<broken, sampler, pc, req>>
        /\ counters' = [i \in DOMAIN counters |-> IF i \in S THEN counters[i] + 1 ELSE counters[i]]
    BY <1>3 DEF Tick
  <2>2. counters' \in [DOMAIN counters -> Nat]
    BY <1>2, <2>1
  <2>3. IsReading(counters')
    BY <1>2, <2>2 DEF IsReading
  <2> QED BY <1>1, <1>2, <2>1, <2>3 DEF Aside, Steady
<1>4. ASSUME NEW i \in Ifaces, Flap(i) PROVE Aside
  <2>1. /\ UNCHANGED <<now, sampler, pc, req>> /\ broken' = broken \cup {i}
        /\ counters' = IF i \in DOMAIN counters
                       THEN [j \in DOMAIN counters \ {i} |-> counters[j]]
                       ELSE [j \in DOMAIN counters \cup {i} |-> IF j = i THEN 0 ELSE counters[j]]
    BY <1>4 DEF Flap
  <2>2. IsReading(counters')
    <3>1. CASE i \in DOMAIN counters
      <4>1. counters' \in [DOMAIN counters \ {i} -> Nat]
        BY <1>2, <2>1, <3>1
      <4> QED BY <1>2, <4>1 DEF IsReading
    <3>2. CASE i \notin DOMAIN counters
      <4>1. counters' \in [DOMAIN counters \cup {i} -> Nat]
        BY <1>2, <2>1, <3>2
      <4> QED BY <1>2, <4>1 DEF IsReading
    <3> QED BY <3>1, <3>2
  <2>3. \A j \in Ifaces \ broken' : j \in DOMAIN counters' /\ counters'[j] >= counters[j]
    BY <1>1, <1>2, <2>1 DEF Steady
  <2> QED BY <1>1, <2>1, <2>2, <2>3 DEF Aside
<1>5. ASSUME NEW c \in Conns, NEW state \in SocketState, Change(c, state) PROVE Aside
  <2>1. UNCHANGED <<now, counters, broken, sampler, pc>>
    BY <1>5 DEF Change
  <2>2. req' = [r \in Requests |->
                  IF pc[r] = "idle" THEN req[r]
                  ELSE [req[r] EXCEPT !.stable = @ \ {<<c, sockets[c]>>},
                          !.seen = IF state = "established" THEN @ \cup {c} ELSE @]]
    BY <1>5 DEF Change
  <2>3. ASSUME NEW r \in Requests
        PROVE  DOMAIN req'[r] = DOMAIN req[r] /\ \A x \in Fields : req'[r][x] = req[r][x]
    BY <1>1, <2>2 DEF Fields
  <2>4. DOMAIN req' = Requests
    BY <2>2
  <2>5. /\ UNCHANGED sampler /\ now' \in Nat /\ IsReading(counters')
        /\ broken \subseteq broken' /\ broken' \subseteq Ifaces /\ DOMAIN pc' = Requests
        /\ \A i \in Ifaces \ broken' : i \in DOMAIN counters' /\ counters'[i] >= counters[i]
    BY <1>1, <1>2, <2>1 DEF Steady
  <2>6. \A r \in Requests : Fields \subseteq DOMAIN req'[r] /\ pc'[r] = pc[r]
    BY <1>1, <2>1, <2>3
  <2> QED BY <2>3, <2>4, <2>5, <2>6 DEF Aside
<1>6. CASE Step \/ UNCHANGED vars
  BY <1>1, <1>2, <1>6 DEF Step, vars, world, sampler, Aside, Steady
<1> QED BY <1>3, <1>4, <1>5, <1>6

\* Neither do the calls of ss and the answer touch what the argument looks at.
LEMMA AnswerAside ==
  ASSUME IInv, NEW r \in Requests, SS(r) \/ Answer(r)
  PROVE  Aside
<1>1. /\ now \in Nat /\ IsReading(counters) /\ broken \subseteq Ifaces
      /\ DOMAIN pc = Requests /\ DOMAIN req = Requests
      /\ \A q \in Requests : Fields \subseteq DOMAIN req[q]
      /\ \A i \in Steady : i \in DOMAIN counters
  BY DEF IInv, Types, Growing
<1>2. \A i \in DOMAIN counters : counters[i] \in Nat
  BY <1>1, ReadingType
<1>3. /\ UNCHANGED <<world, sampler>> /\ DOMAIN req' = Requests /\ DOMAIN pc' = Requests
      /\ pc'[r] \notin Waiting
      /\ \A q \in Requests \ {r} : pc'[q] = pc[q] /\ req'[q] = req[q]
      /\ DOMAIN req'[r] = DOMAIN req[r]
  <2>1. CASE SS(r)
    BY <1>1, <2>1 DEF SS, CallSS, Waiting
  <2>2. CASE Answer(r)
    BY <1>1, <2>2 DEF Answer, Waiting
  <2> QED BY <2>1, <2>2
<1> QED BY <1>1, <1>2, <1>3 DEF Aside, world, Steady

-----------------------------------------------------------------------------
(* A request *)

\* Its first two steps touch nothing but the request.
LEMMA BeginStep == ASSUME IInv, NEW r \in Requests, Begin(r) PROVE IInv'
<1>1. /\ UNCHANGED <<world, sampler>> /\ pc' = [pc EXCEPT ![r] = "begun"]
      /\ req' = [req EXCEPT ![r] =
           [Empty EXCEPT !.mono = now, !.begunAt = now, !.readAt = now,
                         !.stable = {<<c, sockets[c]>> : c \in Conns}, !.seen = Established]]
  BY DEF Begin, Clock
<1>2. /\ DOMAIN pc' = Requests /\ DOMAIN req' = Requests
      /\ pc'[r] = "begun" /\ req'[r].mono = now /\ req'[r].ifaces = <<>> /\ ~req'[r].err
      /\ Fields \subseteq DOMAIN req'[r]
      /\ \A q \in Requests \ {r} : pc'[q] = pc[q] /\ req'[q] = req[q]
  BY <1>1 DEF IInv, Types, Empty, Fields
<1>3. Types' /\ Growing' /\ Begun' /\ NothingLost'
  BY <1>1, <1>2 DEF IInv, Types, Growing, Begun, NothingLost, Steady, world, sampler
<1>4. Holds(r)'
  BY <1>1, <1>2 DEF IInv, Types, Holds
<1>5. ASSUME NEW q \in Requests \ {r}, pc'[q] \in Waiting PROVE Holds(q)'
  BY <1>1, <1>2, <1>5 DEF IInv, AllHold, Holds, Steady, world, sampler
<1> QED BY <1>3, <1>4, <1>5 DEF IInv, AllHold

\* What reading does to a request: it holds the lines S, which are all of them if it did not fail.
LEMMA ReadForm ==
  ASSUME NEW r \in Requests, ReadCounters(r)
  PROVE  \E S \in SUBSET DOMAIN counters, e \in BOOLEAN :
           /\ ~e => S = DOMAIN counters /\ req' = [req EXCEPT ![r].ifaces = counters, ![r].readAt = now]
           /\ e => req' = [req EXCEPT ![r].ifaces = [i \in S |-> counters[i]], ![r].readAt = now,
                                      ![r].err = TRUE]
<1>1. CASE req' = [req EXCEPT ![r].ifaces = counters, ![r].readAt = now]
  <2>1. \E S \in SUBSET DOMAIN counters : S = DOMAIN counters
    OBVIOUS
  <2> QED BY <1>1, <2>1
<1>2. ASSUME NEW S \in SUBSET DOMAIN counters,
             req' = [req EXCEPT ![r].ifaces = [i \in S |-> counters[i]], ![r].readAt = now,
                                ![r].err = TRUE]
      PROVE  \E T \in SUBSET DOMAIN counters, e \in BOOLEAN :
               /\ ~e => T = DOMAIN counters /\ req' = [req EXCEPT ![r].ifaces = counters, ![r].readAt = now]
               /\ e => req' = [req EXCEPT ![r].ifaces = [i \in T |-> counters[i]], ![r].readAt = now,
                                          ![r].err = TRUE]
  BY <1>2
<1> QED BY <1>1, <1>2 DEF ReadCounters

\* The lines of the counters are a reading.
LEMMA LinesOf ==
  ASSUME IsReading(counters), NEW S \in SUBSET DOMAIN counters
  PROVE  LET lines == [i \in S |-> counters[i]]
         IN  IsReading(lines) /\ DOMAIN lines = S /\ \A i \in S : lines[i] = counters[i]
<1>1. [i \in S |-> counters[i]] \in [S -> Nat] /\ S \in SUBSET Ifaces
  BY ReadingType
<1> QED BY <1>1 DEF IsReading

\* The fields that reading changes: a reading of some or all of the counters.
LEMMA ReadFields ==
  ASSUME IsReading(counters), DOMAIN req = Requests, NEW r \in Requests,
         Fields \cup {"readAt"} \subseteq DOMAIN req[r], ~req[r].err, ReadCounters(r)
  PROVE  /\ DOMAIN req' = Requests /\ DOMAIN req'[r] = DOMAIN req[r]
         /\ \A x \in DOMAIN req[r] \ {"ifaces", "readAt", "err"} : req'[r][x] = req[r][x]
         /\ \A q \in Requests \ {r} : req'[q] = req[q]
         /\ req'[r].readAt = now /\ IsReading(req'[r].ifaces)
         /\ DOMAIN req'[r].ifaces \subseteq DOMAIN counters
         /\ \A i \in DOMAIN req'[r].ifaces : req'[r].ifaces[i] = counters[i]
         /\ ~req'[r].err => DOMAIN req'[r].ifaces = DOMAIN counters
<1>1. PICK S \in SUBSET DOMAIN counters, e \in BOOLEAN :
           /\ ~e => S = DOMAIN counters /\ req' = [req EXCEPT ![r].ifaces = counters, ![r].readAt = now]
           /\ e => req' = [req EXCEPT ![r].ifaces = [i \in S |-> counters[i]], ![r].readAt = now,
                                      ![r].err = TRUE]
  BY ReadForm
<1>2. CASE ~e
  BY <1>1, <1>2 DEF Fields
<1>3. CASE e
  <2>1. PICK lines : lines = [i \in S |-> counters[i]]
    OBVIOUS
  <2>2. req' = [req EXCEPT ![r].ifaces = lines, ![r].readAt = now, ![r].err = TRUE]
    BY <1>1, <1>3, <2>1
  <2>3. IsReading(lines) /\ DOMAIN lines = S /\ \A i \in S : lines[i] = counters[i]
    BY <2>1, LinesOf
  <2>4. /\ req'[r].ifaces = lines /\ req'[r].readAt = now /\ req'[r].err
        /\ DOMAIN req' = Requests /\ DOMAIN req'[r] = DOMAIN req[r]
        /\ \A x \in DOMAIN req[r] \ {"ifaces", "readAt", "err"} : req'[r][x] = req[r][x]
        /\ \A q \in Requests \ {r} : req'[q] = req[q]
    BY <2>2 DEF Fields
  <2> QED BY <2>3, <2>4
<1> QED BY <1>2, <1>3

\* The counters are read, or some of them.
LEMMA ReadStep == ASSUME IInv, Shape, NEW r \in Requests, ReadCounters(r) PROVE IInv'
<1>1. /\ UNCHANGED <<world, sampler>> /\ pc[r] = "begun" /\ pc' = [pc EXCEPT ![r] = "read"]
  BY DEF ReadCounters
<1>2. Holds(r) /\ ~req[r].err /\ IsReading(counters) /\ DOMAIN req = Requests
      /\ Fields \cup {"readAt"} \subseteq DOMAIN req[r]
  BY <1>1 DEF IInv, Types, AllHold, Waiting, Holds, Shape, Empty, Fields
<1>3. /\ DOMAIN req' = Requests /\ DOMAIN req'[r] = DOMAIN req[r]
      /\ \A x \in DOMAIN req[r] \ {"ifaces", "readAt", "err"} : req'[r][x] = req[r][x]
      /\ \A q \in Requests \ {r} : req'[q] = req[q]
      /\ IsReading(req'[r].ifaces)
      /\ DOMAIN req'[r].ifaces \subseteq DOMAIN counters
      /\ \A i \in DOMAIN req'[r].ifaces : req'[r].ifaces[i] = counters[i]
      /\ ~req'[r].err => DOMAIN req'[r].ifaces = DOMAIN counters
  BY <1>2, ReadFields
<1>4. /\ DOMAIN pc' = Requests /\ pc'[r] = "read" /\ \A q \in Requests \ {r} : pc'[q] = pc[q]
      /\ req'[r].mono = req[r].mono
  BY <1>1, <1>2, <1>3 DEF IInv, Types, Fields
<1>5. \A q \in Requests : Fields \subseteq DOMAIN req'[q]
  BY <1>2, <1>3 DEF IInv, Types
<1>6. Types' /\ Growing' /\ Begun' /\ NothingLost'
  BY <1>1, <1>3, <1>4, <1>5 DEF IInv, Types, Growing, Begun, NothingLost, Steady, world, sampler
<1>7. Holds(r)'
  <2>1. /\ \A i \in Steady : i \in DOMAIN counters /\ counters[i] \in Nat
        /\ trafficLast # None => \A i \in Steady : trafficLast.ifaces[i] <= counters[i]
    BY ReadingType DEF IInv, Types, Growing
  <2>2. \A i \in Steady : counters[i] <= counters[i]
    BY <2>1
  <2> QED BY <1>1, <1>2, <1>3, <1>4, <2>1, <2>2 DEF Holds, Steady, world, sampler
<1>8. ASSUME NEW q \in Requests \ {r}, pc'[q] \in Waiting PROVE Holds(q)'
  BY <1>1, <1>3, <1>4, <1>8 DEF IInv, AllHold, Holds, Steady, world, sampler
<1> QED BY <1>6, <1>7, <1>8 DEF IInv, AllHold

\* The step that answers and stores.  If nobody stored since the request began, what it answers
\* is what its reading has more than the baseline.
LEMMA RatesStep == ASSUME IInv, NEW r \in Requests, Rates(r) PROVE IInv'
<1> DEFINE prev  == IF trafficLast = None THEN <<>> ELSE trafficLast.ifaces
           delta == [i \in Ifaces |-> IF i \in Ignored THEN 0 ELSE Carried(i, req[r].ifaces, prev)]
<1>1. /\ UNCHANGED world /\ pc[r] = "read" /\ Holds(r)
      /\ reported' = [i \in Ifaces |-> reported[i] + delta[i]]
      /\ IF req[r].err
         THEN /\ again' = again \cup {i \in Ifaces : delta[i] > 0}
              /\ UNCHANGED <<trafficLast, first, recounted>>
         ELSE /\ trafficLast' = [at |-> req[r].mono, ifaces |-> req[r].ifaces]
              /\ first' = IF first = None THEN req[r].ifaces ELSE first
              /\ recounted' = (recounted \/ req[r].overlapped)
              /\ UNCHANGED again
  BY DEF Rates, Advances, IInv, AllHold, Waiting
<1>2. /\ DOMAIN pc' = Requests /\ DOMAIN req' = Requests /\ pc'[r] \notin Waiting
      /\ DOMAIN req'[r] = DOMAIN req[r]
      /\ \A q \in Requests \ {r} :
           /\ pc'[q] = pc[q] /\ DOMAIN req'[q] = DOMAIN req[q]
           /\ Fields \subseteq DOMAIN req[q] =>
                /\ req'[q].mono = req[q].mono /\ req'[q].ifaces = req[q].ifaces
                /\ req'[q].err = req[q].err
                /\ req'[q].overlapped = (req[q].overlapped
                                           \/ (pc[q] \in {"begun", "read"} /\ Advances(r)))
  <2>1. DOMAIN pc' = Requests /\ DOMAIN req' = Requests /\ pc'[r] \notin Waiting
        /\ \A q \in Requests \ {r} : pc'[q] = pc[q]
    BY DEF Rates, IInv, Types, Waiting
  <2>2. DOMAIN req'[r] = DOMAIN req[r]
    BY DEF Rates
  <2>3. ASSUME NEW q \in Requests \ {r}
        PROVE  req'[q] = [req[q] EXCEPT !.overlapped = @ \/ (pc[q] \in {"begun", "read"} /\ Advances(r))]
    BY DEF Rates
  <2> QED BY <2>1, <2>2, <2>3 DEF Fields
<1>3. /\ IsReading(counters) /\ \A i \in DOMAIN counters : counters[i] \in Nat
      /\ trafficLast # None => /\ IsReading(trafficLast.ifaces)
                               /\ \A i \in DOMAIN trafficLast.ifaces : trafficLast.ifaces[i] \in Nat
      /\ first # None => \A i \in DOMAIN first : first[i] \in Nat
      /\ IsReading(req[r].ifaces) /\ \A i \in DOMAIN req[r].ifaces : req[r].ifaces[i] \in Nat
  BY <1>1, ReadingType, BaselineType DEF IInv, Types, Holds
<1>4. /\ \A i \in Ifaces : delta[i] \in Nat
      /\ trafficLast = None => \A i \in Ifaces : delta[i] = 0
  BY <1>3 DEF Carried
<1>5. Types'
  <2>1. (IsBaseline(trafficLast) \/ trafficLast = None)'
    BY <1>1, BaselineType DEF IInv, Types, Holds
  <2>2. (IsReading(first) \/ first = None)'
    BY <1>1 DEF IInv, Types, Holds
  <2>3. reported' \in [Ifaces -> Int]
    BY <1>1, <1>4 DEF IInv, Types
  <2>4. \A q \in Requests : Fields \subseteq DOMAIN req'[q]
    BY <1>2 DEF IInv, Types
  <2> QED BY <1>1, <1>2, <2>1, <2>2, <2>3, <2>4 DEF IInv, Types, world
<1>6. Begun'
  BY <1>1, <1>3, <1>4, BaselineType, NoneAssumption DEF IInv, Types, Begun, Holds
<1>7. Growing'
  BY <1>1, <1>3, NoneAssumption DEF IInv, Growing, Begun, Holds, Steady, world
<1>8. ASSUME NEW q \in Requests, pc'[q] \in Waiting PROVE Holds(q)'
  <2>1. /\ q # r /\ Holds(q) /\ pc[q] \in Waiting
        /\ Fields \subseteq DOMAIN req[q]
    BY <1>2, <1>8 DEF IInv, AllHold, Types
  <2>2. CASE req[r].err
    BY <1>1, <1>2, <2>1, <2>2 DEF Holds, Steady, world, Advances
  <2>3. CASE ~req[r].err
    BY <1>1, <1>2, <2>1, <2>3 DEF Holds, Steady, world, Advances, Waiting
  <2> QED BY <2>2, <2>3
<1>9. NothingLost'
  <2> SUFFICES ASSUME trafficLast' # None, ~recounted', NEW i \in Ifaces \ (Ignored \cup broken)
               PROVE  /\ i \in DOMAIN trafficLast'.ifaces \cap DOMAIN first'
                      /\ reported'[i] >= trafficLast'.ifaces[i] - first'[i]
                      /\ reported'[i] > trafficLast'.ifaces[i] - first'[i] => i \in again'
    BY <1>1 DEF NothingLost, world
  <2>1. i \in Steady /\ i \in Ifaces /\ reported'[i] = reported[i] + delta[i]
    BY <1>1 DEF Steady
  <2>2. i \in DOMAIN trafficLast'.ifaces \cap DOMAIN first'
    BY <1>1, <1>7, <2>1 DEF Growing, Steady, world
  <2>3. CASE req[r].err
    <3>1. /\ UNCHANGED <<trafficLast, first, recounted>>
          /\ again' = again \cup {j \in Ifaces : delta[j] > 0} /\ delta[i] \in Nat
      BY <1>1, <1>4, <2>1, <2>3
    <3>2. /\ i \in DOMAIN trafficLast.ifaces /\ i \in DOMAIN first
          /\ reported[i] \in Int /\ reported[i] >= trafficLast.ifaces[i] - first[i]
          /\ reported[i] > trafficLast.ifaces[i] - first[i] => i \in again
      BY <2>1, <3>1 DEF IInv, NothingLost, Types
    <3>3. trafficLast.ifaces[i] \in Nat /\ first[i] \in Nat
      BY <1>3, <3>1, <3>2, NoneAssumption DEF IInv, Begun
    <3> HIDE DEF delta
    <3>4. i \notin again' => delta[i] = 0 /\ i \notin again
      BY <2>1, <3>1
    <3> QED BY <2>1, <2>2, <3>1, <3>2, <3>3, <3>4
  <2>4. CASE ~req[r].err /\ trafficLast = None
    <3>1. first = None /\ reported[i] = 0 /\ delta[i] = 0
      BY <1>4, <2>4 DEF IInv, Begun
    <3>2. trafficLast'.ifaces[i] = first'[i] /\ first'[i] \in Nat
      BY <1>1, <1>3, <2>2, <2>4, <3>1
    <3> QED BY <2>1, <2>2, <3>1, <3>2
  <2>5. CASE ~req[r].err /\ trafficLast # None
    <3>1. /\ first # None /\ i \in DOMAIN trafficLast.ifaces /\ i \in DOMAIN first
          /\ i \in DOMAIN req[r].ifaces /\ trafficLast.ifaces[i] <= req[r].ifaces[i]
          /\ reported[i] \in Int /\ reported[i] >= trafficLast.ifaces[i] - first[i]
          /\ reported[i] > trafficLast.ifaces[i] - first[i] => i \in again
      BY <1>1, <2>1, <2>5 DEF IInv, Types, Growing, Begun, NothingLost, Holds
    <3>2. trafficLast.ifaces[i] \in Nat /\ first[i] \in Nat /\ req[r].ifaces[i] \in Nat
      BY <1>3, <2>5, <3>1
    <3>3. delta[i] = req[r].ifaces[i] - trafficLast.ifaces[i]
      BY <2>1, <2>5, <3>1, <3>2 DEF Carried
    <3>4. /\ trafficLast'.ifaces[i] = req[r].ifaces[i] /\ first'[i] = first[i]
          /\ UNCHANGED again
      BY <1>1, <2>5, <3>1
    <3> HIDE DEF delta
    <3> QED BY <2>1, <2>2, <3>1, <3>2, <3>3, <3>4
  <2> QED BY <2>3, <2>4, <2>5
<1> QED BY <1>5, <1>6, <1>7, <1>8, <1>9 DEF IInv, AllHold

\* A restart forgets the baseline, and with it what was told.
LEMMA RestartStep == ASSUME IInv, Restart PROVE IInv'
<1>1. \A r \in Requests : Fields \subseteq DOMAIN Empty
  BY DEF Fields, Empty
<1> QED BY <1>1 DEF IInv, Restart, Types, Growing, AllHold, Begun, NothingLost, Steady, Waiting, world

\* At first there is no baseline and no request.
LEMMA InitInv == Init => IInv
<1> SUFFICES ASSUME Init PROVE IInv
  OBVIOUS
<1>1. counters \in [Ifaces -> Nat]
  BY DEF Init
<1>2. IsReading(counters)
  BY <1>1 DEF IsReading
<1> QED BY <1>1, <1>2 DEF Init, IInv, Types, Growing, AllHold, Begun, NothingLost, Steady, Waiting,
                            Empty, Fields

\* The invariant of the bytes is inductive.
LEMMA ToldNext == IInv /\ Shape /\ [Next]_vars => IInv'
<1> SUFFICES ASSUME IInv, Shape, [Next]_vars PROVE IInv'
  OBVIOUS
<1>1. CASE \/ Step \/ \E S \in SUBSET Ifaces : Tick(S)
           \/ \E i \in Ifaces : Flap(i)
           \/ \E c \in Conns, state \in SocketState : Change(c, state)
           \/ UNCHANGED vars
  BY <1>1, HostAside, AsideStep
<1>2. ASSUME NEW r \in Requests, Begin(r) \/ ReadCounters(r) \/ Rates(r) PROVE IInv'
  BY <1>2, BeginStep, ReadStep, RatesStep
<1>3. ASSUME NEW r \in Requests, SS(r) \/ Answer(r) PROVE IInv'
  BY <1>3, AnswerAside, AsideStep
<1>4. CASE Restart
  BY <1>4, RestartStep
<1> QED BY <1>1, <1>2, <1>3, <1>4 DEF Next

-----------------------------------------------------------------------------
(* The sockets a request lists and counts *)

Est(rows) == {x \in rows : x.state = "established"}

\* The rows of a request: a UDP socket is listed by the third call, the first lists established
\* sockets only, and if it listed any the second lists none.
SoundRows(rows, ok, seen) ==
  /\ rows \subseteq Row /\ seen \subseteq Conns
  /\ \A x \in rows :
       /\ x.call \in ok
       /\ x.call = 3 <=> x.conn \in Udp
       /\ x.call = 1 => x.state = "established"
       /\ x.state = "established" => x.conn \in seen
  /\ \A x, y \in rows : x.call = 1 /\ y.call = 2 => y.state # "established"

\* The calls a request has made.
Called(at, ok) ==
  /\ at \in {"begun", "read", "1"} => ok = {}
  /\ at = "2" => ok \subseteq {1}
  /\ at = "3" => ok \subseteq {1, 2}
  /\ at \in {"4", "idle"} => ok \subseteq 1..3

\* A socket that keeps its state is listed with that state, and by the call that should.
KeptRows(rows, ok, stable) ==
  /\ stable \subseteq Conns \X SocketState
  /\ \A c \in Conns, s, t \in SocketState : <<c, s>> \in stable /\ <<c, t>> \in stable => s = t
  /\ \A c \in Conns, s \in SocketState : <<c, s>> \in stable =>
       /\ \A x \in rows : x.conn = c => x.state = s
       /\ c \in Udp /\ s # "closed" /\ 3 \in ok => \E x \in rows : x.conn = c
       /\ c \notin Udp /\ s = "listen" /\ 2 \in ok => \E x \in rows : x.conn = c
       /\ c \notin Udp /\ s = "established" =>
            /\ 1 \in ok => \E x \in rows : x.conn = c
            /\ 2 \in ok => \E x \in rows : x.conn = c

\* The history of a request that runs is about the sockets as they are.
CurrentHistory(socks, stable, seen) ==
  /\ \A c \in Conns, s \in SocketState : <<c, s>> \in stable => socks[c] = s
  /\ \A c \in Conns : socks[c] = "established" => c \in seen

\* What a request answers.
Tally(counts, rows) ==
  counts["total"] = Cardinality(rows) /\ counts["established"] = Cardinality(Est(rows))

SocketsOf(r) ==
  LET q == req[r]
  IN  /\ SoundRows(q.rows, q.ok, q.seen)
      /\ Called(pc[r], q.ok)
      /\ KeptRows(q.rows, q.ok, q.stable)
      /\ pc[r] # "idle" => CurrentHistory(sockets, q.stable, q.seen)
      /\ pc[r] = "idle" => Tally(q.counts, q.rows)
      /\ q.list \subseteq q.rows

SInv ==
  /\ Shape
  /\ sockets \in [Conns -> SocketState]
  /\ \A r \in Requests : SocketsOf(r)

-----------------------------------------------------------------------------

\* What a call adds to the rows.
LEMMA CallKeeps ==
  ASSUME sockets \in [Conns -> SocketState], Udp \subseteq Conns,
         NEW r \in Requests, NEW call \in 1..3, NEW rows, NEW ok, NEW stable, NEW seen,
         rows = req[r].rows,
         SoundRows(rows, ok, seen), KeptRows(rows, ok, stable), CurrentHistory(sockets, stable, seen),
         call = 1 => ok = {}, call = 2 => ok \subseteq {1}, call = 3 => ok \subseteq {1, 2}
  PROVE  /\ SoundRows(rows \cup Listed(r, call), ok \cup {call}, seen)
         /\ KeptRows(rows \cup Listed(r, call), ok \cup {call}, stable)
<1> DEFINE new == Listed(r, call)
           all == rows \cup new
<1>1. \A x \in new :
        /\ x \in Row /\ x.call = call /\ x.conn \in Conns /\ x.state = sockets[x.conn]
        /\ x.state # "closed"
        /\ call = 1 => x.conn \notin Udp /\ x.state = "established"
        /\ call = 2 => x.conn \notin Udp /\ ~(Skipped(r) /\ x.state = "established")
        /\ call = 3 => x.conn \in Udp
  <2> SUFFICES ASSUME NEW c \in Conns, sockets[c] # "closed",
                      CASE call = 1 -> c \notin Udp /\ sockets[c] = "established"
                        [] call = 2 -> c \notin Udp /\ ~(Skipped(r) /\ sockets[c] = "established")
                        [] call = 3 -> c \in Udp,
                      NEW x, x = [conn |-> c, state |-> sockets[c], call |-> call]
               PROVE  /\ x \in Row /\ x.call = call /\ x.conn \in Conns
                      /\ x.state = sockets[x.conn] /\ x.state # "closed"
                      /\ call = 1 => x.conn \notin Udp /\ x.state = "established"
                      /\ call = 2 => x.conn \notin Udp /\ ~(Skipped(r) /\ x.state = "established")
                      /\ call = 3 => x.conn \in Udp
    BY DEF Listed
  <2>1. x \in Row
    BY DEF Row
  <2>2. x.call = call /\ x.conn = c /\ x.state = sockets[c]
    OBVIOUS
  <2>3. CASE call = 1
    BY <2>1, <2>2, <2>3
  <2>4. CASE call = 2
    BY <2>1, <2>2, <2>4
  <2>5. CASE call = 3
    BY <2>1, <2>2, <2>5
  <2> QED BY <2>3, <2>4, <2>5
<1>2. ASSUME NEW c \in Conns, sockets[c] # "closed",
             call = 1 => c \notin Udp /\ sockets[c] = "established",
             call = 2 => c \notin Udp /\ ~(Skipped(r) /\ sockets[c] = "established"),
             call = 3 => c \in Udp
      PROVE  \E x \in new : x.conn = c
  <2>1. call = 1 \/ call = 2 \/ call = 3
    OBVIOUS
  <2>2. [conn |-> c, state |-> sockets[c], call |-> call] \in new
    BY <1>2, <2>1 DEF Listed
  <2> QED BY <2>2
<1>3. Skipped(r) <=> \E x \in rows : x.call = 1
  BY DEF Skipped
<1>4. SoundRows(all, ok \cup {call}, seen)
  <2>1. all \subseteq Row /\ seen \subseteq Conns
    BY <1>1 DEF SoundRows
  <2>2. \A x \in all :
          /\ x.call \in ok \cup {call}
          /\ x.call = 3 <=> x.conn \in Udp
          /\ x.call = 1 => x.state = "established"
          /\ x.state = "established" => x.conn \in seen
    BY <1>1 DEF SoundRows, CurrentHistory, Established
  <2>3. ASSUME NEW x \in all, NEW y \in all, x.call = 1, y.call = 2, y.state = "established"
        PROVE  FALSE
    BY <1>1, <1>3, <2>3 DEF SoundRows
  <2> QED BY <2>1, <2>2, <2>3 DEF SoundRows
<1>5. KeptRows(all, ok \cup {call}, stable)
  <2> SUFFICES ASSUME NEW c \in Conns, NEW s \in SocketState, <<c, s>> \in stable
               PROVE  /\ \A x \in all : x.conn = c => x.state = s
                      /\ c \in Udp /\ s # "closed" /\ 3 \in ok \cup {call} => \E x \in all : x.conn = c
                      /\ c \notin Udp /\ s = "listen" /\ 2 \in ok \cup {call} => \E x \in all : x.conn = c
                      /\ c \notin Udp /\ s = "established" =>
                           /\ 1 \in ok \cup {call} => \E x \in all : x.conn = c
                           /\ 2 \in ok \cup {call} => \E x \in all : x.conn = c
    BY DEF KeptRows
  <2>1. sockets[c] = s
    BY DEF CurrentHistory
  <2>2. \A x \in all : x.conn = c => x.state = s
    BY <1>1, <2>1 DEF KeptRows
  <2>4. /\ c \in Udp /\ s # "closed" /\ 3 \in ok => \E x \in rows : x.conn = c
        /\ c \notin Udp /\ s = "listen" /\ 2 \in ok => \E x \in rows : x.conn = c
        /\ c \notin Udp /\ s = "established" => /\ 1 \in ok => \E x \in rows : x.conn = c
                                                /\ 2 \in ok => \E x \in rows : x.conn = c
    BY DEF KeptRows
  <2>5. c \in Udp /\ s # "closed" /\ call = 3 => \E x \in new : x.conn = c
    BY <1>2, <2>1
  <2>6. c \notin Udp /\ s = "listen" /\ call = 2 => \E x \in new : x.conn = c
    BY <1>2, <2>1
  <2>7. c \notin Udp /\ s = "established" /\ call = 1 => \E x \in new : x.conn = c
    BY <1>2, <2>1
  <2>8. c \notin Udp /\ s = "established" /\ call = 2 => \E x \in all : x.conn = c
    <3> SUFFICES ASSUME c \notin Udp, s = "established", call = 2 PROVE \E x \in all : x.conn = c
      OBVIOUS
    <3>1. CASE Skipped(r)
      <4>1. 1 \in ok
        BY <1>3, <3>1 DEF SoundRows
      <4> QED BY <2>4, <4>1
    <3>2. CASE ~Skipped(r)
      BY <1>2, <2>1, <3>2
    <3> QED BY <3>1, <3>2
  <2> QED BY <2>2, <2>4, <2>5, <2>6, <2>7, <2>8
<1> QED BY <1>4, <1>5

\* A step that leaves a request's rows and history, and the sockets, as they are.
LEMMA SocketsFrame ==
  ASSUME SInv, Shape', UNCHANGED sockets,
         \A r \in Requests :
           /\ req'[r].rows = req[r].rows /\ req'[r].ok = req[r].ok
           /\ req'[r].stable = req[r].stable /\ req'[r].seen = req[r].seen
           /\ req'[r].counts = req[r].counts /\ req'[r].list = req[r].list
           /\ \/ pc'[r] = pc[r]
              \/ pc[r] \in {"begun", "read"} /\ pc'[r] \in {"read", "1", "4"}
  PROVE  SInv'
<1>1. ASSUME NEW r \in Requests PROVE SocketsOf(r)'
  <2>1. SocketsOf(r)
    BY DEF SInv
  <2>2. Called(pc'[r], req'[r].ok)
    BY <2>1 DEF SocketsOf, Called
  <2>3. pc'[r] # "idle" => CurrentHistory(sockets', req'[r].stable, req'[r].seen)
    BY <2>1 DEF SocketsOf, CurrentHistory, Established
  <2> QED BY <2>1, <2>2, <2>3 DEF SocketsOf
<1> QED BY <1>1 DEF SInv

\* A request that begins has no rows, and its history is about the sockets as they are.
LEMMA SocketsBegin == ASSUME SInv, NEW r \in Requests, Begin(r) PROVE SInv'
<1>1. /\ UNCHANGED sockets /\ pc' = [pc EXCEPT ![r] = "begun"]
      /\ req' = [req EXCEPT ![r] =
           [Empty EXCEPT !.mono = Clock, !.begunAt = now, !.readAt = now,
                         !.stable = {<<c, sockets[c]>> : c \in Conns}, !.seen = Established]]
  BY DEF Begin, world
<1>2. Shape'
  BY <1>1 DEF SInv, Shape
<1>3. /\ req'[r].rows = {} /\ req'[r].ok = {} /\ req'[r].list = {} /\ pc'[r] = "begun"
      /\ req'[r].stable = {<<c, sockets[c]>> : c \in Conns} /\ req'[r].seen = Established
      /\ \A q \in Requests \ {r} : req'[q] = req[q] /\ pc'[q] = pc[q]
  BY <1>1 DEF SInv, Shape, Empty
<1>4. SocketsOf(r)'
  <2>1. SoundRows({}, {}, Established)
    BY DEF SoundRows, Established
  <2>2. Called("begun", {})
    BY DEF Called
  <2>3. KeptRows({}, {}, {<<c, sockets[c]>> : c \in Conns})
    BY DEF SInv, KeptRows
  <2>4. CurrentHistory(sockets, {<<c, sockets[c]>> : c \in Conns}, Established)
    BY DEF SInv, CurrentHistory, Established
  <2>5. CurrentHistory(sockets', req'[r].stable, req'[r].seen)
    BY <1>1, <1>3, <2>4
  <2> QED BY <1>3, <2>1, <2>2, <2>3, <2>5 DEF SocketsOf
<1>5. ASSUME NEW q \in Requests \ {r} PROVE SocketsOf(q)'
  BY <1>1, <1>3 DEF SInv, SocketsOf, CurrentHistory, Established
<1> QED BY <1>1, <1>2, <1>4, <1>5 DEF SInv

\* The three calls are made in order, and each adds what CallKeeps says.
LEMMA SocketsCall ==
  ASSUME SInv, NEW r \in Requests, NEW call \in 1..3, NEW then, NEW at, CallSS(r, at, call, then),
         then \notin {"begun", "read", "1", "idle"}, at # "idle",
         call = 1 <=> at = "1", call = 2 <=> at = "2", call = 3 <=> at = "3",
         call = 1 <=> then = "2", call = 2 <=> then = "3", call = 3 <=> then = "4"
  PROVE  SInv'
<1> USE NamesAssumption
<1>2. call = 1 \/ call = 2 \/ call = 3
  OBVIOUS
<1>3. /\ UNCHANGED sockets /\ pc' = [pc EXCEPT ![r] = then]
      /\ \/ req' = [req EXCEPT ![r].rows = @ \cup Listed(r, call), ![r].ok = @ \cup {call}]
         \/ UNCHANGED req
      /\ pc[r] = at
  BY DEF CallSS, world
<1>4. Shape'
  BY <1>3 DEF SInv, Shape
<1>5. \A q \in Requests \ {r} : req'[q] = req[q] /\ pc'[q] = pc[q]
  BY <1>3 DEF SInv, Shape
<1>6. /\ req'[r].stable = req[r].stable /\ req'[r].seen = req[r].seen
      /\ req'[r].list = req[r].list /\ pc'[r] = then
      /\ \/ req'[r].rows = req[r].rows \cup Listed(r, call) /\ req'[r].ok = req[r].ok \cup {call}
         \/ req'[r].rows = req[r].rows /\ req'[r].ok = req[r].ok
  BY <1>3 DEF SInv, Shape, Empty
<1>7. SocketsOf(r)'
  <2>1. SocketsOf(r) /\ pc[r] # "idle"
    BY <1>3 DEF SInv
  <2>2. /\ call = 1 => req[r].ok = {}
        /\ call = 2 => req[r].ok \subseteq {1}
        /\ call = 3 => req[r].ok \subseteq {1, 2}
    BY <1>3, <2>1 DEF SocketsOf, Called
  <2>3. Called(then, req[r].ok) /\ Called(then, req[r].ok \cup {call})
    BY <1>2, <2>2 DEF Called
  <2>4. /\ SoundRows(req'[r].rows, req'[r].ok, req'[r].seen)
        /\ KeptRows(req'[r].rows, req'[r].ok, req'[r].stable)
    BY <1>6, <2>1, <2>2, CallKeeps DEF SocketsOf, SInv
  <2>5. CurrentHistory(sockets', req'[r].stable, req'[r].seen)
    BY <1>3, <1>6, <2>1 DEF SocketsOf, CurrentHistory, Established
  <2>6. pc'[r] # "idle" /\ Called(pc'[r], req'[r].ok) /\ req'[r].list \subseteq req'[r].rows
    BY <1>6, <2>1, <2>3 DEF SocketsOf
  <2> QED BY <2>4, <2>5, <2>6 DEF SocketsOf
<1>8. ASSUME NEW q \in Requests \ {r} PROVE SocketsOf(q)'
  BY <1>3, <1>5 DEF SInv, SocketsOf, CurrentHistory, Established
<1> QED BY <1>3, <1>4, <1>7, <1>8 DEF SInv

\* The answer counts the rows.
LEMMA SocketsAnswer == ASSUME SInv, NEW r \in Requests, Answer(r) PROVE SInv'
<1>1. PICK list \in Cuts(req[r].rows) :
        req' = [req EXCEPT ![r].list = list,
                  ![r].counts = [total |-> Cardinality(req[r].rows), established |->
                     Cardinality({x \in req[r].rows : x.state = "established"})]]
  BY DEF Answer, Counted
<1>2. UNCHANGED sockets /\ pc[r] = "4" /\ pc' = [pc EXCEPT ![r] = "idle"] /\ list \subseteq req[r].rows
  BY DEF Answer, Cuts, world
<1>3. Shape'
  BY <1>1, <1>2 DEF SInv, Shape
<1>4. /\ \A q \in Requests \ {r} : req'[q] = req[q] /\ pc'[q] = pc[q]
      /\ pc'[r] = "idle"
      /\ req'[r].rows = req[r].rows /\ req'[r].ok = req[r].ok
      /\ req'[r].stable = req[r].stable /\ req'[r].seen = req[r].seen
      /\ req'[r].list = list
      /\ req'[r].counts = [total |-> Cardinality(req[r].rows), established |->
                     Cardinality({x \in req[r].rows : x.state = "established"})]
  BY <1>1, <1>2 DEF SInv, Shape, Empty
<1>5. SocketsOf(r)'
  <2>1. SocketsOf(r)
    BY DEF SInv
  <2>2. Called("idle", req[r].ok)
    BY <1>2, <2>1 DEF SocketsOf, Called
  <2>3. Tally(req'[r].counts, req'[r].rows)
    BY <1>4 DEF Tally, Est
  <2> QED BY <1>2, <1>4, <2>1, <2>2, <2>3 DEF SocketsOf
<1>6. ASSUME NEW q \in Requests \ {r} PROVE SocketsOf(q)'
  BY <1>2, <1>4 DEF SInv, SocketsOf, CurrentHistory, Established
<1> QED BY <1>2, <1>3, <1>5, <1>6 DEF SInv

\* What holds of more sockets that kept their state holds of fewer.
LEMMA KeptLess ==
  ASSUME NEW rows, NEW ok, NEW stable, NEW less \in SUBSET stable, KeptRows(rows, ok, stable)
  PROVE  KeptRows(rows, ok, less)
BY DEF KeptRows

\* A socket that changes leaves the history of every request that runs.
LEMMA SocketsChange ==
  ASSUME SInv, NEW c \in Conns, NEW state \in SocketState, Change(c, state)
  PROVE  SInv'
<1>1. /\ UNCHANGED pc /\ sockets' = [sockets EXCEPT ![c] = state]
      /\ req' = [r \in Requests |->
           IF pc[r] = "idle" THEN req[r]
           ELSE [req[r] EXCEPT !.stable = @ \ {<<c, sockets[c]>>},
                               !.seen = IF state = "established" THEN @ \cup {c} ELSE @]]
  BY DEF Change
<1>2. Shape'
  BY <1>1 DEF SInv, Shape
<1>3. ASSUME NEW r \in Requests
      PROVE  /\ req'[r].rows = req[r].rows /\ req'[r].ok = req[r].ok
             /\ req'[r].counts = req[r].counts /\ req'[r].list = req[r].list
             /\ pc[r] = "idle" => req'[r].stable = req[r].stable /\ req'[r].seen = req[r].seen
             /\ pc[r] # "idle" =>
                  /\ req'[r].stable = req[r].stable \ {<<c, sockets[c]>>}
                  /\ req'[r].seen = IF state = "established" THEN req[r].seen \cup {c}
                                    ELSE req[r].seen
  BY <1>1 DEF SInv, Shape, Empty
<1>4. ASSUME NEW r \in Requests PROVE SocketsOf(r)'
  <2>1. SocketsOf(r)
    BY DEF SInv
  <2>2. req'[r].stable \subseteq req[r].stable /\ req[r].seen \subseteq req'[r].seen
        /\ req'[r].seen \subseteq Conns
    BY <1>3, <2>1 DEF SocketsOf, SoundRows
  <2>3. SoundRows(req'[r].rows, req'[r].ok, req'[r].seen)
    BY <1>3, <2>1, <2>2 DEF SocketsOf, SoundRows
  <2>4. KeptRows(req'[r].rows, req'[r].ok, req'[r].stable)
    <3>1. KeptRows(req[r].rows, req[r].ok, req[r].stable)
      BY <2>1 DEF SocketsOf
    <3>2. req'[r].rows = req[r].rows /\ req'[r].ok = req[r].ok
      BY <1>3
    <3> QED BY <2>2, <3>1, <3>2, KeptLess
  <2>5. ASSUME pc[r] # "idle" PROVE CurrentHistory(sockets', req'[r].stable, req'[r].seen)
    <3>1. CurrentHistory(sockets, req[r].stable, req[r].seen)
      BY <2>1, <2>5 DEF SocketsOf
    <3>2. /\ req'[r].stable = req[r].stable \ {<<c, sockets[c]>>}
          /\ req'[r].seen = IF state = "established" THEN req[r].seen \cup {c} ELSE req[r].seen
      BY <1>3, <2>5
    <3>3. \A d \in Conns : sockets'[d] = IF d = c THEN state ELSE sockets[d]
      BY <1>1 DEF SInv
    <3>4. ASSUME NEW d \in Conns, NEW s \in SocketState, <<d, s>> \in req'[r].stable
          PROVE  sockets'[d] = s
      BY <3>1, <3>2, <3>3, <3>4 DEF CurrentHistory
    <3>5. ASSUME NEW d \in Conns, sockets'[d] = "established" PROVE d \in req'[r].seen
      BY <3>1, <3>2, <3>3, <3>5 DEF CurrentHistory
    <3> QED BY <3>4, <3>5 DEF CurrentHistory
  <2> QED BY <1>1, <1>3, <2>1, <2>3, <2>4, <2>5 DEF SocketsOf
<1>5. sockets' \in [Conns -> SocketState]
  BY <1>1 DEF SInv
<1> QED BY <1>2, <1>4, <1>5 DEF SInv

\* A request that was never made answers nothing.
LEMMA SocketsEmpty ==
  ASSUME NEW r \in Requests, req[r] = Empty, pc[r] = "idle"
  PROVE  SocketsOf(r)
<1>1. /\ req[r].rows = {} /\ req[r].ok = {} /\ req[r].stable = {} /\ req[r].seen = {}
      /\ req[r].list = {} /\ req[r].counts = [k \in Counts |-> 0]
  BY DEF Empty
<1>2. Tally(req[r].counts, {})
  BY <1>1, FS_EmptySet DEF Tally, Est, Counts
<1> QED BY <1>1, <1>2 DEF SocketsOf, SoundRows, Called, KeptRows

\* At first there are only such requests.
LEMMA SocketsInit == Init => SInv
<1> SUFFICES ASSUME Init PROVE SInv
  OBVIOUS
<1>1. Shape /\ sockets \in [Conns -> SocketState]
  BY DEF Init, Shape
<1>2. ASSUME NEW r \in Requests PROVE SocketsOf(r)
  BY SocketsEmpty DEF Init
<1> QED BY <1>1, <1>2 DEF SInv

\* And after a restart, too.
LEMMA SocketsRestart == ASSUME SInv, Restart PROVE SInv'
<1>1. /\ UNCHANGED sockets /\ pc' = [r \in Requests |-> "idle"]
      /\ req' = [r \in Requests |-> Empty]
  BY DEF Restart, world
<1>2. Shape'
  BY <1>1 DEF Shape
<1>3. ASSUME NEW r \in Requests PROVE SocketsOf(r)'
  <2>1. req'[r] = Empty /\ pc'[r] = "idle"
    BY <1>1
  <2>2. /\ req'[r].rows = {} /\ req'[r].ok = {} /\ req'[r].stable = {} /\ req'[r].seen = {}
        /\ req'[r].list = {} /\ req'[r].counts = [k \in Counts |-> 0]
    BY <2>1 DEF Empty
  <2>3. Tally(req'[r].counts, {})
    BY <2>2, FS_EmptySet DEF Tally, Est, Counts
  <2> QED BY <2>1, <2>2, <2>3 DEF SocketsOf, SoundRows, Called, KeptRows
<1> QED BY <1>1, <1>2, <1>3 DEF SInv

\* The invariant of the rows is inductive.
LEMMA SocketsNext == SInv /\ [Next]_vars => SInv'
<1> SUFFICES ASSUME SInv, [Next]_vars PROVE SInv'
  OBVIOUS
<1>1. CASE \/ Step \/ \E S \in SUBSET Ifaces : Tick(S)
           \/ \E i \in Ifaces : Flap(i)
           \/ UNCHANGED vars
  <2>1. UNCHANGED <<sockets, pc, req>>
    BY <1>1 DEF Step, Tick, Flap, vars, world
  <2>2. Shape'
    BY <2>1 DEF SInv, Shape
  <2> QED BY <2>1, <2>2, SocketsFrame
<1>2. ASSUME NEW r \in Requests, ReadCounters(r) PROVE SInv'
  <2>1. /\ UNCHANGED sockets /\ pc[r] = "begun" /\ pc' = [pc EXCEPT ![r] = "read"]
        /\ \E lines, e : req' = [req EXCEPT ![r].ifaces = lines, ![r].readAt = now, ![r].err = e]
    <3>1. /\ UNCHANGED sockets /\ pc[r] = "begun" /\ pc' = [pc EXCEPT ![r] = "read"]
      BY <1>2 DEF ReadCounters, world
    <3>2. CASE req' = [req EXCEPT ![r].ifaces = counters, ![r].readAt = now]
      <4>1. req' = [req EXCEPT ![r].ifaces = counters, ![r].readAt = now, ![r].err = req[r].err]
        BY <3>2 DEF SInv, Shape, Empty
      <4> QED BY <3>1, <4>1
    <3>3. ASSUME NEW S \in SUBSET DOMAIN counters,
                 req' = [req EXCEPT ![r].ifaces = [i \in S |-> counters[i]], ![r].readAt = now,
                                    ![r].err = TRUE]
          PROVE  \E lines, e : req' = [req EXCEPT ![r].ifaces = lines, ![r].readAt = now, ![r].err = e]
      BY <3>3
    <3> QED BY <1>2, <3>1, <3>2, <3>3 DEF ReadCounters
  <2>2. Shape'
    BY <2>1 DEF SInv, Shape
  <2> QED BY <2>1, <2>2, SocketsFrame DEF SInv, Shape, Empty
<1>3. ASSUME NEW r \in Requests, Rates(r) PROVE SInv'
  <2>1. /\ UNCHANGED sockets /\ pc[r] = "read"
        /\ pc' = [pc EXCEPT ![r] = IF left.ss THEN "1" ELSE "4"]
    BY <1>3 DEF Rates, world
  <2> DEFINE prev == IF trafficLast = None THEN <<>> ELSE trafficLast.ifaces
             delta == [i \in Ifaces |-> IF i \in Ignored THEN 0 ELSE Carried(i, req[r].ifaces, prev)]
             interval == IF trafficLast = None THEN 0 ELSE Max({1, req[r].mono - trafficLast.at})
  <2>2. req' = [q \in Requests |->
            IF q = r THEN [req[r] EXCEPT !.delta = delta, !.total = Total(delta), !.interval = interval]
            ELSE [req[q] EXCEPT !.overlapped = @ \/ (pc[q] \in {"begun", "read"} /\ Advances(r))]]
    BY <1>3 DEF Rates
  <2>3. Shape'
    BY <2>1, <2>2 DEF SInv, Shape
  <2>4. \A q \in Requests :
           /\ req'[q].rows = req[q].rows /\ req'[q].ok = req[q].ok
           /\ req'[q].stable = req[q].stable /\ req'[q].seen = req[q].seen
           /\ req'[q].counts = req[q].counts /\ req'[q].list = req[q].list
    BY <2>2 DEF SInv, Shape, Empty
  <2> QED BY <2>1, <2>3, <2>4, SocketsFrame DEF SInv, Shape
<1>4. ASSUME NEW r \in Requests, SS(r) PROVE SInv'
  BY <1>4, SocketsCall DEF SS
<1> QED BY <1>1, <1>2, <1>3, <1>4, SocketsBegin, SocketsAnswer, SocketsChange,
           SocketsRestart DEF Next

-----------------------------------------------------------------------------
(* What the rows say *)

\* There are finitely many rows.
LEMMA RowsFinite ==
  ASSUME NEW rows \in SUBSET Row
  PROVE  IsFiniteSet(rows)
<1> DEFINE Three == (Conns \X SocketState) \X (1..3)
           f == [x \in rows |-> <<<<x.conn, x.state>>, x.call>>]
<1>1. IsFiniteSet(SocketState) /\ IsFiniteSet(1..3)
  <2>1. IsFiniteSet({"closed"})
    BY FS_Singleton
  <2>2. IsFiniteSet({"closed"} \cup {"established"})
    BY <2>1, FS_AddElement
  <2>3. IsFiniteSet(({"closed"} \cup {"established"}) \cup {"listen"})
    BY <2>2, FS_AddElement
  <2>4. SocketState = ({"closed"} \cup {"established"}) \cup {"listen"}
    BY DEF SocketState
  <2>5. IsFiniteSet(1..3)
    <3>1. 1 \in Int /\ 3 \in Int
      OBVIOUS
    <3> QED BY ONLY <3>1, FS_Interval
  <2> QED BY <2>3, <2>4, <2>5
<1>2. IsFiniteSet(Conns \X SocketState)
  BY <1>1, FS_Product, FiniteAssumption
<1>3. IsFiniteSet(Three)
  BY <1>1, <1>2, FS_Product
<1>4. f \in [rows -> Three]
  BY DEF Row
<1>5. \A x, y \in rows : f[x] = f[y] => x = y
  BY DEF Row
<1>6. f \in Injection(rows, Three)
  BY <1>4, <1>5 DEF Injection, IsInjective
<1> QED BY <1>3, <1>6, FS_Injection

\* The established rows are about different sockets, which were established.
LEMMA EstablishedRows ==
  ASSUME NEW rows, NEW ok, NEW seen, SoundRows(rows, ok, seen)
  PROVE  Cardinality(Est(rows)) <= Cardinality(seen)
<1> DEFINE f == [x \in Est(rows) |-> x.conn]
<1>1. IsFiniteSet(seen)
  BY FiniteAssumption, FS_Subset DEF SoundRows
<1>2. f \in [Est(rows) -> seen]
  BY DEF SoundRows, Est
<1>3. ASSUME NEW x \in Est(rows), NEW y \in Est(rows), x.conn = y.conn PROVE x = y
  <2>1. x \in Row /\ y \in Row /\ x.state = y.state
    BY DEF SoundRows, Est
  <2>2. x.call = y.call
    <3>1. x.call \in 1..3 /\ y.call \in 1..3
      BY <2>1 DEF Row
    <3>2. x.call = 3 <=> y.call = 3
      BY <1>3 DEF SoundRows, Est
    <3>3. ~(x.call = 1 /\ y.call = 2) /\ ~(y.call = 1 /\ x.call = 2)
      BY DEF SoundRows, Est
    <3> QED BY <3>1, <3>2, <3>3
  <2> QED BY <1>3, <2>1, <2>2 DEF Row
<1>4. f \in Injection(Est(rows), seen)
  BY <1>2, <1>3 DEF Injection, IsInjective
<1> QED BY <1>1, <1>4, FS_Injection

\* A socket that kept its state, and that some call listed, has one row.
LEMMA OneRow ==
  ASSUME NEW rows, NEW ok, NEW seen, NEW stable,
         SoundRows(rows, ok, seen), KeptRows(rows, ok, stable), ok \subseteq 1..3,
         NEW c \in Conns, NEW s \in SocketState, <<c, s>> \in stable, s # "closed",
         Listing(c, s) \cap ok # {}
  PROVE  \E x \in rows : x.state = s /\ {y \in rows : y.conn = c} = {x}
<1>1. PICK x \in rows : x.conn = c
  <2>1. CASE c \in Udp
    <3>1. Listing(c, s) = {3}
      BY <2>1 DEF Listing
    <3> QED BY <2>1, <3>1 DEF KeptRows
  <2>2. CASE c \notin Udp /\ s = "listen"
    BY <2>2 DEF Listing, KeptRows
  <2>3. CASE c \notin Udp /\ s = "established"
    <3>1. Listing(c, s) = {1, 2}
      BY <2>3 DEF Listing
    <3> QED BY <2>3, <3>1 DEF KeptRows
  <2> QED BY <2>1, <2>2, <2>3 DEF SocketState
<1>2. \A y \in rows : y.conn = c => y.state = s
  BY DEF KeptRows
<1>3. ASSUME NEW y \in rows, y.conn = c PROVE y = x
  <2>1. x \in Row /\ y \in Row /\ x.state = s /\ y.state = s
    BY <1>1, <1>2, <1>3 DEF SoundRows
  <2>2. x.call = y.call
    <3>1. x.call \in 1..3 /\ y.call \in 1..3
      BY <2>1 DEF Row
    <3>2. x.call = 3 <=> y.call = 3
      BY <1>1, <1>3 DEF SoundRows
    <3>3. x.call = 1 \/ y.call = 1 => s = "established"
      BY <2>1 DEF SoundRows
    <3>4. ~(x.call = 1 /\ y.call = 2) /\ ~(y.call = 1 /\ x.call = 2)
      BY <2>1, <3>3 DEF SoundRows
    <3> QED BY <3>1, <3>2, <3>4
  <2> QED BY <1>1, <1>3, <2>1, <2>2 DEF Row
<1> QED BY <1>1, <1>2, <1>3

\* So many sockets, so many rows.
LEMMA AsManyRows ==
  ASSUME NEW rows \in SUBSET Row, NEW kept,
         \A s \in kept : s = <<s[1], s[2]>> /\ \E x \in rows : x.conn = s[1],
         \A s, t \in kept : s[1] = t[1] => s[2] = t[2]
  PROVE  Cardinality(kept) <= Cardinality(rows)
<1> DEFINE f == [s \in kept |-> CHOOSE x \in rows : x.conn = s[1]]
<1>1. \A s \in kept : f[s] \in rows /\ f[s].conn = s[1]
  OBVIOUS
<1>2. f \in [kept -> rows]
  BY <1>1
<1>3. \A s, t \in kept : f[s] = f[t] => s = t
  BY <1>1
<1>4. f \in Injection(kept, rows)
  BY <1>2, <1>3 DEF Injection, IsInjective
<1> QED BY <1>4, RowsFinite, FS_Injection

\* The established rows that an answer counts are different sockets, all seen established.
LEMMA SInvEstablished == SInv => EstablishedIsReal
<1> SUFFICES ASSUME SInv, NEW r \in Requests, pc[r] = "idle"
             PROVE  req[r].counts["established"] <= Cardinality(req[r].seen)
  BY DEF EstablishedIsReal
<1>1. SocketsOf(r)
  BY DEF SInv
<1> QED BY <1>1, EstablishedRows DEF SocketsOf, Tally

\* The sockets that kept their state have one row each, and the answer counts the rows.
LEMMA SInvStable == SInv => StableAreCounted
<1> SUFFICES ASSUME SInv, NEW r \in Requests, pc[r] = "idle"
             PROVE  LET kept == {s \in req[r].stable : s[2] # "closed"
                                                        /\ Listing(s[1], s[2]) \cap req[r].ok # {}}
                    IN  /\ \A s \in kept : Cardinality({row \in req[r].rows : row.conn = s[1]}) = 1
                        /\ req[r].counts["total"] >= Cardinality(kept)
                        /\ req[r].counts["established"]
                             >= Cardinality({s \in kept : s[2] = "established"})
  BY DEF StableAreCounted
<1> DEFINE rows == req[r].rows
           kept == {s \in req[r].stable : s[2] # "closed" /\ Listing(s[1], s[2]) \cap req[r].ok # {}}
           live == {s \in kept : s[2] = "established"}
<1>1. /\ SoundRows(rows, req[r].ok, req[r].seen) /\ KeptRows(rows, req[r].ok, req[r].stable)
      /\ req[r].ok \subseteq 1..3 /\ Tally(req[r].counts, rows)
  BY DEF SInv, SocketsOf, Called
<1>2. ASSUME NEW s \in kept
      PROVE  /\ s = <<s[1], s[2]>> /\ s[1] \in Conns /\ s[2] \in SocketState
             /\ \E x \in rows : x.state = s[2] /\ {y \in rows : y.conn = s[1]} = {x}
  <2>1. s = <<s[1], s[2]>> /\ s[1] \in Conns /\ s[2] \in SocketState
    BY <1>1 DEF KeptRows
  <2>2. <<s[1], s[2]>> \in req[r].stable /\ s[2] # "closed" /\ Listing(s[1], s[2]) \cap req[r].ok # {}
    BY <2>1
  <2> QED BY <1>1, <2>1, <2>2, OneRow
<1>3. \A s, t \in kept : s[1] = t[1] => s[2] = t[2]
  BY <1>1, <1>2 DEF KeptRows
<1>4. \A s \in kept : Cardinality({y \in rows : y.conn = s[1]}) = 1
  BY <1>2, FS_Singleton
<1>5. \A s \in kept : \E x \in rows : x.conn = s[1] /\ x.state = s[2]
  <2> SUFFICES ASSUME NEW s \in kept PROVE \E x \in rows : x.conn = s[1] /\ x.state = s[2]
    OBVIOUS
  <2>1. PICK x \in rows : x.state = s[2] /\ {y \in rows : y.conn = s[1]} = {x}
    BY <1>2
  <2>2. x.conn = s[1]
    BY <2>1
  <2> QED BY <2>1, <2>2
<1>6. Cardinality(rows) >= Cardinality(kept)
  <2>1. rows \in SUBSET Row /\ IsFiniteSet(rows) /\ Cardinality(rows) \in Nat
    BY <1>1, RowsFinite, FS_CardinalityType DEF SoundRows
  <2>2. Cardinality(kept) <= Cardinality(rows)
    BY <1>2, <1>3, <1>5, <2>1, AsManyRows
  <2> QED BY <2>2
<1>7. Cardinality(Est(rows)) >= Cardinality(live)
  <2>1. Est(rows) \in SUBSET Row
    BY <1>1 DEF SoundRows, Est
  <2>2. \A s \in live : s = <<s[1], s[2]>> /\ \E x \in Est(rows) : x.conn = s[1]
    BY <1>2, <1>5 DEF Est
  <2>3. \A s, t \in live : s[1] = t[1] => s[2] = t[2]
    BY <1>3
  <2>4. Cardinality(live) <= Cardinality(Est(rows))
    BY <2>1, <2>2, <2>3, AsManyRows
  <2> QED BY <2>4
<1> QED BY <1>1, <1>4, <1>6, <1>7 DEF Tally

-----------------------------------------------------------------------------
(* How much a request can tell *)

\* Of two readings, the later has at most so many bytes more.
Slow(later, earlier, time) ==
  \A i \in DOMAIN later \cap DOMAIN earlier : later[i] - earlier[i] <= time

\* What a request measured, and what it answers.
PaceFields ==
  {"mono", "ifaces", "err", "overlapped", "readAt", "begunAt", "total", "interval", "delta"}

Measured(q) ==
  /\ q.begunAt \in Nat /\ q.readAt \in Nat /\ q.begunAt <= q.readAt /\ q.readAt <= now
  /\ q.interval \in Nat /\ q.total \in Nat /\ q.delta \in [Ifaces -> Nat]

Calm(q) ==
  ~q.overlapped =>
    q.total <= Cardinality(Ifaces \ Ignored) * (q.interval + (q.readAt - q.begunAt))

\* A reading that waits to be told: the counters have not run away from it, nor it from the
\* baseline.
Near(q) ==
  /\ Slow(counters, q.ifaces, now - q.readAt)
  /\ trafficLast # None /\ ~q.overlapped =>
       Slow(q.ifaces, trafficLast.ifaces, q.readAt - trafficLast.at)

PaceOf(r) ==
  /\ Measured(req[r]) /\ Calm(req[r])
  /\ pc[r] \in Waiting => req[r].mono = req[r].begunAt
  /\ pc[r] = "read" => Near(req[r])

NearBaseline ==
  trafficLast # None =>
    trafficLast.at <= now /\ Slow(counters, trafficLast.ifaces, now - trafficLast.at)

Pace == NearBaseline /\ \A r \in Requests : PaceOf(r)

\* What interfaces carry together is at most what each carries, times their number.
LEMMA TotalBound ==
  ASSUME NEW delta \in [Ifaces -> Nat], NEW n \in Nat,
         \A i \in Ifaces : delta[i] <= n, \A i \in Ignored : delta[i] = 0
  PROVE  /\ Total(delta) \in Nat
         /\ Total(delta) <= Cardinality(Ifaces \ Ignored) * n
<1> DEFINE bytes == UNION {{i} \X (1..delta[i]) : i \in Ifaces}
           some  == Ifaces \ Ignored
<1>1. IsFiniteSet(some)
  BY FiniteAssumption, FS_Subset
<1>2. IsFiniteSet(1..n) /\ Cardinality(1..n) = n
  <2>1. 1 \in Int /\ n \in Int
    OBVIOUS
  <2>2. IsFiniteSet(1..n) /\ Cardinality(1..n) = IF 1 > n THEN 0 ELSE n - 1 + 1
    BY ONLY <2>1, FS_Interval
  <2> QED BY <2>2
<1>3. IsFiniteSet(some \X (1..n)) /\ Cardinality(some \X (1..n)) = Cardinality(some) * n
  BY <1>1, <1>2, FS_Product
<1>4. bytes \subseteq some \X (1..n)
  <2> SUFFICES ASSUME NEW i \in Ifaces, NEW p \in {i} \X (1..delta[i])
               PROVE  p \in some \X (1..n)
    OBVIOUS
  <2>1. p = <<i, p[2]>> /\ p[2] \in 1..delta[i]
    OBVIOUS
  <2>2. delta[i] \in Nat /\ delta[i] <= n
    OBVIOUS
  <2>3. p[2] \in 1..n /\ i \notin Ignored
    BY <2>1, <2>2
  <2> QED BY <2>1, <2>3
<1>5. IsFiniteSet(bytes) /\ Cardinality(bytes) <= Cardinality(some) * n
  <2> HIDE DEF bytes
  <2> QED BY <1>3, <1>4, FS_Subset
<1>6. Cardinality(bytes) \in Nat
  <2> HIDE DEF bytes
  <2> QED BY <1>5, FS_CardinalityType
<1> QED BY <1>5, <1>6 DEF Total

\* No interfaces carry less than nothing.
LEMMA Within ==
  ASSUME NEW n \in Nat
  PROVE  Cardinality(Ifaces \ Ignored) * n \in Nat
<1>1. Cardinality(Ifaces \ Ignored) \in Nat
  BY FiniteAssumption, FS_Subset, FS_CardinalityType
<1> QED BY <1>1

\* Time that passed is a number.
LEMMA Later == \A a, b \in Nat : b >= a => b - a \in Nat
OBVIOUS

\* A longer interval allows no fewer bytes.
LEMMA MoreTimes ==
  ASSUME NEW k \in Nat, NEW a \in Nat, NEW b \in Nat, NEW c \in Nat, b <= c
  PROVE  k * (a + b) <= k * (a + c)
OBVIOUS

\* An interval is at least a tick, and at least the time between the clocks.
LEMMA MaxOfTwo ==
  ASSUME NEW d \in Int
  PROVE  Max({1, d}) \in Nat /\ Max({1, d}) >= d
<1>1. \E x \in {1, d} : \A y \in {1, d} : x >= y
  OBVIOUS
<1>2. Max({1, d}) \in {1, d} /\ \A y \in {1, d} : Max({1, d}) >= y
  BY <1>1 DEF Max
<1> QED BY <1>2

\* The interfaces' bytes together are a number.
LEMMA TotalType == ASSUME NEW delta \in [Ifaces -> Nat] PROVE Total(delta) \in Nat
<1> DEFINE f == [i \in Ifaces |-> {i} \X (1..delta[i])]
           each == {{i} \X (1..delta[i]) : i \in Ifaces}
<1>1. f \in Surjection(Ifaces, each)
  BY DEF Surjection
<1>2. IsFiniteSet(each)
  <2> HIDE DEF f, each
  <2> QED BY <1>1, FiniteAssumption, FS_Surjection
<1>3. ASSUME NEW i \in Ifaces PROVE IsFiniteSet({i} \X (1..delta[i]))
  <2>1. 1 \in Int /\ delta[i] \in Int
    OBVIOUS
  <2>2. IsFiniteSet(1..delta[i])
    BY ONLY <2>1, FS_Interval
  <2>3. IsFiniteSet({i})
    BY FS_Singleton
  <2> QED BY <2>2, <2>3, FS_Product
<1>4. \A T \in each : IsFiniteSet(T)
  BY <1>3
<1>5. IsFiniteSet(UNION each)
  <2> HIDE DEF each
  <2> QED BY <1>2, <1>4, FS_UNION
<1> HIDE DEF each
<1>6. Cardinality(UNION each) \in Nat
  BY <1>5, FS_CardinalityType
<1> QED BY <1>6 DEF Total, each

\* Counters that carried d more, or began anew, are d further from a reading.
LEMMA SlowMore ==
  ASSUME NEW a, NEW b, NEW c, IsReading(a), IsReading(b), IsReading(c), NEW n \in Nat, NEW d \in Nat,
         Slow(a, c, n),
         \A i \in DOMAIN b : IF i \in DOMAIN a THEN b[i] <= a[i] + d ELSE b[i] = 0
  PROVE  Slow(b, c, n + d)
<1> SUFFICES ASSUME NEW i \in DOMAIN b, i \in DOMAIN c PROVE b[i] - c[i] <= n + d
  BY DEF Slow
<1>1. b[i] \in Nat /\ c[i] \in Nat /\ (i \in DOMAIN a => a[i] \in Nat)
  BY ReadingType
<1> QED BY <1>1 DEF Slow

-----------------------------------------------------------------------------

\* Time passes, the counters run as fast as they can or begin anew, and requests stay as they
\* are or leave Waiting.
LEMMA PaceHost ==
  ASSUME IInv, Pace, UNCHANGED trafficLast, now' \in Nat, now' >= now, IsReading(counters'),
         \A i \in DOMAIN counters' :
           IF i \in DOMAIN counters THEN counters'[i] <= counters[i] + (now' - now)
                                    ELSE counters'[i] = 0,
         \A r \in Requests : /\ \A x \in PaceFields : req'[r][x] = req[r][x]
                             /\ pc'[r] \in Waiting => pc'[r] = pc[r]
  PROVE  Pace'
<1>1. now \in Nat /\ now' - now \in Nat /\ IsReading(counters)
  <2>1. now \in Nat
    BY DEF IInv, Types
  <2>2. IsReading(counters)
    BY DEF IInv, Types
  <2>3. now' - now \in Nat
    BY ONLY <2>1, now' \in Nat, now' >= now, Later
  <2> QED BY <2>1, <2>2, <2>3
<1>2. NearBaseline'
  <2> SUFFICES ASSUME trafficLast # None
               PROVE  /\ trafficLast.at <= now'
                      /\ Slow(counters', trafficLast.ifaces, now' - trafficLast.at)
    BY DEF NearBaseline
  <2>1. trafficLast.at \in Nat /\ IsReading(trafficLast.ifaces)
    BY BaselineType DEF IInv, Types
  <2>2. trafficLast.at <= now /\ Slow(counters, trafficLast.ifaces, now - trafficLast.at)
    BY DEF Pace, NearBaseline
  <2>3. Slow(counters', trafficLast.ifaces, (now - trafficLast.at) + (now' - now))
    BY <1>1, <2>1, <2>2, SlowMore
  <2>4. (now - trafficLast.at) + (now' - now) = now' - trafficLast.at
    BY <1>1, <2>1
  <2> QED BY <1>1, <2>1, <2>2, <2>3, <2>4
<1>3. ASSUME NEW r \in Requests PROVE PaceOf(r)'
  <2>1. /\ req'[r].mono = req[r].mono /\ req'[r].ifaces = req[r].ifaces /\ req'[r].err = req[r].err
        /\ req'[r].overlapped = req[r].overlapped /\ req'[r].readAt = req[r].readAt
        /\ req'[r].begunAt = req[r].begunAt /\ req'[r].total = req[r].total
        /\ req'[r].interval = req[r].interval /\ req'[r].delta = req[r].delta
    BY DEF PaceFields
  <2>2. PaceOf(r)
    BY DEF Pace
  <2>3. Measured(req[r])' /\ Calm(req[r])'
    BY <1>1, <2>1, <2>2 DEF PaceOf, Measured, Calm
  <2>4. pc'[r] \in Waiting => req'[r].mono = req'[r].begunAt
    BY <2>1, <2>2 DEF PaceOf
  <2>5. ASSUME pc'[r] = "read" PROVE Near(req[r])'
    <3>1. pc[r] = "read" /\ Near(req[r]) /\ req[r].readAt \in Nat /\ req[r].readAt <= now
      BY <2>1, <2>2, <2>5 DEF PaceOf, Measured, Waiting
    <3>2. IsReading(req[r].ifaces)
      BY <3>1 DEF IInv, AllHold, Holds, Waiting
    <3>3. Slow(counters', req[r].ifaces, (now - req[r].readAt) + (now' - now))
      BY <1>1, <3>1, <3>2, SlowMore DEF Near
    <3>4. (now - req[r].readAt) + (now' - now) = now' - req[r].readAt
      BY <1>1, <3>1
    <3> QED BY <2>1, <3>1, <3>3, <3>4 DEF Near
  <2> QED BY <2>3, <2>4, <2>5 DEF PaceOf
<1> QED BY <1>2, <1>3 DEF Pace

\* The host keeps the pace: it carries a byte a tick, or begins anew.
LEMMA PaceWorld ==
  ASSUME IInv, Shape, Pace,
         \/ Step \/ \E S \in SUBSET Ifaces : Tick(S)
         \/ \E i \in Ifaces : Flap(i)
         \/ \E c \in Conns, state \in SocketState : Change(c, state)
         \/ UNCHANGED vars
  PROVE  Pace'
<1>1. /\ now \in Nat /\ IsReading(counters) /\ Aside
      /\ DOMAIN counters \subseteq Ifaces /\ \A i \in DOMAIN counters : counters[i] \in Nat
  BY HostAside, ReadingType DEF IInv, Types
<1>2. UNCHANGED trafficLast /\ now' \in Nat /\ IsReading(counters')
  BY <1>1 DEF Aside, sampler
<1>3. ASSUME NEW r \in Requests
      PROVE  /\ \A x \in PaceFields : req'[r][x] = req[r][x]
             /\ pc'[r] = pc[r]
  <2>1. CASE UNCHANGED <<pc, req>>
    BY <2>1
  <2>2. ASSUME NEW c \in Conns, NEW state \in SocketState, Change(c, state)
        PROVE  \A x \in PaceFields : req'[r][x] = req[r][x] /\ pc'[r] = pc[r]
    <3>1. /\ UNCHANGED pc
          /\ req' = [q \in Requests |->
               IF pc[q] = "idle" THEN req[q]
               ELSE [req[q] EXCEPT !.stable = @ \ {<<c, sockets[c]>>},
                        !.seen = IF state = "established" THEN @ \cup {c} ELSE @]]
      BY <2>2 DEF Change
    <3> QED BY <3>1 DEF Shape, PaceFields, Empty
  <2>3. UNCHANGED <<pc, req>> \/ \E c \in Conns, state \in SocketState : Change(c, state)
    BY DEF Step, Tick, Flap, vars
  <2>4. \E x \in PaceFields : TRUE
    BY DEF PaceFields
  <2> QED BY <2>1, <2>2, <2>3, <2>4
<1>4. /\ now' >= now
      /\ \A i \in DOMAIN counters' :
           IF i \in DOMAIN counters THEN counters'[i] <= counters[i] + (now' - now)
                                    ELSE counters'[i] = 0
  <2>1. ASSUME NEW S \in SUBSET Ifaces, Tick(S) PROVE <1>4
    <3>1. /\ now' = now + 1
          /\ counters' = [i \in DOMAIN counters |-> IF i \in S THEN counters[i] + 1 ELSE counters[i]]
      BY <2>1 DEF Tick
    <3> QED BY <1>1, <3>1
  <2>2. ASSUME NEW i \in Ifaces, Flap(i) PROVE <1>4
    <3>1. /\ now' = now
          /\ counters' = IF i \in DOMAIN counters
                         THEN [j \in DOMAIN counters \ {i} |-> counters[j]]
                         ELSE [j \in DOMAIN counters \cup {i} |-> IF j = i THEN 0 ELSE counters[j]]
      BY <2>2 DEF Flap
    <3> QED BY <1>1, <3>1
  <2>3. CASE UNCHANGED <<now, counters>>
    BY <1>1, <2>3
  <2> QED BY <2>1, <2>2, <2>3 DEF Step, Change, vars, world
<1> QED BY <1>1, <1>2, <1>3, <1>4, PaceHost

\* A request looks at the clock.
LEMMA PaceBegin == ASSUME IInv, Shape, Pace, NEW r \in Requests, Begin(r) PROVE Pace'
<1>1. /\ UNCHANGED <<now, counters, trafficLast>> /\ pc' = [pc EXCEPT ![r] = "begun"]
      /\ req' = [req EXCEPT ![r] =
           [Empty EXCEPT !.mono = now, !.begunAt = now, !.readAt = now,
                         !.stable = {<<c, sockets[c]>> : c \in Conns}, !.seen = Established]]
  BY DEF Begin, Clock, world, sampler
<1>2. /\ \A q \in Requests \ {r} : req'[q] = req[q] /\ pc'[q] = pc[q]
      /\ pc'[r] = "begun" /\ req'[r].mono = now /\ req'[r].begunAt = now /\ req'[r].readAt = now
      /\ req'[r].total = 0 /\ req'[r].interval = 0 /\ req'[r].delta = [i \in Ifaces |-> 0]
  BY <1>1 DEF Shape, Empty
<1>3. PaceOf(r)'
  <2>1. now \in Nat
    BY DEF IInv, Types
  <2>2. Measured(req[r])'
    BY <1>1, <1>2, <2>1 DEF Measured
  <2>3. Calm(req[r])'
    <3>1. Cardinality(Ifaces \ Ignored) * (0 + (now - now)) \in Nat
      BY <2>1, Within
    <3> QED BY <1>2, <3>1 DEF Calm
  <2> QED BY <1>2, <2>2, <2>3 DEF PaceOf
<1>4. ASSUME NEW q \in Requests \ {r} PROVE PaceOf(q)'
  BY <1>1, <1>2 DEF Pace, PaceOf, Measured, Calm, Near
<1>5. NearBaseline'
  BY <1>1 DEF Pace, NearBaseline
<1> QED BY <1>3, <1>4, <1>5 DEF Pace

\* It reads the counters as they are, later, or some of them.
LEMMA PaceRead == ASSUME IInv, Shape, Pace, NEW r \in Requests, ReadCounters(r) PROVE Pace'
<1>1. /\ UNCHANGED <<now, counters, trafficLast>> /\ pc[r] = "begun"
      /\ pc' = [pc EXCEPT ![r] = "read"]
  BY DEF ReadCounters, world, sampler
<1>2. /\ \A q \in Requests \ {r} : req'[q] = req[q] /\ pc'[q] = pc[q]
      /\ pc'[r] = "read" /\ req'[r].mono = req[r].mono /\ req'[r].begunAt = req[r].begunAt
      /\ req'[r].total = req[r].total /\ req'[r].interval = req[r].interval
      /\ req'[r].delta = req[r].delta /\ req'[r].overlapped = req[r].overlapped
      /\ req'[r].readAt = now
      /\ DOMAIN req'[r].ifaces \subseteq DOMAIN counters
      /\ \A i \in DOMAIN req'[r].ifaces : req'[r].ifaces[i] = counters[i]
  <2>1. IsReading(counters) /\ DOMAIN req = Requests /\ ~req[r].err
        /\ Fields \cup {"readAt"} \subseteq DOMAIN req[r]
        /\ {"mono", "begunAt", "total", "interval", "delta", "overlapped"} \subseteq DOMAIN req[r]
    BY <1>1 DEF IInv, Types, AllHold, Holds, Waiting, Shape, Empty, Fields
  <2>2. /\ \A x \in DOMAIN req[r] \ {"ifaces", "readAt", "err"} : req'[r][x] = req[r][x]
        /\ \A q \in Requests \ {r} : req'[q] = req[q]
        /\ req'[r].readAt = now
        /\ DOMAIN req'[r].ifaces \subseteq DOMAIN counters
        /\ \A i \in DOMAIN req'[r].ifaces : req'[r].ifaces[i] = counters[i]
    BY <2>1, ReadFields
  <2> QED BY <1>1, <2>1, <2>2 DEF Shape
<1>3. PaceOf(r)'
  <2>1. now \in Nat /\ PaceOf(r)
    BY DEF IInv, Types, Pace
  <2>2. Measured(req[r])'
    BY <1>1, <1>2, <2>1 DEF PaceOf, Measured
  <2>3. Calm(req[r])'
    <3>1. /\ req[r].readAt - req[r].begunAt <= req'[r].readAt - req[r].begunAt
          /\ req[r].readAt - req[r].begunAt \in Nat /\ req'[r].readAt - req[r].begunAt \in Nat
          /\ req[r].interval \in Nat /\ req[r].total \in Nat
      BY <1>2, <2>1 DEF PaceOf, Measured
    <3>2. Cardinality(Ifaces \ Ignored) \in Nat
      BY FiniteAssumption, FS_Subset, FS_CardinalityType
    <3>3. Cardinality(Ifaces \ Ignored) * (req[r].interval + (req[r].readAt - req[r].begunAt))
            <= Cardinality(Ifaces \ Ignored) * (req[r].interval + (req'[r].readAt - req[r].begunAt))
      BY <3>1, <3>2, MoreTimes
    <3>4. /\ Cardinality(Ifaces \ Ignored) * (req[r].interval + (req[r].readAt - req[r].begunAt)) \in Nat
          /\ Cardinality(Ifaces \ Ignored) * (req[r].interval + (req'[r].readAt - req[r].begunAt)) \in Nat
      <4>1. /\ req[r].interval + (req[r].readAt - req[r].begunAt) \in Nat
            /\ req[r].interval + (req'[r].readAt - req[r].begunAt) \in Nat
        BY <1>2, <3>1
      <4> QED BY <4>1, Within
    <3> QED BY <1>2, <2>1, <3>1, <3>3, <3>4 DEF PaceOf, Calm
  <2>4. req'[r].mono = req'[r].begunAt
    BY <1>1, <1>2, <2>1 DEF PaceOf, Waiting
  <2>5. Near(req[r])'
    <3>1. \A i \in DOMAIN counters : counters[i] \in Nat
      BY ReadingType DEF IInv, Types
    <3>2. Slow(counters', req'[r].ifaces, now' - req'[r].readAt)
      BY <1>1, <1>2, <2>1, <3>1 DEF Slow
    <3>3. trafficLast' # None => Slow(req'[r].ifaces, trafficLast'.ifaces, req'[r].readAt - trafficLast'.at)
      BY <1>1, <1>2 DEF Pace, NearBaseline, Slow
    <3> QED BY <3>2, <3>3 DEF Near
  <2> QED BY <2>2, <2>3, <2>4, <2>5 DEF PaceOf
<1>4. ASSUME NEW q \in Requests \ {r} PROVE PaceOf(q)'
  BY <1>1, <1>2 DEF Pace, PaceOf, Measured, Calm, Near
<1>5. NearBaseline'
  BY <1>1 DEF Pace, NearBaseline
<1> QED BY <1>3, <1>4, <1>5 DEF Pace

\* What a calm request tells is what each interface carried since the baseline, which is no
\* more than a byte a tick of its interval and of the time it took to read.
LEMMA PaceRates == ASSUME IInv, Shape, Pace, NEW r \in Requests, Rates(r) PROVE Pace'
<1> DEFINE prev  == IF trafficLast = None THEN <<>> ELSE trafficLast.ifaces
           cur   == req[r].ifaces
           delta == [i \in Ifaces |-> IF i \in Ignored THEN 0 ELSE Carried(i, cur, prev)]
           interval == IF trafficLast = None THEN 0 ELSE Max({1, req[r].mono - trafficLast.at})
<1>1. /\ UNCHANGED <<now, counters>> /\ pc[r] = "read"
      /\ pc' = [pc EXCEPT ![r] = IF left.ss THEN "1" ELSE "4"]
      /\ req' = [q \in Requests |->
           IF q = r THEN [req[r] EXCEPT !.delta = delta, !.total = Total(delta), !.interval = interval]
           ELSE [req[q] EXCEPT !.overlapped = @ \/ (pc[q] \in {"begun", "read"} /\ Advances(r))]]
      /\ IF req[r].err THEN UNCHANGED trafficLast
         ELSE trafficLast' = [at |-> req[r].mono, ifaces |-> req[r].ifaces]
  BY DEF Rates, Advances, world
<1>2. /\ pc'[r] \notin Waiting /\ \A q \in Requests \ {r} : pc'[q] = pc[q]
      /\ req'[r].begunAt = req[r].begunAt /\ req'[r].readAt = req[r].readAt
      /\ req'[r].overlapped = req[r].overlapped
      /\ req'[r].delta = delta /\ req'[r].total = Total(delta) /\ req'[r].interval = interval
  <2>1. pc'[r] \notin Waiting /\ \A q \in Requests \ {r} : pc'[q] = pc[q]
    BY <1>1 DEF Shape, Waiting
  <2> QED BY <1>1, <2>1 DEF Shape, Empty
<1>3. ASSUME NEW q \in Requests \ {r}
      PROVE  /\ req'[q].mono = req[q].mono /\ req'[q].ifaces = req[q].ifaces
             /\ req'[q].err = req[q].err /\ req'[q].readAt = req[q].readAt
             /\ req'[q].begunAt = req[q].begunAt /\ req'[q].total = req[q].total
             /\ req'[q].interval = req[q].interval /\ req'[q].delta = req[q].delta
             /\ req[q].overlapped => req'[q].overlapped
             /\ pc[q] \in Waiting /\ ~req[r].err => req'[q].overlapped
  BY <1>1 DEF Shape, Empty, Waiting, Advances
<1>4. /\ now \in Nat /\ IsReading(counters) /\ PaceOf(r) /\ Holds(r)
      /\ req[r].mono = req[r].begunAt /\ Measured(req[r])
      /\ Near(req[r]) /\ IsReading(cur)
  BY <1>1 DEF IInv, Types, AllHold, Holds, Pace, PaceOf, Waiting
<1>5. trafficLast # None => trafficLast.at \in Nat /\ IsReading(trafficLast.ifaces)
  BY BaselineType DEF IInv, Types
<1>6. delta \in [Ifaces -> Nat] /\ \A i \in Ignored : delta[i] = 0
  <2>1. \A i \in Ifaces : Carried(i, cur, prev) \in Nat
    BY <1>4, <1>5, ReadingType DEF Carried
  <2> QED BY <2>1, NamesAssumption
<1>7. /\ interval \in Nat
      /\ trafficLast # None => interval >= req[r].mono - trafficLast.at
  BY <1>4, <1>5, MaxOfTwo DEF Measured
<1>8. ASSUME ~req[r].overlapped, NEW i \in Ifaces
      PROVE  delta[i] <= interval + (req[r].readAt - req[r].begunAt)
  <2>1. interval + (req[r].readAt - req[r].begunAt) \in Nat
    BY <1>4, <1>7 DEF Measured
  <2>2. CASE i \in Ignored \/ trafficLast = None \/ i \notin DOMAIN cur \cap DOMAIN prev
    <3>1. delta[i] = 0
      BY <1>4, <2>2 DEF Carried
    <3> QED BY <2>1, <3>1
  <2>3. CASE i \notin Ignored /\ trafficLast # None /\ i \in DOMAIN cur \cap DOMAIN prev
    <3>1. cur[i] \in Nat /\ prev[i] \in Nat /\ prev = trafficLast.ifaces
      BY <1>4, <1>5, <2>3, ReadingType
    <3>2. cur[i] - prev[i] <= req[r].readAt - trafficLast.at
      BY <1>4, <1>8, <2>3, <3>1 DEF Near, Slow
    <3>3. delta[i] = 0 \/ delta[i] = cur[i] - prev[i]
      BY <2>3 DEF Carried
    <3>4. interval + (req[r].readAt - req[r].begunAt) >= req[r].readAt - trafficLast.at
      <4> HIDE DEF interval
      <4> QED BY <1>4, <1>5, <1>7, <2>3 DEF Measured
    <3> HIDE DEF delta, interval, cur, prev
    <3> QED BY <1>4, <1>5, <2>1, <2>3, <3>1, <3>2, <3>3, <3>4 DEF Measured
  <2> QED BY <2>2, <2>3
<1>9. Total(delta) \in Nat /\ (~req[r].overlapped =>
        Total(delta) <= Cardinality(Ifaces \ Ignored) * (interval + (req[r].readAt - req[r].begunAt)))
  <2>1. Total(delta) \in Nat
    BY <1>6, TotalType
  <2>2. ASSUME ~req[r].overlapped
        PROVE  Total(delta) <= Cardinality(Ifaces \ Ignored) * (interval + (req[r].readAt - req[r].begunAt))
    <3>1. interval + (req[r].readAt - req[r].begunAt) \in Nat
      BY <1>4, <1>7 DEF Measured
    <3> HIDE DEF delta, interval
    <3> QED BY <1>6, <1>8, <2>2, <3>1, TotalBound
  <2> QED BY <2>1, <2>2
<1> HIDE DEF delta, interval, prev
<1>10. PaceOf(r)'
  <2>1. Measured(req[r])'
    BY <1>1, <1>2, <1>4, <1>6, <1>7, <1>9 DEF Measured
  <2>2. Calm(req[r])'
    BY <1>2, <1>9 DEF Calm
  <2> QED BY <1>2, <2>1, <2>2 DEF PaceOf, Waiting
<1>11. ASSUME NEW q \in Requests \ {r} PROVE PaceOf(q)'
  <2>1. PaceOf(q) /\ pc'[q] = pc[q]
    BY <1>2 DEF Pace
  <2>2. Measured(req[q])'
    BY <1>1, <1>3, <2>1 DEF PaceOf, Measured
  <2>3. Calm(req[q])'
    BY <1>3, <2>1 DEF PaceOf, Calm
  <2>4. ASSUME pc[q] = "read" PROVE Near(req[q])'
    BY <1>1, <1>3, <2>1, <2>4 DEF PaceOf, Near, Waiting
  <2> QED BY <1>3, <2>1, <2>2, <2>3, <2>4 DEF PaceOf
<1>12. NearBaseline'
  <2>1. CASE req[r].err
    BY <1>1, <2>1 DEF Pace, NearBaseline
  <2>2. CASE ~req[r].err
    <3>1. trafficLast'.at = req[r].mono /\ trafficLast'.ifaces = cur
      BY <1>1, <2>2
    <3>2. Slow(counters, cur, now - req[r].readAt) /\ req[r].readAt \in Nat /\ req[r].mono \in Nat
          /\ req[r].mono <= req[r].readAt /\ req[r].readAt <= now
      BY <1>4, <2>2 DEF Near, Measured
    <3>3. Slow(counters, cur, now - req[r].mono)
      <4> SUFFICES ASSUME NEW i \in DOMAIN counters \cap DOMAIN cur
                   PROVE  counters[i] - cur[i] <= now - req[r].mono
        BY DEF Slow
      <4>1. counters[i] \in Nat /\ cur[i] \in Nat /\ counters[i] - cur[i] <= now - req[r].readAt
        BY <1>4, <2>2, <3>2, ReadingType DEF Slow
      <4> QED BY <1>4, <3>2, <4>1
    <3>4. req[r].mono <= now
      BY <1>4, <3>2
    <3> QED BY <1>1, <3>1, <3>3, <3>4 DEF NearBaseline
  <2> QED BY <2>1, <2>2
<1> QED BY <1>10, <1>11, <1>12 DEF Pace

\* The answer changes the list and the counts.
LEMMA AnswerForm ==
  ASSUME NEW r \in Requests, Answer(r)
  PROVE  \E list, counts : req' = [req EXCEPT ![r].list = list, ![r].counts = counts]
<1>1. PICK list \in Cuts(req[r].rows) :
        req' = [req EXCEPT ![r].list = list,
                  ![r].counts = [total |-> Cardinality(Counted(req[r].rows)), established |->
                     Cardinality({x \in Counted(req[r].rows) : x.state = "established"})]]
  BY DEF Answer
<1> QED BY <1>1

\* Calls and answer change nothing that was measured.
LEMMA PaceAnswer == ASSUME IInv, Shape, Pace, NEW r \in Requests, SS(r) \/ Answer(r) PROVE Pace'
<1>1. UNCHANGED <<now, counters, trafficLast>> /\ now \in Nat /\ IsReading(counters)
  BY DEF SS, CallSS, Answer, world, sampler, IInv, Types
<1>2. ASSUME NEW q \in Requests
      PROVE  /\ \A x \in PaceFields : req'[q][x] = req[q][x]
             /\ pc'[q] \in Waiting => pc'[q] = pc[q]
  <2>1. CASE SS(r)
    BY <2>1 DEF SS, CallSS, Shape, PaceFields, Empty, Waiting
  <2>2. CASE Answer(r)
    <3>1. PICK list, counts : req' = [req EXCEPT ![r].list = list, ![r].counts = counts]
      BY <2>2, AnswerForm
    <3>2. pc' = [pc EXCEPT ![r] = "idle"]
      BY <2>2 DEF Answer
    <3> QED BY <3>1, <3>2 DEF Shape, PaceFields, Empty, Waiting
  <2> QED BY <2>1, <2>2
<1>3. \A i \in DOMAIN counters : counters[i] \in Nat
  BY <1>1, ReadingType
<1> QED BY <1>1, <1>2, <1>3, PaceHost

\* A request that was never made tells nothing in no time.
LEMMA PaceEmpty ==
  /\ Empty.begunAt = 0 /\ Empty.readAt = 0 /\ Empty.interval = 0 /\ Empty.total = 0
  /\ Empty.delta \in [Ifaces -> Nat]
  /\ 0 <= Cardinality(Ifaces \ Ignored) * (0 + (0 - 0))
<1>1. 0 + (0 - 0) \in Nat
  OBVIOUS
<1>2. Cardinality(Ifaces \ Ignored) * (0 + (0 - 0)) \in Nat
  BY ONLY <1>1, Within
<1>3. 0 <= Cardinality(Ifaces \ Ignored) * (0 + (0 - 0))
  BY <1>2
<1> QED BY <1>3 DEF Empty

\* A restart forgets the baseline and the requests.
LEMMA PaceRestart == ASSUME IInv, Pace, Restart PROVE Pace'
<1>1. /\ UNCHANGED now /\ now \in Nat /\ trafficLast' = None
      /\ pc' = [r \in Requests |-> "idle"] /\ req' = [r \in Requests |-> Empty]
  BY DEF Restart, world, IInv, Types
<1>2. ASSUME NEW r \in Requests PROVE PaceOf(r)'
  <2>1. req'[r] = Empty /\ pc'[r] = "idle"
    BY <1>1
  <2>2. Measured(req[r])'
    BY <1>1, <2>1, PaceEmpty DEF Measured
  <2>3. Calm(req[r])'
    BY <2>1, PaceEmpty DEF Calm
  <2> QED BY <2>1, <2>2, <2>3 DEF PaceOf, Waiting
<1>3. NearBaseline'
  BY <1>1 DEF NearBaseline
<1> QED BY <1>2, <1>3 DEF Pace

\* At first there are neither.
LEMMA PaceInit == Init => Pace
<1> SUFFICES ASSUME Init PROVE Pace
  OBVIOUS
<1>1. now \in Nat /\ trafficLast = None
      /\ pc = [r \in Requests |-> "idle"] /\ req = [r \in Requests |-> Empty]
  BY DEF Init
<1>2. ASSUME NEW r \in Requests PROVE PaceOf(r)
  <2>1. req[r] = Empty /\ pc[r] = "idle"
    BY <1>1
  <2>2. Measured(req[r])
    BY <1>1, <2>1, PaceEmpty DEF Measured
  <2>3. Calm(req[r])
    BY <2>1, PaceEmpty DEF Calm
  <2> QED BY <2>1, <2>2, <2>3 DEF PaceOf, Waiting
<1>3. NearBaseline
  BY <1>1 DEF NearBaseline
<1> QED BY <1>2, <1>3 DEF Pace

\* The invariant of the pace is inductive, given the other two.
LEMMA PaceNext == IInv /\ Shape /\ Pace /\ [Next]_vars => Pace'
<1> SUFFICES ASSUME IInv, Shape, Pace, [Next]_vars PROVE Pace'
  OBVIOUS
<1>1. CASE \/ Step \/ \E S \in SUBSET Ifaces : Tick(S)
           \/ \E i \in Ifaces : Flap(i)
           \/ \E c \in Conns, state \in SocketState : Change(c, state)
           \/ UNCHANGED vars
  BY <1>1, PaceWorld
<1>2. ASSUME NEW r \in Requests, Begin(r) \/ ReadCounters(r) \/ Rates(r) PROVE Pace'
  BY <1>2, PaceBegin, PaceRead, PaceRates
<1>3. ASSUME NEW r \in Requests, SS(r) \/ Answer(r) PROVE Pace'
  BY <1>3, PaceAnswer
<1>4. CASE Restart
  BY <1>4, PaceRestart
<1> QED BY <1>1, <1>2, <1>3, <1>4 DEF Next

-----------------------------------------------------------------------------
(* The theorems *)

Inv == IInv /\ SInv /\ Pace /\ wall \in Nat

\* The three arguments hold together in every state.
THEOREM Invariant == Spec => []Inv
<1>1. Init => Inv
  BY InitInv, SocketsInit, PaceInit DEF Inv, Init
<1>2. Inv /\ [Next]_vars => Inv'
  <2> SUFFICES ASSUME Inv, [Next]_vars PROVE Inv'
    OBVIOUS
  <2>1. IInv' /\ SInv' /\ Pace'
    BY ToldNext, SocketsNext, PaceNext DEF Inv, SInv
  <2>2. wall' \in Nat
    <3>1. ASSUME NEW S \in SUBSET Ifaces, Tick(S) PROVE wall' = wall + 1
      BY <3>1 DEF Tick
    <3>2. Step => wall' = 0
      BY DEF Step
    <3>3. ASSUME \/ \E i \in Ifaces : Flap(i)
                 \/ \E c \in Conns, state \in SocketState : Change(c, state)
                 \/ Restart \/ UNCHANGED vars
          PROVE  wall' = wall
      BY <3>3 DEF Flap, Change, Restart, vars, world
    <3>4. ASSUME NEW r \in Requests, Begin(r) \/ ReadCounters(r) \/ Rates(r) \/ SS(r) \/ Answer(r)
          PROVE  wall' = wall
      BY <3>4 DEF Begin, ReadCounters, Rates, SS, CallSS, Answer, world
    <3>5. wall \in Nat
      BY DEF Inv
    <3> QED BY <3>1, <3>2, <3>3, <3>4, <3>5 DEF Next
  <2> QED BY <2>1, <2>2 DEF Inv
<1> QED BY <1>1, <1>2, PTL DEF Spec

\* Clocks, counters, baseline and answers have their types; no interface carried less than
\* nothing, and what is listed is among what was counted (CollectTraffic, traffic.go:32-140).
THEOREM TypeCorrect == Spec => []TypeOK
<1>1. Inv => TypeOK
  <2> SUFFICES ASSUME Inv PROVE TypeOK
    OBVIOUS
  <2>1. now \in Nat /\ wall \in Nat /\ IsReading(counters) /\ sockets \in [Conns -> SocketState]
    BY DEF Inv, IInv, Types, SInv
  <2>2. IsBaseline(trafficLast) \/ trafficLast = None
    BY DEF Inv, IInv, Types
  <2>3. ASSUME NEW r \in Requests
        PROVE  /\ req[r].delta \in [Ifaces -> Nat] /\ req[r].interval \in Nat
               /\ req[r].rows \subseteq Row /\ req[r].list \subseteq req[r].rows
    BY DEF Inv, SInv, SocketsOf, SoundRows, Pace, PaceOf, Measured
  <2> QED BY <2>1, <2>2, <2>3 DEF TypeOK
<1> QED BY <1>1, Invariant, PTL

\* Whatever interfaces, requests, failed polls, clocks and restarts there are: as long as no two
\* requests overlap, the answers tell all that an interface carried since the first reading, and
\* each byte once unless a reading that failed half-way told of the interface
\* (CollectTraffic and readProcNetDev, traffic.go:47-113 and 154-187).
THEOREM ToldOnce == Spec => []NothingLost
<1>1. Inv => NothingLost
  BY DEF Inv, IInv
<1> QED BY <1>1, Invariant, PTL

\* A request that overlaps no other tells at most what its interesting interfaces can carry in
\* its interval and while it read, whatever counters were reset, polls failed or clocks were set
\* (traffic.go:36-37 and 47-87).
THEOREM NoFakeSpikes == Spec => []NoSpike
<1>1. Inv => NoSpike
  BY DEF Inv, NoSpike, Pace, PaceOf, Calm
<1> QED BY <1>1, Invariant, PTL

\* A socket that keeps its state while the three calls of ss run is in exactly one row, if one of
\* the calls that list it succeeds, and the totals count them all (traffic.go:119-128, 189-240).
THEOREM StableCounted == Spec => []StableAreCounted
<1> QED BY Invariant, SInvStable, PTL DEF Inv

\* An answer never counts more established connections than there were while it was made
\* (traffic.go:198-218).
THEOREM RealConnections == Spec => []EstablishedIsReal
<1> QED BY Invariant, SInvEstablished, PTL DEF Inv
=============================================================================

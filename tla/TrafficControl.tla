--------------------------- MODULE TrafficControl ---------------------------
(***************************************************************************)
(* The traffic-control part of a plan (internal/apply/tc.go): which HTB    *)
(* classes, filters and police meters planTC asks for, with the ids it     *)
(* hands out, and what a sequence of such plans leaves in the kernel.      *)
(*                                                                         *)
(* Data.  A rate is a number; 0 is none.  A limit lists the addresses it   *)
(* matches, or its mark.  The ids are seeded by FNV hashes of object ids,  *)
(* of which nothing is assumed: they may collide in any way, and be near   *)
(* 2^32, where a sum wraps.  Ranges (4079 class minors, 4095 node ids,     *)
(* 2^32, priorities up to 60000, the distance of 1000 between the          *)
(* priorities of the two directions) are constants, so that TLC can        *)
(* exhaust small ones.                                                     *)
(***************************************************************************)
EXTENDS Naturals, Sequences, FiniteSets, SequencesExt

CONSTANTS
  Ids,            \* ids of limits; numbers, ordered as the strings are
  DeviceOrder,    \* devices, in the order of sort.Strings
  Addrs,          \* addresses and marks that are matched
  Pushes,         \* desired sets of limits
  MinorMin, Minors,   \* tcMinorMin; how many minors there are
  Nodes,          \* u32 node ids
  Width, Hashes,  \* a hash is less than Width; those of the ids
  MaxPref, RxShift,   \* greatest filter priority; rxPref - pref
  MaxValues, MaxApplies, MaxFailures   \* bounds

Devices == {DeviceOrder[i] : i \in DOMAIN DeviceOrder}
Everyone == "any"    \* match u32 0 0
Limit == [id : Ids, dev : Devices, tx : Nat, rx : Nat, kind : {"any", "cidr", "fwmark"},
          values : Seq(Addrs), prio : Nat]
Seeds == Ids \X (1..MaxValues)

ASSUME DevicesAssumption ==
  DeviceOrder \in Seq(Devices) /\ \A i, j \in DOMAIN DeviceOrder : DeviceOrder[i] = DeviceOrder[j] => i = j
ASSUME LimitsAssumption ==
  /\ Ids \subseteq Nat
  /\ \A D \in Pushes : /\ D \subseteq Limit /\ IsFiniteSet(D)
                       /\ \A x, y \in D : x # y => x.id # y.id
                       /\ \A x \in D : /\ Len(x.values) <= MaxValues
                                       /\ x.kind = "fwmark" => Len(x.values) <= 1
ASSUME RangesAssumption ==
  /\ MinorMin \in Nat \ {0} /\ Minors \in Nat \ {0} /\ Nodes \in Nat \ {0}
  /\ Width \in Nat /\ Minors <= Width /\ Nodes <= Width /\ Hashes \subseteq 0..(Width - 1)
  /\ MaxPref \in Nat \ {0} /\ RxShift \in Nat
  /\ MaxValues \in Nat \ {0} /\ MaxApplies \in Nat /\ MaxFailures \in Nat

VARIABLES
  minorHash, nodeHash,   \* FNV of an id, of an id with the number of an address
  classes,    \* kernel: HTB classes [dev, minor, rate]
  filters,    \* kernel: filters [dev, parent, prio, node, mark, match, to]
  meters,     \* kernel: police actions [index, rate], of all devices
  desired,    \* the limits of the last plan
  todo,       \* commands the running plan has left
  clean,      \* no command of the last plan failed
  before,     \* the kernel when it began, and the limits last applied if that was clean
  applies, failures

hashes == <<minorHash, nodeHash>>
kernel == <<classes, filters, meters>>
vars == <<hashes, kernel, desired, todo, clean, before, applies, failures>>

-----------------------------------------------------------------------------
(* Ids *)

Least(a, b) == IF a < b THEN a ELSE b

\* Mutant of Probe: ids that are taken are not looked at.
ProbeBlind(base, lo, n, taken) == lo + (base % n)

\* The first of n numbers from lo on that is free, probing from base in 32 bits; lo if none is.
Probe(base, lo, n, taken) ==
  LET at(k) == lo + (((base + k) % Width) % n)
      free  == {k \in 0..(n - 1) : at(k) \notin taken}
  IN  IF free = {} THEN lo ELSE at(CHOOSE k \in free : \A l \in free : k <= l)

\* One after the other gets an id that none of its rivals has, which came before.
Allocate(bases, lo, n, rivals) ==
  LET id[i \in DOMAIN bases] == Probe(bases[i], lo, n, {id[j] : j \in rivals[i]})
  IN  id

\* allocateTCMinor, for each limit of one device in turn.
MinorsOf(list) ==
  Allocate([i \in DOMAIN list |-> minorHash[list[i].id]], MinorMin, Minors,
           [i \in DOMAIN list |-> 1..(i - 1)])

\* u32Alloc, for each filter of one device in turn: unique per parent and priority.  The
\* fw classifier has its mark for a handle instead.
Numbered(cmds) ==
  LET u32  == {i \in DOMAIN cmds : cmds[i].op = "filter" /\ cmds[i].what.kind # "fwmark"}
      node == Allocate([i \in DOMAIN cmds |-> IF i \in u32 THEN nodeHash[cmds[i].what.seed] ELSE 0],
                       1, Nodes,
                       [i \in DOMAIN cmds |->
                          {j \in u32 : /\ j < i /\ i \in u32
                                       /\ cmds[j].what.parent = cmds[i].what.parent
                                       /\ cmds[j].what.prio = cmds[i].what.prio}])
  IN  [i \in DOMAIN cmds |-> [cmds[i] EXCEPT !.node = IF i \in u32 THEN node[i] ELSE 0]]

(* planTC *)

Limiting(D, dev) == {x \in D : x.dev = dev /\ (x.tx > 0 \/ x.rx > 0)}

\* Mutant of Orders: limits are planned in the order of a Go map.
OrdersAny(S) == SetToSeqs(S)

\* The limits of a device are sorted by id.
Orders(S) == {q \in SetToSeqs(S) : \A i, j \in DOMAIN q : i < j => q[i].id < q[j].id}

Pref(x, minor) == Least(MaxPref, IF x.prio > 0 THEN x.prio ELSE minor)
RxPref(x, minor) == Least(MaxPref, Pref(x, minor) + RxShift)
\* Mutant of PoliceIndex: one index for every limit.
PoliceIndexOne(minor) == 1

PoliceIndex(minor) == minor

Command(op, dev, what) == [op |-> op, dev |-> dev, what |-> what, node |-> 0]

\* filterCmd: a filter for every address, each with a priority of its own.
Matches(x) == IF x.kind = "any" THEN <<Everyone>> ELSE x.values
filterCmd(x, parent, pref, to, rate) ==
  [i \in DOMAIN Matches(x) |->
     Command("filter", x.dev,
       [parent |-> parent, prio |-> Least(MaxPref, pref + i - 1), seed |-> <<x.id, i>>,
        kind |-> x.kind, match |-> Matches(x)[i], to |-> to, rate |-> rate])]

\* The class of one limit, and its filters: to the class on the way out, through its meter
\* on the way in.
planOneTC(x, minor) ==
  (IF x.tx > 0 THEN <<Command("class", x.dev, [minor |-> minor, rate |-> x.tx])>>
                      \o filterCmd(x, "root", Pref(x, minor), minor, x.tx)
               ELSE <<>>)
    \o (IF x.rx > 0 THEN filterCmd(x, "ingress", RxPref(x, minor), PoliceIndex(minor), x.rx)
                    ELSE <<>>)

\* The ingress qdisc of a device, and its limits; the qdiscs and classes every device has
\* are left out.
PlanDevice(dev, list) ==
  LET minor == MinorsOf(list)
  IN  (IF \E i \in DOMAIN list : list[i].rx > 0 THEN <<Command("ingress", dev, <<>>)>> ELSE <<>>)
        \o Numbered(FlattenSeq([i \in DOMAIN list |-> planOneTC(list[i], minor[i])]))

PlanIn(orders) ==
  FlattenSeq([i \in DOMAIN DeviceOrder |-> PlanDevice(DeviceOrder[i], orders[DeviceOrder[i]])])

\* Limits that are no longer desired are not in the plan: nothing is undone.
Begin(D) ==
  /\ \E orders \in [Devices -> UNION {Orders(Limiting(D, dev)) : dev \in Devices}] :
       /\ \A dev \in Devices : orders[dev] \in Orders(Limiting(D, dev))
       /\ todo' = PlanIn(orders)
  /\ desired' = D

Start ==
  /\ todo = <<>>
  /\ applies < MaxApplies
  /\ applies' = applies + 1
  /\ clean' = TRUE
  /\ before' = [limits |-> IF clean THEN <<desired>> ELSE <<>>, kernel |-> kernel]
  /\ \E D \in Pushes : Begin(D)
  /\ UNCHANGED <<hashes, kernel, failures>>

-----------------------------------------------------------------------------
(* Commands *)

Done == todo' = Tail(todo) /\ UNCHANGED <<hashes, desired, before, applies>>
NextIs(op) == todo # <<>> /\ Head(todo).op = op
itsDevice == Head(todo).dev
itsWhat   == Head(todo).what

\* tc qdisc del ... ingress, then add: every ingress filter of the device is gone.
Ingress ==
  /\ NextIs("ingress")
  /\ filters' = {f \in filters : f.dev # itsDevice \/ f.parent # "ingress"}
  /\ Done
  /\ UNCHANGED <<classes, meters, clean, failures>>

\* tc class replace.
Class ==
  /\ NextIs("class")
  /\ classes' = {c \in classes : c.dev # itsDevice \/ c.minor # itsWhat.minor}
                  \cup {[dev |-> itsDevice, minor |-> itsWhat.minor, rate |-> itsWhat.rate]}
  /\ Done
  /\ UNCHANGED <<filters, meters, clean, failures>>

\* A filter's handle is its node id or its mark.
Key(f) == <<f.dev, f.parent, f.prio, f.node, f.mark>>
FilterOf(c) ==
  [dev |-> c.dev, parent |-> c.what.parent, prio |-> c.what.prio, node |-> c.node,
   mark |-> IF c.what.kind = "fwmark" THEN c.what.match ELSE "none",
   match |-> c.what.match, to |-> c.what.to]
theFilter == FilterOf(Head(todo))

\* One priority of a parent has one classifier, fw or u32.
Clash == \E f \in filters : /\ f.dev = itsDevice /\ f.parent = itsWhat.parent
                            /\ f.prio = itsWhat.prio
                            /\ (f.mark = "none") # (itsWhat.kind # "fwmark")

\* tc filter replace: by device, parent, priority and handle.  A police action with an
\* index is one for the whole host: naming it again sets its rate.
Filter ==
  /\ NextIs("filter")
  /\ ~Clash
  /\ filters' = {f \in filters : Key(f) # Key(theFilter)} \cup {theFilter}
  /\ meters' = IF itsWhat.parent = "root" THEN meters
               ELSE {m \in meters : m.index # itsWhat.to}
                      \cup {[index |-> itsWhat.to, rate |-> itsWhat.rate]}
  /\ Done
  /\ UNCHANGED <<classes, clean, failures>>

Refuse ==
  /\ NextIs("filter")
  /\ Clash
  /\ clean' = FALSE
  /\ Done
  /\ UNCHANGED <<kernel, failures>>

\* A command fails, or its device is missing, and the plan goes on.
Fail ==
  /\ todo # <<>>
  /\ failures < MaxFailures
  /\ failures' = failures + 1
  /\ clean' = FALSE
  /\ Done
  /\ UNCHANGED kernel

Init ==
  /\ minorHash \in [Ids -> Hashes]
  /\ nodeHash \in [Seeds -> Hashes]
  /\ classes = {} /\ filters = {} /\ meters = {}
  /\ desired = {}
  /\ todo = <<>>
  /\ clean = TRUE
  /\ before = [limits |-> <<>>, kernel |-> kernel]
  /\ applies = 0 /\ failures = 0

Next ==
  \/ Start
  \/ Ingress \/ Class \/ Filter \/ Refuse \/ Fail

Spec == Init /\ [][Next]_vars
-----------------------------------------------------------------------------
(* Properties *)

Idle == todo = <<>> /\ clean
Values(x) == {Matches(x)[i] : i \in DOMAIN Matches(x)}
Leads(x, v, parent, to) ==
  \E f \in filters : f.dev = x.dev /\ f.parent = parent /\ f.match = v /\ f.to = to

\* There are ids for all limits, and for the addresses of a device: twice as many, since a probe
\* that wraps visits some ids twice.  And no two limits select one mark.
Roomy(D) ==
  \A dev \in Devices :
    /\ 2 * Cardinality(Limiting(D, dev)) <= Minors + 1
    /\ 2 * Cardinality(UNION {{x} \X DOMAIN Matches(x) : x \in Limiting(D, dev)}) <= Nodes + 1
Distinct(D) ==
  \A x, y \in D : x.kind = "fwmark" /\ y.kind = "fwmark" /\ x.dev = y.dev /\ x.values = y.values
                  => x = y

\* After a clean plan every address of a limit has a filter to a class with the limit's
\* rate, the same for all of them: no other limit's filter took its place, however the
\* hashes collide (tc.go:266-276).
TxIsLimited ==
  Idle /\ Roomy(desired) /\ Distinct(desired) => \A x \in {y \in desired : y.tx > 0} :
    \E c \in classes : c.dev = x.dev /\ c.rate = x.tx /\ \A v \in Values(x) : Leads(x, v, "root", c.minor)

\* The same on the way in: one meter, at the limit's rate (types.go:164, tc.go:150-152), as
\* long as only one device has such limits: meters are those of the whole host.
RxLimits == {x \in desired : x.rx > 0}
RxIsLimited ==
  Idle /\ Roomy(desired) /\ Distinct(desired) /\ (\A x, y \in RxLimits : x.dev = y.dev) =>
    \A x \in {y \in RxLimits : Values(y) # {}} :
      \E m \in meters : m.rate = x.rx /\ \A v \in Values(x) : Leads(x, v, "ingress", m.index)

\* Applying the same limits again changes nothing: filters are replaced and never pile up
\* (tc.go:189-192, 274-276).
Idempotent ==
  Idle /\ before.limits = <<desired>> => filters = before.kernel[2] /\ classes = before.kernel[1]
=============================================================================

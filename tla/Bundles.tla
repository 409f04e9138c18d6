------------------------------- MODULE Bundles -------------------------------
(***************************************************************************)
(* The bundles of the terminal UI's easy mode (internal/tui/easy.go,       *)
(* commands.go): a form becomes a sequence of API calls, made one after    *)
(* the other within twenty seconds (doAction) by the client library        *)
(* (pkg/api/client.go).  The first error ends the bundle and what was made *)
(* stays.  The user may submit the same form again, or another.            *)
(*                                                                         *)
(* The daemon takes each call as ApplyServer says: a write to the store,   *)
(* then an apply, whose firewall part is Firewall's Script.  The answer is *)
(* a success whether or not the apply was one.  A call that the client     *)
(* gave up may still reach the daemon, after later calls.                  *)
(*                                                                         *)
(* Data.  Attributes of objects are those of Firewall.  Creating an object *)
(* gives it a new id; settings (sysctls, ip_forward) are kept by key.  All *)
(* lists forms name are known and do not change.                           *)
(***************************************************************************)
EXTENDS Naturals, Sequences, FiniteSets

CONSTANTS
  Addrs, Devices, Any,   \* as in Firewall
  ListNames, KnownLists, \* IP lists, and the addresses each has
  Services,              \* protocols and ports
  Forms,                 \* what users enter (see Form)
  Numberings,            \* ids new objects may get, by attempt and call
  MaxAttempts, MaxCalls, \* bounds: forms submitted, calls of a bundle
  MaxFailures            \* and applies that fail

\* A packet to a service opens a connection or belongs to one.
Kinds == Services \X {"new", "established"}
Established == Services \X {"established"}

Ends == Addrs \cup {Any}
Ways == Devices \cup {Any}
MaybeList == ListNames \cup {Any}

\* What is entered; ports are empty for a protocol without any, or for all of them.
Form ==
       [kind : {"egress"}, src : Addrs, out : Devices, forward : BOOLEAN, nat : BOOLEAN]
  \cup [kind : {"return"}, src : Addrs, out : Devices, to : Ends, established : BOOLEAN, rp : BOOLEAN]
  \cup [kind : {"masq"}, src : Ends, srcList : MaybeList, out : Devices, full : BOOLEAN]
  \cup [kind : {"gateway"}, src : Ends, in : Ways, out : Ways]
  \cup [kind : {"config"}, forward : BOOLEAN, forward6 : BOOLEAN, rp : {"0", "1", "2", "leave"},
        dev : Ways, apply : BOOLEAN]
  \cup [kind : {"access"}, do : {"allow", "block"}, chain : {"input", "output", "forward"},
        src : Ends, dst : Ends, srcList : MaybeList, dstList : MaybeList, in : Ways, out : Ways,
        ports : Seq(SUBSET Services \ {{}}) \ {<<>>}]

ASSUME FormsAssumption == Forms \subseteq Form
ASSUME NamesAssumption == /\ Any \notin Addrs \cup Devices \cup ListNames
                          /\ Devices \cap {"ip_forward", "forwarding6"} = {}
ASSUME ListsAssumption == KnownLists \in [ListNames -> SUBSET Addrs]
ASSUME BoundAssumption == MaxAttempts \in Nat /\ MaxCalls \in Nat /\ MaxFailures \in Nat
ASSUME NumberingsAssumption ==
  \A n \in Numberings, s, t \in (1..MaxAttempts) \X (1..MaxCalls) :
    n[s] \in Nat /\ (n[s] = n[t] => s = t)

VARIABLES
  objects,    \* what the daemon stores: Firewall's Desired
  settings,   \* and the sysctls it manages, ip_forward among them
  table,      \* the kernel's table,
  source,     \* and the objects it was compiled from
  failures,   \* applies that failed
  log,        \* the calls the daemon made of each attempt, in order
  ids,        \* the ids it will draw, random in the code
  tried,      \* the forms submitted, the last one being the current
  state,      \* of the UI: "form", "running", "failed" or "done"
  next,       \* the call of the bundle that is under way,
  call,       \* which is "sent", "made" or "refused"
  done,       \* attempts that ended with the success flash
  late        \* calls given up that have not reached the daemon: attempt, index

kernelVars == <<table, source, failures>>
daemonVars == <<objects, settings, kernelVars, log>>
uiVars     == <<tried, state, next, call, done>>
vars == <<daemonVars, ids, uiVars, late>>

F == INSTANCE Firewall WITH
       Policies <- {}, Rules <- {}, NATs <- {}, Forwards <- {}, Pushes <- {},
       MaxPushes <- 0, MaxEdits <- 0, desired <- objects, result <- "none", pushes <- 0, edits <- 0

-----------------------------------------------------------------------------
(* From a form to its calls *)

Create(in, x) == [op |-> "create", in |-> in, what |-> x]
Set(key, value) == [op |-> "set", in |-> key, what |-> value]
SetIPForward(on) == Set("ip_forward", IF on THEN "1" ELSE "0")
Apply == [op |-> "apply"]
When(b, calls) == IF b THEN calls ELSE <<>>

\* A list takes the place of an address.
Unless(list, addr) == IF list = Any THEN addr ELSE Any

Policy(src, out) ==
  [id |-> 0, prio |-> 100, action |-> "egress", src |-> src, egress |-> out, list |-> Any]
NATSpec(src, list, out, to) ==
  [id |-> 0, kind |-> IF to = Any THEN "masquerade" ELSE "snat", to |-> to,
   src |-> Unless(list, src), srcList |-> list, out |-> out]
Rule(prio, action) == [F!Blank EXCEPT !.prio = prio, !.action = action]

\* Mutant of EstablishedRule: the priority rules have by default.
EstablishedRuleDefault(chain) ==
  [Rule(100, "accept") EXCEPT !.chain = chain, !.kinds = Established]

EstablishedRule(chain) == [Rule(10, "accept") EXCEPT !.chain = chain, !.kinds = Established]
Clients(src, in, out) == [Rule(40, "accept") EXCEPT !.src = src, !.in = in, !.out = out]
BothChains ==
  <<Create("rules", EstablishedRule("forward")), Create("rules", EstablishedRule("input"))>>

rp_filter(keys, value) == [i \in DOMAIN keys |-> Set(keys[i], value)]

submitEasyEgress(f) ==
  When(f.forward, <<SetIPForward(TRUE)>>)
    \o <<Create("policies", Policy(f.src, f.out))>>
    \o When(f.nat, <<Create("nats", NATSpec(f.src, Any, f.out, Any))>>)

\* To an address, the entry is an snat.
submitEasyReturn(f) ==
  <<Create("nats", NATSpec(f.src, Any, f.out, f.to))>>
    \o When(f.established, BothChains \o <<Create("rules", Clients(f.src, Any, f.out))>>)
    \o When(f.rp, rp_filter(<<"rp.all", "rp.default", f.out>>, "2"))

\* In full: as above, without a rule for the clients or a setting of the device.
submitEasyMasq(f) ==
  <<Create("nats", NATSpec(f.src, f.srcList, f.out, Any))>>
    \o When(f.full, BothChains)
    \o When(f.full, rp_filter(<<"rp.all", "rp.default">>, "2"))

doEasyGateway(f) ==
  <<SetIPForward(TRUE)>> \o BothChains
    \o When({f.src, f.in, f.out} # {Any}, <<Create("rules", Clients(f.src, f.in, f.out))>>)

submitEasyConfig(f) ==
  <<SetIPForward(f.forward), Set("forwarding6", IF f.forward6 THEN "1" ELSE "0")>>
    \o When(f.rp # "leave",
            rp_filter(<<"rp.all", "rp.default">> \o When(f.dev # Any, <<f.dev>>), f.rp))
    \o When(f.apply, <<Apply>>)

\* Mutant of AccessPrio: a block has the priority of an allow.
AccessPrioSame(do) == 100

\* Blocks before default allows.
AccessPrio(do) == IF do = "block" THEN 50 ELSE 100

AccessRule(f, services) ==
  [Rule(AccessPrio(f.do), IF f.do = "block" THEN "drop" ELSE "accept") EXCEPT
     !.chain = f.chain, !.src = Unless(f.srcList, f.src), !.dst = Unless(f.dstList, f.dst),
     !.srcList = f.srcList, !.dstList = f.dstList, !.in = f.in, !.out = f.out,
     !.kinds = services \X {"new", "established"}]

\* One rule for each port.
submitEasyAccess(f) ==
  [i \in DOMAIN f.ports |-> Create("rules", AccessRule(f, f.ports[i]))]

CallsOf(f) == CASE f.kind = "egress"  -> submitEasyEgress(f)
                [] f.kind = "return"  -> submitEasyReturn(f)
                [] f.kind = "masq"    -> submitEasyMasq(f)
                [] f.kind = "gateway" -> doEasyGateway(f)
                [] f.kind = "config"  -> submitEasyConfig(f)
                [] f.kind = "access"  -> submitEasyAccess(f)

ASSUME CallsAssumption == \A f \in Forms : Len(CallsOf(f)) <= MaxCalls
-----------------------------------------------------------------------------
(* The daemon *)

\* It stores an object under a new id, or replaces a setting ...
Stores(c, id) ==
  \/ /\ c.op = "create"
     /\ objects' = [objects EXCEPT ![c.in] = @ \cup {[c.what EXCEPT !.id = id]}]
     /\ UNCHANGED settings
  \/ /\ c.op = "set"
     /\ settings' = [k \in DOMAIN settings \cup {c.in} |->
                      IF k = c.in THEN c.what ELSE settings[k]]
     /\ UNCHANGED objects
  \/ /\ c.op = "apply"
     /\ UNCHANGED <<objects, settings>>

\* ... and applies: the table is replaced ...
Applies ==
  /\ ~F!Undeclared(objects')
  /\ table' = F!Script(objects')
  /\ source' = objects'
  /\ UNCHANGED failures

\* ... or stays, when nft refuses the new one, or the apply fails before it is programmed.
ApplyFails ==
  /\ UNCHANGED <<table, source>>
  /\ \/ F!Undeclared(objects') /\ UNCHANGED failures
     \/ failures < MaxFailures /\ failures' = failures + 1

\* It makes call i of attempt a, and answers with a success either way.
Make(a, i) ==
  /\ Stores(CallsOf(tried[a])[i], ids[a, i])
  /\ Applies \/ ApplyFails
  /\ log' = [log EXCEPT ![a] = Append(@, i)]

attempt == Len(tried)

Handle ==
  /\ state = "running" /\ call = "sent"
  /\ Make(attempt, next)
  /\ call' = "made"
  /\ UNCHANGED <<ids, tried, state, next, done, late>>

\* The daemon answers with an error and stores nothing.
Refuse ==
  /\ state = "running" /\ call = "sent"
  /\ call' = "refused"
  /\ UNCHANGED <<daemonVars, ids, tried, state, next, done, late>>

\* A call nobody waits for any more reaches the daemon.
HandleLate ==
  \E l \in late :
    /\ Make(l[1], l[2])
    /\ late' = late \ {l}
    /\ UNCHANGED <<ids, uiVars>>

-----------------------------------------------------------------------------
(* The terminal UI and the client library *)

\* While a bundle runs the UI accepts no other; after an error the form is still open.
Submit(f) ==
  /\ state # "running"
  /\ attempt < MaxAttempts
  /\ tried' = Append(tried, f)
  /\ state' = "running"
  /\ UNCHANGED <<daemonVars, ids, next, call, done, late>>

IsLast(f, i) == i = Len(CallsOf(f))

\* The next call, or the success flash after the last.
GoOn ==
  /\ next' = IF IsLast(tried[attempt], next) THEN 1 ELSE next + 1
  /\ call' = "sent"
  /\ IF IsLast(tried[attempt], next)
     THEN state' = "done" /\ done' = done \cup {attempt}
     ELSE UNCHANGED <<state, done>>
  /\ UNCHANGED <<daemonVars, ids, tried, late>>

\* The bundle ends at its first error.
Fail ==
  /\ state' = "failed"
  /\ next' = 1 /\ call' = "sent"
  /\ UNCHANGED <<daemonVars, ids, tried, done>>

Reply == state = "running" /\ call = "made" /\ GoOn

\* Mutant of ReplyRefused: the bundle goes on.
ReplyRefusedIgnored == state = "running" /\ call = "refused" /\ GoOn

ReplyRefused == state = "running" /\ call = "refused" /\ Fail /\ UNCHANGED late

\* Mutant of Lost: the error of a call is dropped.
LostIgnored == state = "running" /\ call = "sent" /\ GoOn

\* The connection fails: before the daemon made the call, or before its answer came.
Lost == state = "running" /\ Fail /\ UNCHANGED late

\* Twenty seconds are over while the call waits for the daemon.
TimeOut ==
  /\ state = "running" /\ call = "sent"
  /\ Fail
  /\ late' = late \cup {<<attempt, next>>}

Init ==
  /\ objects = [F!Nothing EXCEPT !.lists = KnownLists]
  /\ settings = <<>>
  /\ table = {} /\ source = objects /\ failures = 0
  /\ log = [a \in 1..MaxAttempts |-> <<>>]
  /\ ids \in Numberings
  /\ tried = <<>>
  /\ state = "form" /\ next = 1 /\ call = "sent"
  /\ done = {}
  /\ late = {}

Next ==
  \/ \E f \in Forms : Submit(f)
  \/ Handle \/ Refuse \/ HandleLate
  \/ Reply \/ ReplyRefused \/ Lost \/ TimeOut

Spec == Init /\ [][Next]_vars
-----------------------------------------------------------------------------
(* Properties *)

Elements(s) == {s[i] : i \in DOMAIN s}
Anonymous(S) == {[x EXCEPT !.id = 0] : x \in S}
Completed == {tried[a] : a \in done}

\* What one undisturbed run of a form leaves in the store.
Clean(f) ==
  [in \in DOMAIN F!Nothing |->
     IF in = "lists" THEN KnownLists
     ELSE {c.what : c \in {d \in Elements(CallsOf(f)) : d.op = "create" /\ d.in = in}}]

\* An apply succeeded since the daemon made the calls of a form.
InForce(f) ==
  \A c \in Elements(CallsOf(f)) : c.op = "create" => c.what \in Anonymous(source[c.in])

\* A return or gateway bundle lets the packet out (priority 40).
LetOut(k) == \E r \in source.rules : r.prio = 40 /\ F!Hits(F!Compile(r, KnownLists), k)

\* What is stored of an attempt is a beginning of its bundle, in order, whatever was lost,
\* refused or late: no NAT or setting without the calls it follows (commands.go:238-288).
StoredInOrder == \A a \in 1..MaxAttempts : \A i \in DOMAIN log[a] : log[a][i] = i

\* The success flash means that everything the form asked for is stored, settings with the
\* values asked for unless another form was submitted (commands.go:142-149).
DoneIsComplete ==
  \A f \in Completed : \A c \in Elements(CallsOf(f)) :
    /\ c.op = "create" => c.what \in Anonymous(objects[c.in])
    /\ c.op = "set" /\ Elements(tried) = {f} => c.in \in DOMAIN settings /\ settings[c.in] = c.what

\* Submitting a form until it succeeds and is applied leaves the same table as one undisturbed
\* run of it, whatever failed attempts left behind and late calls add: duplicates in the store
\* do not become duplicates in the kernel (firewall.go:62).
RetryIsHarmless ==
  \A f \in Completed :
    Elements(tried) = {f} /\ InForce(f) =>
      /\ Anonymous(table) = Anonymous(F!Script(Clean(f)))
      /\ \A r, s \in table : Anonymous({r}) = Anonymous({s}) => r = s

\* After a return bundle with replies, or a gateway, that an apply put in force, established
\* packets are accepted, whatever else was or will be blocked, and whatever applies fail
\* (easy.go:903: high priority so replies always pass).
RepliesPass ==
  (\E f \in Completed :
     /\ f.kind = "gateway" \/ (f.kind = "masq" /\ f.full) \/ (f.kind = "return" /\ f.established)
     /\ InForce(f))
  => \A k \in F!Packet : k.kind \in Established => F!Verdicts(table, k) = {"accept"}

\* Once a block has succeeded and an apply put it in force, the new connections its rules match
\* are dropped, whatever allows were or will be made (easy.go:1076: blocks before default
\* allows), save where a return or gateway bundle let the client out.
BlocksHold ==
  \A f \in {g \in Completed : g.kind = "access" /\ g.do = "block" /\ g.chain = "forward" /\ InForce(g)} :
    \A c \in Elements(CallsOf(f)), k \in F!Packet :
      /\ F!Hits(F!Compile(c.what, KnownLists), k)
      /\ k.kind \notin Established /\ ~LetOut(k)
      => F!Verdicts(table, k) = {"drop"}
=============================================================================

# A TLA+ model of netpolicyd

netpolicyd is a daemon that keeps desired network-policy objects (policies, routes, NAT,
forwards, firewall rules, IP lists, traffic limits, addresses, links, sysctls) in memory and
reconciles them to a Linux host with `ip`, `nft` and `tc`. Clients write objects through an
HTTP API, a controller pushes the whole desired state, and a terminal UI does both for an
operator. This directory models the parts whose correctness depends on the order in which
things happen, checks them with TLC and proves the central part with TLAPS.

Paths below are relative to the repository root.

## The system

| Component | State | Operations | Module |
|---|---|---|---|
| API server, `internal/api/server.go` | `applyMu`; the goroutine of each request | one handler per path; `desired`, `apply`, `doApply`, `ipForward` | `ApplyServer` |
| Memory store, `internal/store/memory.go` | one map per kind of object, `ipForward`, `lastApply`, `lastGen` | `Upsert*`, `Replace*`, `Update*`, `Delete*`, `AppendIPListEntries`, `Snapshot`, `SetLastApply`, each under `Memory.mu` | `Store` (objects), `ApplyServer` (the rest) |
| Runner, `internal/apply/apply.go` | none; the host is its state | `Apply`: run a plan's commands, skip or report what fails | `ApplyServer`, `Reconciler` |
| Policy routing, `apply.go`, `ip.go` | `/etc/iproute2/rt_tables`, rules, tables, conntrack | `Plan`, `planIPRules`, `pruneIPRules`, `conntrackFlushOnEgressChange` | `PolicyRouting` |
| Firewall, `firewall.go`, `nftscript.go`, `lists.go` | table `inet netpolicyd` | `planFirewall`, `planNFTBatch`, dedupe and list expansion | `Firewall` |
| Traffic control, `tc.go` | classes, filters, police actions | `planTC`, `allocateTCMinor`, `u32Alloc` | `TrafficControl` |
| Terminal UI, `internal/tui` | `rootModel` | `Update` for keys, ticks, `dataMsg`, `actionDoneMsg`, `applyDoneMsg` | `Tui` |
| Easy-mode bundles, `internal/tui/easy.go`, `commands.go` | the calls of a form still to be made | `submitEasyEgress`, `submitEasyReturn`, `submitEasyMasq`, `doEasyGateway`, `submitEasyConfig`, `submitEasyAccess`, `doAction` | `Bundles` |
| Traffic sampler, `internal/host/traffic.go` | `trafficLast` under `trafficMu` | `CollectTraffic`, `collectSS` | `TrafficSampler` |

Not modelled: the UI's views and styles, `netpolicyctl`'s subcommands, the host dump,
and what each validation pattern accepts. They read state or match strings;
`PROJECT.json` lists each with its reason.

### How the parts interact

A handler writes to the store, then calls `doApply`, which takes `applyMu`, takes a snapshot,
builds a plan from it, runs the plan's commands one by one and records the result. IP-list
handlers write and return without an apply. `PUT /v1/desired` makes one store call per object,
applies unless one was refused, and records result and generation a second time after the mutex
is free. `PUT /v1/sysctl/ip_forward` writes the store and the kernel outside the mutex. The
UI's fetches and mutations are calls of this API from goroutines that report back as messages.
An easy-mode form becomes several calls, made one after the other within one deadline of twenty
seconds; the first error ends them. `GET /v1/traffic` compares the host's counters with those the
last such request left in memory.

### What is hard about it

* Concurrency: every request has its own goroutine, and store calls of different requests
  interleave; only `doApply` is serialised.
* Persistence: the store is lost with the process while rules, tables, the registry file and
  connections survive. The next plan has to cope with what earlier ones left.
* Partial failure: any command may fail or be skipped and the plan goes on; a bundle of calls ends in
  the middle and what was made stays.
* Time-outs: a call the client gave up may still be executed, after calls that were made later.
* Order: of commands within a plan (conntrack before rules), of rules in a chain, of filters in
  a device, of replies in the UI.
* Derived identity: table ids from a registry, class minors and filter nodes from hashes, rule
  priorities from positions.
* Staleness: lists change under compiled rules, the UI acts on what it showed a moment ago.

`PROJECT.json` lists the hazards one by one with their lines and the properties that cover them.

### What makes each component correct

* Server and runner: what an answered request wrote is on the host, or its apply missed it; plans are serial; the
  host never goes back to older content; the reported generation was programmed; a dry run and
  the mock backend change nothing; every request is answered.
* Store: list names are unique across concurrent writers; the same push twice leaves the same store.
* Policy routing: one rule of policies per source and priority, but for what a failed delete left; a
  plan none of whose commands failed leaves what it wanted and nothing else of policies; no source leaves
  through an egress nobody chose; a table leads to its own egress only; an empty plan removes nothing;
  connections follow an egress that was switched, where the conntrack tool is installed.
* Firewall: what policies declare is accepted, translated and marked, however rules are merged,
  dropped and ordered.
* Traffic control: each limit has a class, a meter and filters of its own under every collision.
* UI: one mutation at a time; the screen never goes back in time; fetching never sticks.
* Bundles: only a beginning of a bundle is ever stored; success means that all of it is stored. Once it
  is applied, too, submitting again leaves what one clean run would, and replies pass and blocks hold
  whatever else is submitted and whichever applies fail.
* Traffic sampler: no byte is lost between answers, none is told twice but by a reading that failed
  half-way, no rate is above what the host carried, and sockets are counted as they were.

## Modules

Each specification has an `MC...` module that defines its instances for TLC; each run is a `.cfg`
of the same name. Definitions keep the names of the functions they model; the `map` of
`PROJECT.json` gives the lines of each. A definition whose comment begins with "Mutant of" is a
plausible bug in the definition it names. It is no part of the specification: `PROJECT.json` says
which property notices it when it takes that definition's place.

**Reconciler** is the abstract specification: desired objects change at any time, at most one plan
is in force, a plan is one snapshot, only it programs the kernel, a restart forgets it.

**ApplyServer** is the server in detail. `pc[t]` is where the handler of thread `t` is. `live` says
whether the process runs with the real backend or the mock one. Contents are numbered by the store
write that made them, so "older" is a comparison: `store[c]`, `snap[t][c]` and `host[c]` are such
numbers. `Receive` picks a request; `StoreObject`/`RefuseObject` are the object handlers;
`PushCollection` and `PushForward` are `desired()`, one collection at a time; `Lock`,
`TakeSnapshot`, `RunForward`/`MissForward`, `RunCollection`/`MissCollection`, `PlanDone`,
`ReadGeneration`, `RecordApply`, `Unlock` are `doApply`; `RecordPush` is the second `SetLastApply`.
`Restart` empties everything but the host. The whole of a plan's commands for one collection is one
step, in a fixed order (`PlanOrder`); the modules below open these steps up.

**ApplyServerProofs** holds the theorems about it.

**Store** keeps what ApplyServer abstracts: objects with ids, names and bodies. `desired(D)` is the
store calls a push makes, one list of calls for each loop of the handler, and calls of several clients
interleave one by one. `alone` remembers whether a client's requests met those of another.
**StoreProofs** holds its theorems.

**PolicyRouting** executes a plan's `ip` and registry commands one at a time. `todo` is the rest of
the plan and `step` the next command of its first item. Devices come and go, connections open, a
command fails and the daemon dies between any two of them. The kernel's rule list, its tables,
the lookup (`Exits`) and conntrack are modelled from how the commands use them. An instance is a
set of scenarios, each with what is pushed and how many plans, failures, torn registry lines and
events there are; a behaviour chooses one at the start. `racing` holds the connections that opened
while a plan ran. What a delete selects (`Selects`) is what its command line says: a source or a mark
that is not given is not compared. Commands that hide their errors (`ip rule del` in loops and with
`|| true`, `conntrack -D`) may fail like the others; the daemon then reports success and goes on. `clean`
says that nothing failed, hidden or not, so it is stronger than the daemon's own success; `left` holds the
rules a failed delete was to take. The conntrack tool is optional (`docs/INSTALL.md:6` does not require it),
and each scenario says whether it is there. `Exits` looks at every rule an unmarked packet of the source
meets, those for all sources included. **RoutingProofs** holds its theorems.

**Firewall** builds the set of rules a desired state asks for (`Asked`), drops duplicates
(`Dedupe`), compiles lists (`Compile`) and replaces the kernel's table in one transaction, or has
it refused. The properties look at the first matching rule of a packet. Slice positions, which
decide what stays of two rules alike, are kept as `class`. Between equals of a class and priority the id
decides, which stands for the order in which the snapshot's map and its unstable sort happen to yield
them; verdicts are the set over all orders. An entry of NAT has its kind and, for an snat, the address it
translates to: whatever its kind it covers a source (`Covers`), and without an address an snat is not
rendered (`Rendered`). **FirewallProofs** holds its theorems.

**TrafficControl** plans classes, filters and meters and runs the commands one at a time. `Init` draws
the hashes, of which nothing is assumed but that they are less than `Width`, 2^32; `Allocate` probes from them, for
class minors and for node ids, and its sum wraps there as the code's does. A limit's class comes before its filters, as in
`planOneTC`. **TrafficProofs** holds its theorems.

**Tui** is `Update`: one action per key, message and reply, with the goroutines of fetches and
mutations and the daemon's answers between them. Easy and advanced mode share this state and
these handlers, so they are not told apart. Here a bundle of calls is one call. A fetch is `fetchData`
call by call: it asks for the overview, whose lists the daemon reads one after the other (`ReadList`); when
that fails and the status is answered, it asks for each list by itself, and a list whose call fails
(`ListFails`) is shown empty without an error, as in `commands.go:66-119`. The lists of one reply may thus be
of different times, and each has the version it was read at. Fetch generations are told apart modulo
`Span`, which keeps the model finite and is no part of the code, whose counter has 64 bits: a fetch begins
only while the next number is free (`GenIsFree`). **TuiProofs** holds its theorems.

**Bundles** opens that call up. `CallsOf(form)` translates the submit functions into the sequence of API
calls they make; `Submit`, `Reply`, `ReplyRefused`, `Lost` and `TimeOut` are `doAction` and the client
library, `Handle`, `Refuse` and `HandleLate` the daemon, whose plan is `Firewall!Script`: the module
instantiates `Firewall` and reads verdicts from its tables. `log[a]` lists the calls the daemon made of
attempt `a`. Ids are drawn before they are needed (`ids`), since rules of equal priority are ordered by
them. `MaxCalls` bounds how many calls a form makes, so that ids can be drawn for all of them.
A form has the fields that decide which calls are made and what they ask for: of a block or an allow its
chain, addresses, lists, devices and sets of ports; of a return the address an snat goes to; of the
settings rp_filter, which may be left alone, its device, and whether to apply. Each call is answered with
a success whether its apply was one or not, as `server.go:535` does, so the kernel's table may stay the
earlier one (`ApplyFails`); `source` is what the table was compiled from. What the properties say of the
kernel they say of forms whose objects a later successful apply has put in force (`InForce`); of a success whose
apply failed they claim nothing, and the status' `last_apply_ok` is where the user can see it.
**BundlesProofs** holds its theorems.

**TrafficSampler** is `CollectTraffic` with the host under it: `Begin` looks at the clock,
`ReadCounters` at `/proc/net/dev`, `Rates` is the part under `trafficMu`, `SS` the three calls of `ss`,
`Answer` the totals and the cut list. A reading that fails half-way keeps the lines it got, and rates are told
from them while the baseline stays (`traffic.go:106-110`, `:186`); `again` remembers the interfaces this
told of. Time, counters, interfaces and sockets change between any two of
them. `Total` counts the bytes of all interfaces one by one, which is their sum and can be reasoned about.
A behaviour chooses one of several budgets for these changes. **SamplerProofs** holds its theorems.

## Runs

Runs that pass:

| Run | Question | Bounds |
|---|---|---|
| `MCApplyServer` | Do concurrent requests of every kind keep their promises, through a restart and with either backend? Is the server a `Reconciler`? Is every request answered? | 2 threads, 2 collections, 2 requests, 1 restart, fairness |
| `MCStore` | Do concurrent pushes and edits leave a well-formed store, and is a repeated push a no-op? | 2 clients, 3 requests |
| `MCRouting` | What do plans leave of earlier ones, and of what operators wrote? | 2 sources, 2 egresses, seven scenarios (below) |
| `MCFirewall` | Every combination of the instance's objects, list edits before and after | 5 policies, 3 rules, 4 NAT entries (an snat with an address and one without among them), 1 forward, 1 list, 3 addresses, 2 kinds of packet |
| `MCTraffic` | Limits under every collision of hashes | 2 limits on 2 devices, 3 minors, 7 node ids, words of 8, 3 hashes, 2 plans, 1 failure |
| `MCTui` | Any order of keys, replies, failures and other clients; does a fetch always end? | 1 policy, 2 lists, 1 change, 1 error, fairness |
| `MCBundles` | Forms submitted until they succeed, or one after another, with every call refused, lost or late, and applies failing | 8 forms of the 6 kinds, 3 attempts, 1 failed apply, 2 services, 2 lists, at most 5 calls a form, ids out of order |
| `MCTrafficSampler` | Polls in turn and at once while the host changes under them | 2 interfaces, 3 sockets, 3 requests, 2 at once, 3 ticks; five budgets (below) |

The scenarios of `MCRouting` are `Moves` (sources move between egresses, to direct and back, and
are removed; 4 plans, 1 failed command, 1 torn registry line, 1 crash or lost device, or 3 plans, 2 failed commands,
1 crash or lost device), `Names`
(egresses come into and go out of use, on a host without conntrack; 5 plans, 2 failures, 2 events), `Kinds` (every kind of item
a plan has; 3 plans, 2 failures, 1 event), `Sparse` (plans that have items and nothing to keep; 4 plans,
1 failure, 1 event), `Clashes` (a client's route in an egress's table, explicit rules at the priorities of
policies, with and without a source, and a policy above the band; 3 plans, 1 failure, 1 event) and `Switch`
(one source changes its egress while connections open; 4 plans). The host has two rules of an operator, one on each side of the managed band.

The budgets of `MCTrafficSampler` are `Poll` (polls one after the other; 3 ticks), `InTurn` (the same with
2 interfaces going or coming; 2 ticks), `Anew` (the clock is set back, the daemon restarts; 2 ticks), `AtOnce` (two polls together; 2 ticks), each with a
reading that fails at once or half-way, and `OfSockets` (one poll, 3 sockets changing, calls of `ss` failing, a restart). Requests are
symmetric.

Why the bounds are enough to meet the cases: two requests are the least at which one can be
overtaken between its store call and the mutex, and a restart between them leaves a host that
neither knows. Two collections separate a half-programmed plan from a whole one. In the store,
three requests let a push be repeated with another client's before or between. In routing, the
third and fourth plan are what makes an id or a rule that an earlier plan left behind come back;
one failure, crash or lost device at any command of any of them is the interesting minimum, and
the properties compare the end of a later plan with it. In traffic control, three minors and seven
node ids are the fewest that `Roomy` asks for with two limits of two addresses; hashes 0, 6 and 7 of words of 8 collide,
are neighbours, and wrap round the range and round the word. Its six sets of limits are two clients of two addresses,
one client and everyone at the highest priorities, a mark and an address at one priority, one mark in two limits, two devices, and none. In the UI, two fetches
in flight and one mutation are all that can be pending together; more objects only add more of
the same keys. Two lists are what it takes for a reply to hold lists of different times. Three attempts at a form are two that fail in different places and one that succeeds,
with late calls of either, or three different forms whose rules meet. For the sampler, three polls are the
least at which a bad baseline shows in the third. No run uses a state constraint: the bounds are guards of the actions and named in
the modules.

`CHECK_DEADLOCK FALSE` appears where the bounds stop the system (all requests served, all plans
run, all edits made, all forms submitted, all budgets spent). The UI, whose timer always fires, is checked for deadlock.

Some properties hold on a condition that the code needs and does not check; each names it.
`NeverElsewhere` and `TablesLeadHome` suppose that no registry line was torn and that no client's route
goes into the table of an egress (`Rerouted`); `NeverElsewhere` is about sources that only policies
lead through tables of egresses, from within the band and at priorities of their own (`OnlyPolicies`).
`NeverElsewhere` is about unmarked packets; what a rule for all sources leads is part of `Exits`, and a source that
an explicit rule or an operator's leads through an egress is not one of those.
`FlowsFollowEgress` speaks of hosts with the conntrack tool, of connections opened while no plan ran, of
sources that every push gives an egress at one priority (`AlwaysRouted`), and of behaviours in which nothing failed before.
`NoSiblings` leaves out what a failed `ip rule del` left, until a later delete takes it, and `Converged` is
about plans in which none failed.
`NoSiblings` and `Converged` leave out what explicit rules do: the delete of one names its table, so
one that changed its table stays beside the new one, and one may delete or shadow another rule the plan
wants (`Compatible`). An operator's rule is safe unless a policy or an explicit rule has its selectors
(`Addressed`), which a policy of a priority above 999 may. Ids of tables are handed out upwards from
100 without regard to the kernel's own 253 to 255; `NamesAssumption` supposes fewer egresses.
`TxIsLimited` and `RxIsLimited` suppose ids for twice as many limits and addresses as
a device has (`Roomy`), since a probe that wraps at 2^32 tries some ids twice, and that no two limits of a device have one
mark (`Distinct`): at one priority the filter of the second would replace that of the first. `RxIsLimited` speaks of limits on the
traffic received by one device, as a police index is one for the host. `EgressIsTranslated` leaves out sources that only snat entries without an address cover, and `DenyHolds` is about
denies of priority below 90. `RetryIsHarmless`, `RepliesPass` and `BlocksHold` speak of forms that succeeded and
that a successful apply put in force (`InForce`), `BlocksHold` of clients that no return or gateway bundle let out.
`NothingLost` and `NoSpike` are about requests for traffic that do not overlap, and `NothingLost` lets a byte be
told again only of an interface a half-read answer told of.
The list below says what happens without it.

### Where the code and its documentation differ

Each of these runs has one property, taken from a comment or a document, and TLC finds the
shortest behaviour of the code that violates it. `PROJECT.json` quotes both sides.

| Run | What happens |
|---|---|
| `MCStatusLastApply` | a push's second `SetLastApply` is outside `applyMu` and overwrites a newer result |
| `MCOutOfBand` | the rule of a policy of priority 1000 is outside the band the prune looks at and outlives the policy |
| `MCGuardWindow` | a blackhole guard is absent for a moment in every apply |
| `MCUnfinishedNAT` | an snat entry without `to_source` is stored, covers its source and is not rendered |

Other differences met while modelling. The modules do what the code does; no run states these.

* `server.go:514`: the result `doApply` records has generation 0 beside the generation it keeps.
* `apply.go:60`: forwarding is planned only when wanted on, so no apply turns `ip_forward` off.
* `server.go:437`: a push merges routes, NAT, forwards, addresses, links, sysctls and lists where
  `docs/API.md:29` says "Replace bulk state"; objects without ids pile up.
* `apply.go:240`: a connection opened between the conntrack flush and the rule change stays on the
  old egress. And when an `ip rule add` failed, the next plan's flush finds no old rule and flushes
  nothing.
* `ip.go:44`: explicit rules without a priority get one from their position, so they are added
  again elsewhere when the order of equal priorities in the snapshot changes.
* `ip.go:44`: the automatic priorities begin at 11000, outside the managed band, so such rules are never
  pruned; `pkg/api/types.go:251` says "0 = auto 10000+".
* `apply.go:479`: only lines of netpolicyd are read from `rt_tables`, so an id that other software
  registered counts as free and its table's default route is replaced.
* `apply.go:373`: the accept derived from an egress policy has priority 90 and comes before every deny of
  91 or more, however early that deny is among the policies.
* `apply.go:545`: the fwmark rule of a policy outlives the mark, since the prune skips rules from all.
* `apply.go:283`: direct without a list routes the whole source through main.
  `TestDirectPolicyWithoutListEmitsNothing` says it must not, `pkg/api/types.go:31` says it does.
* `apply.go:142`: when `sed` has removed a registry line and `echo` did not write it again, the id is
  free and the next egress takes it while the old rules still point at it.
* `nftscript.go:143`: a derived mark rule whose list is unknown marks every destination.
* `apply.go:242`: any error of `ip rule del` ends the loop, is hidden, and the add follows, so an old rule of
  a source may stay beside the new one while the apply is reported as a success.
* `apply.go:451`: without the conntrack tool, or when it fails, old connections stay on the old egress and
  the apply is reported as a success.
* `server.go:535`: an object is answered 201 whatever its apply did, and the UI shows its success flash.
* `firewall.go:62`: duplicates are dropped before rules are sorted, so of two alike the one with
  the later priority may stay, behind a drop that should come after it.
* `nftscript.go:108`: a list without entries is referred to and not declared, and `nft` refuses the
  whole table.
* `nftscript.go:117`: rules of custom chains are compiled and not rendered.
* `tc.go:156`: a police index is unique on one device and the kernel keeps one table of them, so
  limits of two devices can share a meter.
* `tc.go:117`: the order of limits without a priority comes from a hash, so a limit on everything may
  come before a specific one.
* `tc.go:32`: a limit that was removed stays on the host.
* `traffic.go:50`: of two requests for traffic that overlap, the older sample may be stored last. The next
  answer then tells bytes a second time, or divides them by the least interval of 50 ms.
* `traffic.go:106`: "A failed read returns an empty map", says the comment; `:186` returns the lines read so far with
  the error, so their bytes are told now and again by the next answer.
* `traffic.go:78`: an interface renamed to a name whose last reading was lower is answered the difference
  of two interfaces' counters.
* `traffic.go:245`: an error of `ss` is passed on only when every call failed, so totals may lack all of TCP
  without a word.
* `easy.go:1076`: a drop of priority 50 is meant to stand "before default allows", but the rules that return
  and gateway bundles add for their clients have 40.
* `commands.go:144`: a call of a bundle that timed out may be stored after the user was told it failed.
* `commands.go:75`: a list whose own call fails is shown empty and without an error, if the status was answered.
* `model_root.go:217`: a reply that is not of the newest generation is dropped; when every reply comes after the
  next fetch has begun, none is shown.
* `model_root.go:183`: the first fetch does not set `fetching`, so a second one may start beside it.
* `model_root.go:502`: a detail left over from a cancelled delete hides the one opened next.
* `model_root.go:753`: a toggle sends the opposite of what the screen shows, which may be stale.
* `model_root.go:264`: the reply to an earlier mutation closes a form opened since.

### Fairness

`ApplyServer!FairSpec`: each handler's next step is weakly fair, since goroutines are scheduled
and store calls and commands return; taking `applyMu` is strongly fair, since `sync.Mutex` hands
over to a waiter that has starved for a millisecond. Nothing obliges a client to send a request
or the daemon to restart. `Tui!FairSpec`: every fetch is answered or times out after twelve
seconds, and Bubble Tea delivers its message; neither keys nor mutations have to go on. `MCApplyServer`
runs under the first, and `MCTui` under the second.

## Proofs

`ApplyServerProofs` proves, for any set of threads, any collections, any order in which they are
pushed and planned and any bounds, from the named assumptions in `ApplyServer` (the free mutex is
no thread; the plan's order covers every collection; requests are of the listed kinds):

| Theorem | Statement |
|---|---|
| `TypeCorrect` | `Spec => []TypeOK` |
| `Inductive` | `Spec => []IInv` |
| `Acknowledged` | `Spec => []ReadYourWrites` |
| `Serial` | `Spec => []OnePlanOnHost` |
| `Generations` | `Spec => []GenerationIsProgrammed` |
| `Monotone` | `Spec => NoRollback` |
| `Implements` | `Spec => ImplementsReconciler` |
| `RealPoints` | `Spec => []RealExecution` |
| `OnlyReal` | `Spec => OnlyRealApplies` |
| `MockIsHarmless` | `Spec => MockNeverTouchesHost` |

None of the properties is inductive. `IInv` adds what makes them so: `Mutex` (exactly the thread
inside `doApply` holds `applyMu`), `StoreIsNewest` (every number anywhere is at most the store's),
`PlanIsNewer` (the running plan's snapshot is at least what the host has, which holds because the
snapshot is taken after the mutex), `PlanHasWrites` (a snapshot contains its request's own
writes, because they were made before the mutex was taken), `PlanProgress` (a collection of the
running plan is on the host, or was missed, or is still ahead in `PlanOrder`), `PushIsProgrammed`
and `ReadGenIsProgrammed` (the generation on its way into the store was programmed). The lemmas
about `Ahead` say how the part of the order still ahead shrinks by one collection a step.
`SafeStep` and `ProgressStep` go through the actions of `Next`, with `Frame` for the many that leave
the plan alone and a lemma for each of those that do not (`ReceiveSafe`, `PlanDoneSafe`,
`UnlockSafe`, ...). `NoRollback` then follows since only `Program` changes `host` (`HostSteps`), and it
writes the snapshot.

For `Implements` the plan in force is the snapshot of the thread whose commands run. `RefinedStep`
maps `StoreObject`, an accepted `PushCollection` and `Restart` to `Write` and `Restart`,
`TakeSnapshot` of a real apply to `Begin`, `RunCollection` to `Program`, `PlanDone` to `End`, and
every other step to a stutter.

`RealExecution` is a second invariant, inductive given the types: what each point of a handler says
about its request and the backend. `OnlyReal` takes `applyMu` from `IInv` and the rest from it;
`MockIsHarmless` needs nothing else.

`BundlesProofs` proves every property of `MCBundles`, for any forms, clients, services, numberings and bounds:

| Theorem | Statement |
|---|---|
| `Prefixes` | `Spec => []StoredInOrder` |
| `Invariant` | `Spec => []Whole` |
| `SuccessIsComplete` | `Spec => []DoneIsComplete` |
| `TryingAgain` | `Spec => []RetryIsHarmless` |
| `RepliesAlwaysPass` | `Spec => []RepliesPass` |
| `BlocksAlwaysHold` | `Spec => []BlocksHold` |

`Ordered`, the first part of the invariant, says which call each attempt waits for: a late call is the next
one of its attempt (`LateIsNext`), the call under way too until it was made (`RunningIsNext`), no attempt has
both, and nothing is stored of attempts to come (`Ahead`). `MakeNext` is the step that matters: an attempt's
log grows by the index it is waiting for. `Whole` adds that logs stay within their bundle (`Within`), that an
attempt reported as done is complete (`Finished`), and what the logs left in the store (`Effects`): every
call made has its object there but for the id (`AllKept`), every object there was asked for by
a form that was submitted (`ObjectsAsked`, `SettingsAsked`). The table is the script of `source`, the objects
of some earlier moment, which were asked for, too (`Compiled`); an apply that fails leaves both.
`Made` is its step; `SuccessIsComplete` follows at once.

The verdicts come from what forms may ask for (`CreatesOf`, `RulesAre`), since priorities, chains and
actions are fixed by the form's kind. Of rules alike one is kept, in front of the others (`OneKept`, `InForce`), so a rule that
was asked for stands in the table, by itself or by one that admits the same packets. If every rule that
admits a packet and says otherwise is behind it, it decides (`Decided`). A form in force has its rules in `source`, and only those matter. `WholeReplies` and `WholeBlocks`
enumerate what could be in front. `TryingAgain` compares two stores of one form that differ in the ids
and the number of copies only: what is derived from them is alike (`AskedAlike`), so the scripts are the same but for
ids (`ScriptsAlike`). That there are no duplicates needs more than the dedupe, which compares fingerprints: rules of one
form with one priority, chain and kind of packet are alike (`OneRule`, `OfOneForm`), and of rules alike the one with the least
id is kept (`KeptOnce`, `KeptFirst`), so two derived rules that a reader cannot tell apart have the id of one policy.

`TuiProofs` proves, for any objects, any order of details, any number of generations and any bounds:

| Theorem | Statement |
|---|---|
| `TypeCorrect` | `Spec => []TypeOK` |
| `OneAtATime` | `Spec => []OneMutation` |
| `Pending` | `Spec => []FetchingMeansPending` |
| `NeverOlder` | `Spec => NewestSnapshotWins` |

`KeyFrame` says once what a key can do beyond the screen: begin a fetch, start a mutation, or neither.
`CallFrame` sorts the steps into those that start, end or mark a call, so that `OneCall` (the call under
way is one when `busy` says so, else there is none) is kept by four short cases. For the fetches the invariant
is `FetchInv`: the newest is in flight while `fetching` is set, no two have one generation
(`GenUnique`), and no list of a reply is newer than the daemon, nor, once the current fetch has read it, older than that list
on the screen (`CurrentIsNewer`). `First` finds the first detail in an order of any length, from the well-foundedness of
the natural numbers.

`FirewallProofs` proves, for any objects, lists and packets:

| Theorem | Statement |
|---|---|
| `Accepted` | `Spec => []EgressIsAccepted` |
| `Translated` | `Spec => []EgressIsTranslated` |
| `Denied` | `Spec => []DenyHolds` |
| `Directed` | `Spec => []DirectFollowsList`, if no explicit rule marks packets |

`IInv` says that the table is what some stored state compiles to. `OneIsKept` is the lemma on which the rest
stands: of rules that are alike `Dedupe` keeps one, and it is not behind the others. A set of rules need not be finite for
this, since classes, priorities and ids are numbers; the least class, in it the least priority, and with it
the least id are chosen one after the other. `Standing` then finds, for a rule that is asked for, one in the table
that admits the same packets. For `Denied` the rule that stands for a deny has class 1, because no
explicit rule is alike, and is therefore no later than the deny itself; `AskedOrigin` says what every other rule that could
decide a packet is, and `SomeDecide` that one does. That explicit rules have no marks is an
assumption of `Directed`, since a client may store such rules and the property speaks of those of policies.

`RoutingProofs` proves, for any sources, egress names, operator's rules and scenarios of finite states -- any
number of plans, failing commands, crashes and lost devices:

| Theorem | Statement |
|---|---|
| `TypeCorrect` | `Spec => []TypeOK` |
| `Invariant` | `Spec => []IInv` |
| `NoTwoRules` | `Spec => []NoSiblings` |
| `PlansConverge` | `Spec => []Converged` |
| `OwnTables` | `Spec => []TablesLeadHome` |
| `ChosenTunnels` | `Spec => []NeverElsewhere` |
| `FlowsMove` | `Spec => []FlowsFollowEgress` |
| `NoMassPrune` | `Spec => EmptyPlanPrunesNothing` |

The argument has two halves. The first is about `Plan`. `FreeIds` shows that the id a new egress gets exists, by
counting: the ids are one more than the names, and the least id with more than `k` free ones below or at it is the
free one with exactly `k` below. `NewTables` and `TablesOf` conclude that the ids a plan hands out are distinct
and not in use. `PlanElems` says which items a plan has, whatever order the snapshot gave the loops.
The second half is about the commands. `Shape` says where a plan may be and `CommandLeft` how a command
moves it, which replaces the case of each command in most of the lemmas that follow; `CommandRules`,
`CommandDeletes` and `CommandDone` say what commands add, delete and achieve. With these, each part of `IInv` has
a lemma for `Start`, one for commands and one for the host:

* `Cleared`: between the delete and the add of a policy's rule no rule has its selectors but those a failed delete
  left (`left`), whatever the rules were. `NoSiblings` needs this and nothing about earlier plans, which is why crashes do
  not matter. `NoneLeft`: as long as nothing failed there are no such rules.
* `WideForeign`: unmarked rules for all sources are the operator's or explicit ones, so they lead no source of
  policies alone through an egress.
* `Kept` and `Converging`: what a plan without a failure wants is there or left to be added, what it does
  not keep is pruned or the prune is left, and what is at a policy's priority is wanted or left to be cleared.
  When nothing is left this is `Converged`.
* `Tables`: an egress has one table, registered, promised by the running plan or about to be written
  (`Has`), and no other egress has it; a route in a table is that of the egress that holds it.
* `Led`: a rule that leads a source through a table leads it through that of an egress chosen for it. A
  plan may drop an earlier choice only after one that converged, so `LedStart` rests on `Converging`.
* `Following`: a source has one rule of policies at most, and its connections are over the egress whose table
  that rule looks up or, between the flush and the add, over the egress of the rule to come. `FlushSettles` is the
  step that matters: the one rule there is the one the flush compares.

A plan that keeps one rule is not covered by `NoMassPrune`: after a restart, one POST makes a plan that
prunes all others (see the hazards).

`SamplerProofs` proves all five properties of `MCTrafficSampler`, for any interfaces, sockets, requests and
budgets, as long as interfaces and sockets are finitely many (`FiniteAssumption`). `Inv` has four parts. The
first, `IInv`, carries `ToldOnce`, `Spec => []NothingLost`: it adds that counters of interfaces that stay do not fall (`Growing`), what a waiting request holds
(`AllHold`: its reading, of which a failed one has some of the lines, is not newer than the counters, and not older than the
baseline unless another request stored in between), and that nothing was told before the first baseline (`Begun`). Steps of the host, of
`ss` and of the answer leave all this alone (`Aside`); `RatesStep` shows that what is told is the
difference of the two baselines. That a request which was overtaken stores an older baseline is in the
code, and is why the property speaks of requests that do not overlap.
The second, `Pace`, carries `NoFakeSpikes`: the counters are at most a byte a tick ahead of the baseline and of
every reading that waits, and a reading likewise of the baseline, unless another request stored in between;
an interface that comes again counts from zero and is behind both. `TotalBound` turns the bound of each
interface into that of their sum, as pairs of an interface and a byte. The third, `SInv`, carries
`StableCounted` and `RealConnections`: `SoundRows` says which call can have made a row, so that two
established rows are never about one socket, `KeptRows` that a socket which kept its state has the row it should, and
`CallKeeps` that each call of `ss` preserves both. The last part is the type of the wall clock. Looking for `SInv`
showed that the answer of a request cut short by a restart must not be kept, which `Restart` did before.

`StoreProofs` proves both properties of `MCStore`, for any clients, pushes and edits: `OwnNames`,
`Spec => []UniqueNames`, and `PushAgain`, `Spec => []PushIsIdempotent`. For the first, `IInv` says that
the calls a request has left are of the kinds requests make, and that lists which are stored have an id and
names of their own. The calls take half of the proof (`DesiredType`, `NextCall`), because what a
call stores is known only from where it came. `PutGood` is the other half: an accepted list drops the one
with its id, and no other has its name; `BodyGood` says that extending a list does not rename it.
The theorem relies on each store call being atomic, which `mu` in `memory.go` gives.

`PushInv` carries the second. What was settled last is what is stored, unless a push is going on
(`Settlement`), so a push that begins by itself begins there. While it goes on, `Stored` says what it has stored but for the calls it
has left: of each key the last object sent, and of lists no name that belongs elsewhere. When nothing is left,
this is what an equal push finds, and `Again` says that this one then changes only keys it will
write again: an object may be sent twice with one id, and the store is different in between. `NamesKept` shows that no list is refused
the second time. It needs that the push gives a list's name one id: a
push that sends list 1 as a, list 2 as b and then as c, list 1 as b, list 2 as d and list 3 as c is accepted by an empty store, and
when it is sent again list 1 keeps the name a. The proof attempt found this, and `Known` now says so.

`TrafficProofs` proves all three properties of `MCTraffic`, for any limits, devices, ranges and hashes. What a
plan computes comes first. `FlattenSeq` is a recursive function, so `Lists` says where each of its elements is from, for any
number of lists (`Flattened`), by a least counterexample. `Allocate` is one too; `Allocated` says what it hands out:
`Probed` needs twice as many ids as are taken, for then the tries before the sum wraps or those after it are more than are taken,
and they differ (`ModDiffer`). `FewRivals` counts the filters that share a parent and a priority by their limits
and addresses. With this, `RawBody`, `BodyOfDevice` and `DevicePlanned` follow the commands from `planOneTC` through the numbering to
`planTC`, and `Planned` sums up in `OfPlan`: each limit's class and filters are there, the
ingress qdisc comes before what it would erase, and with ids enough no two commands have one key (`Apart`). `PlanOnce` says that a set of limits has
one plan: sorting by id leaves no choice.

Then the commands. Each adds one entry to the kernel and erases those of its key (`Effect`), so what is there after some
of them was added by one that no later one undid, or was there and survived (`Result`). `RunInv` says that `todo` is the rest of
a plan and that, while nothing failed, the kernel is the `Result` of the others on the one before. It quantifies over plans and
kernels, so TLC cannot evaluate it; the run checks the three properties. Two plans that ended cleanly with the same limits are the
same commands on two kernels, and a `Result` twice is a `Result` (`ResultAgain`), which is `Idempotent`, ids or no ids.
The attempt to prove `TxIsLimited` for full ranges found that it was false: the code's probe adds in 32 bits, so a hash near 2^32 tries
some ids twice and may miss the free one. The model added without wrapping before.

Only model-checked: the liveness properties (`EveryRequestAnswered`, `FetchNeverSticks`), which need fairness. Every other property of a passing run is stated by a theorem.

## What is left out, and why

* Addresses, links, sysctls and MTUs are idempotent `replace` commands that touch nothing else;
  in `ApplyServer` they are collections like the others.
* Ports, protocols and address families: they refine a match and interact with nothing.
* Policies of action allow, masquerade and forward derive nothing and are left out.
* In the UI: cursor, scrolling, flash timers, form fields. A bundle of calls is one call
  there, and what a bundle leaves is checked in `Bundles`.
* In bundles: how the fields of a form are parsed, and forms that make a single call and no firewall rule.
  No liveness: a bundle may fail for ever.
* In the traffic sampler: parsing, packets and transmitted bytes (treated like received ones), and the sums
  by address and by port.
* In traffic control: the root qdisc, its default class and the leaf qdiscs, which are only
  added when missing. The minor of the default class is below the range. The class 1:999 that a plan
  writes before those of the limits is left out: the limit whose minor is 0x999 takes it over.

## Plan

Done in this order: `Reconciler` and `ApplyServer` with proofs, `PolicyRouting`, `Firewall`, `Tui`,
`TrafficControl`, `Store`, `Bundles`, `TrafficSampler`, and the proofs about `Bundles`, `Tui`,
`TrafficSampler`, `PolicyRouting`, `Firewall`, `Store` and `TrafficControl`.

The list of runs is kept at twelve, so a module that is added may take the place of one of the four
runs that show a difference.

Next, the model: address, link and sysctl commands in a module on the order in which a plan depends
on devices; the overview composed with `Store`; IP rules with
selectors other than the source.

Next, the proofs: theorems about what is added to the model.

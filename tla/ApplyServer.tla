---------------------------- MODULE ApplyServer -----------------------------
(***************************************************************************)
(* The HTTP handlers of netpolicyd (internal/api/server.go) as concurrent  *)
(* threads: net/http runs each request in a goroutine of its own.  Every   *)
(* call on the memory store is one critical section (Memory.mu) and so one *)
(* step; doApply holds applyMu from before the snapshot until the result   *)
(* has been recorded; the commands of a plan run one collection at a time  *)
(* and any of them may fail or be skipped, which does not stop the plan.   *)
(*                                                                         *)
(* Data.  A collection stands for one map of the store (policies, routes,  *)
(* ..., IP lists).  Its content is identified by the number of the store   *)
(* write that produced it: store[c] is what the store holds, snap[t][c]    *)
(* what thread t's snapshot holds, host[c] the newest content whose        *)
(* commands all ran on the host.  Restarting empties the store, which is   *)
(* one more write.                                                         *)
(***************************************************************************)
EXTENDS Naturals, Sequences, FiniteSets

CONSTANTS
  Threads,        \* request goroutines in flight at the same time
  NoThread,       \* the holder of a free mutex
  Collections,    \* the store's collections of desired objects
  Replaced,       \* those PUT /v1/desired replaces (and which cannot fail)
  Lists,          \* those whose own handlers do not apply (the IP lists)
  DesiredOrder,   \* the order in which PUT /v1/desired writes them
  PlanOrder,      \* the order in which a plan programs them
  Gens,           \* generations a controller sends
  Requests,       \* the requests clients send, of those below
  MaxRequests,    \* bound: requests received
  MaxRestarts     \* bound: daemon restarts

ASSUME ThreadsAssumption == NoThread \notin Threads
ASSUME CollectionsAssumption ==
  /\ Replaced \subseteq Collections
  /\ Lists \subseteq Collections
  /\ DesiredOrder \in Seq(Collections)
  /\ PlanOrder \in Seq(Collections)
  /\ \A c \in Collections : \E i \in 1..Len(PlanOrder) : PlanOrder[i] = c
ASSUME BoundsAssumption ==
  /\ Gens \subseteq Nat
  /\ MaxRequests \in Nat
  /\ MaxRestarts \in Nat

VARIABLES
  store, storeFwd,      \* Memory: collections and ipForward
  host, hostFwd,        \* the kernel: what is programmed, net.ipv4.ip_forward
  applyMu,              \* Server.applyMu: the thread that holds it
  lastApply, lastGen,   \* Memory.lastApply (its number and generation), lastGen
                        \* (with the writes its push brought to the host)
  pc,                   \* where each handler is
  req,                  \* the decoded request
  at,                   \* position in DesiredOrder or PlanOrder
  errs,                 \* desired(): some upsert was refused
  snap, snapFwd,        \* doApply: the snapshot
  missed,               \* Apply: what was not programmed, collections or Forwarding
  readGen,              \* doApply: gen as read by LastApply
  applyNo,              \* number of this thread's apply
  wrote,                \* wrote[t][c]: the write this request made to c, or 0
  live,                 \* Runner.Backend is "live" (otherwise "mock"), fixed at start
  writes, applied, served, restarts   \* counters

storeVars == <<store, storeFwd, writes>>
hostVars  == <<host, hostFwd>>
lastVars  == <<lastApply, lastGen>>
execVars  == <<snap, snapFwd, missed, readGen, applyNo, applied>>
runVars   == <<served, restarts, live>>
vars == <<storeVars, hostVars, lastVars, execVars, runVars,
          applyMu, pc, req, at, errs, wrote>>

-----------------------------------------------------------------------------
Zero == [c \in Collections |-> 0]

\* No generation recorded yet.
NoGen == [gen |-> 0, content |-> Zero]

(* Requests.  fwd is the ip_forward a request carries; {} when it has none. *)

OneOf(S) == {{x} : x \in S}
NoRequest == [op |-> "none", coll |-> {}, fwd |-> {}, gen |-> 0, dry |-> FALSE]

\* POST, PATCH or DELETE of one object of a collection whose handler applies.
ObjectRequests == [op : {"object"}, coll : OneOf(Collections \ Lists),
                   fwd : {{}}, gen : {0}, dry : {FALSE}]
\* POST or DELETE of an IP list, or an append of entries to one.
ListRequests == [op : {"list"}, coll : OneOf(Lists),
                 fwd : {{}}, gen : {0}, dry : {FALSE}]
\* PUT /v1/desired: the collections and the ip_forward that were sent.
PushRequests == [op : {"push"}, coll : SUBSET Collections,
                 fwd : {{}} \cup OneOf(BOOLEAN), gen : Gens, dry : {FALSE}]
\* POST /v1/apply, with or without ?dry_run=1.
ApplyRequests == [op : {"apply"}, coll : {{}}, fwd : {{}}, gen : {0}, dry : BOOLEAN]
\* PUT /v1/sysctl/ip_forward.
ForwardRequests == [op : {"forward"}, coll : {{}}, fwd : OneOf(BOOLEAN),
                    gen : {0}, dry : {FALSE}]

AllRequests == ObjectRequests \cup ListRequests \cup PushRequests \cup ApplyRequests
               \cup ForwardRequests

ASSUME RequestsAssumption == Requests \subseteq AllRequests

\* Mutant of FirstStep: a route without a case of its own leads nowhere.
FirstStepUnrouted(op) == IF op = "apply" THEN "lock" ELSE "handler"

FirstStep(op) == CASE op = "apply"   -> "lock"
                   [] op = "push"    -> "push"
                   [] op = "forward" -> "setfwd"
                   [] OTHER          -> "store"

Receive(t) ==
  /\ pc[t] = "idle"
  /\ served < MaxRequests
  /\ served' = served + 1
  /\ \E r \in Requests :
       /\ req' = [req EXCEPT ![t] = r]
       /\ pc'  = [pc EXCEPT ![t] = FirstStep(r.op)]
  /\ UNCHANGED <<storeVars, hostVars, lastVars, execVars, applyMu, restarts, live, at, errs, wrote>>

Reply(t) ==
  /\ pc[t] = "reply"
  /\ pc'      = [pc EXCEPT ![t] = "idle"]
  /\ req'     = [req EXCEPT ![t] = NoRequest]
  /\ errs'    = [errs EXCEPT ![t] = FALSE]
  /\ wrote'   = [wrote EXCEPT ![t] = Zero]
  /\ snap'    = [snap EXCEPT ![t] = Zero]
  /\ missed'  = [missed EXCEPT ![t] = {}]
  /\ applyNo' = [applyNo EXCEPT ![t] = 0]
  /\ snapFwd' = [snapFwd EXCEPT ![t] = TRUE]
  /\ at'      = [at EXCEPT ![t] = 1]
  /\ UNCHANGED <<storeVars, hostVars, lastVars, readGen, applied, runVars, applyMu>>

-----------------------------------------------------------------------------
(* Store operations of the handlers *)

\* The store accepts a new content of c on behalf of t.
Write(t, c) ==
  /\ writes' = writes + 1
  /\ store'  = [store EXCEPT ![c] = writes + 1]
  /\ wrote'  = [wrote EXCEPT ![t][c] = writes + 1]

\* One object: accepted, then doApply -- except for IP lists, which reply at once.
StoreObject(t) ==
  /\ pc[t] = "store"
  /\ \E c \in req[t].coll : Write(t, c)
  /\ pc' = [pc EXCEPT ![t] = IF req[t].op = "list" THEN "reply" ELSE "lock"]
  /\ UNCHANGED <<storeFwd, hostVars, lastVars, execVars, runVars, applyMu, req, at, errs>>

\* One object: refused by validation, or not found.  Neither stores nor applies.
RefuseObject(t) ==
  /\ pc[t] = "store"
  /\ pc' = [pc EXCEPT ![t] = "reply"]
  /\ errs' = [errs EXCEPT ![t] = TRUE]
  /\ UNCHANGED <<storeVars, hostVars, lastVars, execVars, runVars, applyMu, req, at, wrote>>

\* Loops over the collections: thread t has not finished the order, and is at c.
Within(t, order) == at[t] \in 1..Len(order)
Here(t, order)   == order[at[t]]

\* desired(), one collection.  A replaced one is simply written; of a merged one any
\* of the objects may be accepted and any refused; one that was not sent is left alone.
Push(t, c) ==
  \/ c \in req[t].coll /\ Write(t, c) /\ errs' = errs
  \/ c \in req[t].coll \ Replaced /\ Write(t, c) /\ errs' = [errs EXCEPT ![t] = TRUE]
  \/ /\ c \in req[t].coll \ Replaced
     /\ errs' = [errs EXCEPT ![t] = TRUE]
     /\ UNCHANGED <<store, writes, wrote>>
  \/ c \notin req[t].coll /\ UNCHANGED <<store, writes, wrote, errs>>

PushCollection(t) ==
  /\ pc[t] = "push"
  /\ Within(t, DesiredOrder)
  /\ Push(t, Here(t, DesiredOrder))
  /\ at' = [at EXCEPT ![t] = @ + 1]
  /\ UNCHANGED <<storeFwd, hostVars, lastVars, execVars, runVars, applyMu, pc, req>>

\* desired(): ip_forward if sent, then 400 without an apply if anything was refused.
PushForward(t) ==
  /\ pc[t] = "push"
  /\ at[t] > Len(DesiredOrder)
  /\ \/ req[t].fwd = {} /\ storeFwd' = storeFwd
     \/ storeFwd' \in req[t].fwd
  /\ pc' = [pc EXCEPT ![t] = IF errs[t] THEN "reply" ELSE "lock"]
  /\ UNCHANGED <<store, writes, hostVars, lastVars, execVars, runVars, applyMu, req, at,
                 errs, wrote>>

-----------------------------------------------------------------------------
(* PUT /v1/sysctl/ip_forward: outside applyMu *)

SetForward(t) ==
  /\ pc[t] = "setfwd"
  /\ storeFwd' \in req[t].fwd
  /\ pc' = [pc EXCEPT ![t] = IF live THEN "execfwd" ELSE "reply"]
  /\ UNCHANGED <<store, writes, hostVars, lastVars, execVars, runVars, applyMu, req, at,
                 errs, wrote>>

\* The sysctl command; its error is dropped.
ExecForward(t) ==
  /\ pc[t] = "execfwd"
  /\ hostFwd' \in req[t].fwd \cup {hostFwd}
  /\ pc' = [pc EXCEPT ![t] = "reply"]
  /\ UNCHANGED <<storeVars, host, lastVars, execVars, runVars, applyMu, req, at, errs, wrote>>

-----------------------------------------------------------------------------
(* doApply *)

\* Mutant of Lock: a request that finds an apply running leaves its objects to that one.
LockJoins(t) ==
  /\ pc[t] = "lock"
  /\ applyMu' = IF applyMu = NoThread THEN t ELSE applyMu
  /\ pc' = [pc EXCEPT ![t] = IF applyMu = NoThread THEN "snapshot" ELSE "reply"]
  /\ UNCHANGED <<storeVars, hostVars, lastVars, execVars, runVars, req, at, errs, wrote>>

\* Mutant of Lock: doApply without the mutex.
LockUnguarded(t) ==
  /\ pc[t] = "lock"
  /\ applyMu' = t
  /\ pc' = [pc EXCEPT ![t] = "snapshot"]
  /\ UNCHANGED <<storeVars, hostVars, lastVars, execVars, runVars, req, at, errs, wrote>>

Lock(t) ==
  /\ pc[t] = "lock"
  /\ applyMu = NoThread
  /\ applyMu' = t
  /\ pc' = [pc EXCEPT ![t] = "snapshot"]
  /\ UNCHANGED <<storeVars, hostVars, lastVars, execVars, runVars, req, at, errs, wrote>>

\* Mutant of Miss: a command that fails is not reported.
MissUnreported(t, x) == missed' = missed

Miss(t, x) == missed' = [missed EXCEPT ![t] = @ \cup {x}]

Forwarding == "ip_forward"
\* Mutants of Executes: the dry-run flag, or the mock backend, is not looked at.
ExecutesDry(t)  == live
ExecutesMock(t) == ~req[t].dry

Executes(t) == live /\ ~req[t].dry

\* Store.Snapshot and Plan.  A dry run and the mock backend skip every command.
TakeSnapshot(t) ==
  /\ pc[t] = "snapshot"
  /\ snap'    = [snap EXCEPT ![t] = store]
  /\ snapFwd' = [snapFwd EXCEPT ![t] = storeFwd]
  /\ missed'  = [missed EXCEPT ![t] = IF Executes(t) THEN {}
                                             ELSE Collections \cup {Forwarding}]
  /\ applied' = IF req[t].dry THEN applied ELSE applied + 1
  /\ applyNo' = [applyNo EXCEPT ![t] = IF req[t].dry THEN @ ELSE applied + 1]
  /\ at'      = [at EXCEPT ![t] = 0]
  /\ pc'      = [pc EXCEPT ![t] = CASE Executes(t)  -> "exec"
                                    [] req[t].dry   -> "unlock"
                                    [] OTHER        -> "record"]
  /\ UNCHANGED <<storeVars, hostVars, lastVars, readGen, runVars, applyMu, req, errs, wrote>>

\* First the forwarding sysctls, planned only when ip_forward is wanted on.
RunForward(t) ==
  /\ pc[t] = "exec"
  /\ at[t] = 0
  /\ hostFwd' = IF snapFwd[t] THEN TRUE ELSE hostFwd
  /\ at' = [at EXCEPT ![t] = 1]
  /\ UNCHANGED <<storeVars, host, lastVars, execVars, runVars, applyMu, pc, req, errs, wrote>>

MissForward(t) ==
  /\ pc[t] = "exec"
  /\ at[t] = 0
  /\ snapFwd[t]
  /\ Miss(t, Forwarding)
  /\ at' = [at EXCEPT ![t] = 1]
  /\ UNCHANGED <<storeVars, hostVars, lastVars, snap, snapFwd, readGen, applyNo, applied,
                 runVars, applyMu, pc, req, errs, wrote>>

\* Mutant of Program: the store is read again instead of the snapshot.
ProgramStored(t, c) == host' = [host EXCEPT ![c] = store[c]]

Program(t, c) == host' = [host EXCEPT ![c] = snap[t][c]]

\* All commands of the next collection run ...
RunCollection(t) ==
  /\ pc[t] = "exec"
  /\ Within(t, PlanOrder)
  /\ Program(t, Here(t, PlanOrder))
  /\ at' = [at EXCEPT ![t] = @ + 1]
  /\ UNCHANGED <<storeVars, hostFwd, lastVars, execVars, runVars, applyMu, pc, req, errs, wrote>>

\* ... or one of them fails or needs a device that is missing; the plan goes on.
MissCollection(t) ==
  /\ pc[t] = "exec"
  /\ Within(t, PlanOrder)
  /\ Miss(t, Here(t, PlanOrder))
  /\ at' = [at EXCEPT ![t] = @ + 1]
  /\ UNCHANGED <<storeVars, hostVars, lastVars, snap, snapFwd, readGen, applyNo, applied,
                 runVars, applyMu, pc, req, errs, wrote>>

PlanDone(t) ==
  /\ pc[t] = "exec"
  /\ at[t] > Len(PlanOrder)
  /\ pc' = [pc EXCEPT ![t] = "record"]
  /\ UNCHANGED <<storeVars, hostVars, lastVars, execVars, runVars, applyMu, req, at, errs, wrote>>

\* Store.LastApply: read the generation that is to be kept ...
ReadGeneration(t) ==
  /\ pc[t] = "record"
  /\ readGen' = [readGen EXCEPT ![t] = lastGen]
  /\ pc' = [pc EXCEPT ![t] = "setlast"]
  /\ UNCHANGED <<storeVars, hostVars, lastVars, snap, snapFwd, missed, applyNo, applied,
                 runVars, applyMu, req, at, errs, wrote>>

\* ... and Store.SetLastApply: a result with Generation 0, and that generation.
RecordApply(t) ==
  /\ pc[t] = "setlast"
  /\ lastApply' = [no |-> applyNo[t], gen |-> 0]
  /\ lastGen' = readGen[t]
  /\ pc' = [pc EXCEPT ![t] = "unlock"]
  /\ readGen' = [readGen EXCEPT ![t] = NoGen]
  /\ UNCHANGED <<storeVars, hostVars, snap, snapFwd, missed, applyNo, applied, runVars,
                 applyMu, req, at, errs, wrote>>

\* Mutant of Unlock: a dry run returns without unlocking.
UnlockDryKept(t) ==
  /\ pc[t] = "unlock"
  /\ applyMu' = IF req[t].dry THEN applyMu ELSE NoThread
  /\ pc' = [pc EXCEPT ![t] = IF req[t].op = "push" THEN "setpush" ELSE "reply"]
  /\ UNCHANGED <<storeVars, hostVars, lastVars, execVars, runVars, req, at, errs, wrote>>

Unlock(t) ==
  /\ pc[t] = "unlock"
  /\ applyMu' = NoThread
  /\ pc' = [pc EXCEPT ![t] = IF req[t].op = "push" THEN "setpush" ELSE "reply"]
  /\ UNCHANGED <<storeVars, hostVars, lastVars, execVars, runVars, req, at, errs, wrote>>

\* desired(): the second SetLastApply, after doApply has released applyMu.
RecordPush(t) ==
  /\ pc[t] = "setpush"
  /\ lastApply' = [no |-> applyNo[t], gen |-> req[t].gen]
  /\ lastGen' = [gen |-> req[t].gen,
                 content |-> [c \in Collections |-> IF c \in missed[t] THEN 0 ELSE wrote[t][c]]]
  /\ pc' = [pc EXCEPT ![t] = "reply"]
  /\ UNCHANGED <<storeVars, hostVars, execVars, runVars, applyMu, req, at, errs, wrote>>

-----------------------------------------------------------------------------
(* The daemon dies and systemd restarts it: a new process, an empty store    *)
(* (NewMemory: ipForward on), the kernel as it was, perhaps another backend. *)

FreshProcess ==
  /\ pc      = [t \in Threads |-> "idle"]
  /\ req     = [t \in Threads |-> NoRequest]
  /\ at      = [t \in Threads |-> 1]
  /\ errs    = [t \in Threads |-> FALSE]
  /\ snap    = [t \in Threads |-> Zero]
  /\ snapFwd = [t \in Threads |-> TRUE]
  /\ missed  = [t \in Threads |-> {}]
  /\ readGen = [t \in Threads |-> NoGen]
  /\ applyNo = [t \in Threads |-> 0]
  /\ wrote   = [t \in Threads |-> Zero]
  /\ applyMu = NoThread
  /\ storeFwd = TRUE
  /\ lastApply = [no |-> 0, gen |-> 0]
  /\ lastGen = NoGen
  /\ applied = 0

Restart ==
  /\ restarts < MaxRestarts
  /\ restarts' = restarts + 1
  /\ live' \in BOOLEAN
  /\ writes' = writes + 1
  /\ store' = [c \in Collections |-> writes + 1]
  /\ pc'      = [t \in Threads |-> "idle"]
  /\ req'     = [t \in Threads |-> NoRequest]
  /\ at'      = [t \in Threads |-> 1]
  /\ errs'    = [t \in Threads |-> FALSE]
  /\ snap'    = [t \in Threads |-> Zero]
  /\ snapFwd' = [t \in Threads |-> TRUE]
  /\ missed'  = [t \in Threads |-> {}]
  /\ readGen' = [t \in Threads |-> NoGen]
  /\ applyNo' = [t \in Threads |-> 0]
  /\ wrote'   = [t \in Threads |-> Zero]
  /\ applyMu' = NoThread
  /\ storeFwd' = TRUE
  /\ lastApply' = [no |-> 0, gen |-> 0]
  /\ lastGen' = NoGen
  /\ applied' = 0
  /\ UNCHANGED <<hostVars, served>>

Init ==
  /\ FreshProcess
  /\ store = Zero
  /\ host  = Zero
  /\ hostFwd \in BOOLEAN
  /\ live \in BOOLEAN
  /\ writes = 0
  /\ served = 0
  /\ restarts = 0

Step(t) ==
  \/ StoreObject(t) \/ RefuseObject(t) \/ PushCollection(t) \/ PushForward(t)
  \/ SetForward(t) \/ ExecForward(t)
  \/ Lock(t) \/ TakeSnapshot(t) \/ RunForward(t) \/ MissForward(t)
  \/ RunCollection(t) \/ MissCollection(t)
  \/ PlanDone(t) \/ ReadGeneration(t) \/ RecordApply(t) \/ Unlock(t) \/ RecordPush(t)
  \/ Reply(t)

Next == Restart \/ \E t \in Threads : Receive(t) \/ Step(t)

Spec == Init /\ [][Next]_vars

(* The goroutines run whenever they can; a goroutine waiting for applyMu gets *)
(* it in the end (sync.Mutex hands over to waiters in starvation mode); every *)
(* command and store call returns.                                            *)
Fairness == \A t \in Threads : WF_vars(Step(t)) /\ SF_vars(Lock(t))

FairSpec == Spec /\ Fairness
-----------------------------------------------------------------------------
(* Properties *)

Content == [Collections -> Nat]
Generation == [gen : Nat, content : Content]
Points == {"idle", "store", "push", "setfwd", "execfwd", "lock", "snapshot", "exec",
           "record", "setlast", "unlock", "setpush", "reply"}

\* Every variable has its type.
TypeOK ==
  /\ store \in Content /\ storeFwd \in BOOLEAN
  /\ host \in Content /\ hostFwd \in BOOLEAN
  /\ applyMu \in Threads \cup {NoThread}
  /\ lastApply \in [no : Nat, gen : Nat]
  /\ lastGen \in Generation
  /\ pc \in [Threads -> Points]
  /\ req \in [Threads -> Requests \cup {NoRequest}]
  /\ at \in [Threads -> Nat]
  /\ errs \in [Threads -> BOOLEAN]
  /\ snap \in [Threads -> Content] /\ snapFwd \in [Threads -> BOOLEAN]
  /\ missed \in [Threads -> SUBSET (Collections \cup {Forwarding})]
  /\ readGen \in [Threads -> Generation]
  /\ applyNo \in [Threads -> Nat]
  /\ wrote \in [Threads -> Content]
  /\ writes \in Nat /\ applied \in Nat /\ served \in Nat /\ restarts \in Nat
  /\ live \in BOOLEAN

\* The handlers that call doApply after their store operations.
Applies(t) == req[t].op \in {"object", "push", "apply"}

\* When the handler of a write is about to reply, the host runs what it wrote, or
\* something newer, except for what its own result reports as not programmed:
\* a write is never answered on the strength of a snapshot taken before it.
ReadYourWrites ==
  \A t \in Threads :
    pc[t] = "reply" /\ Applies(t) /\ ~errs[t] =>
      \A c \in Collections \ missed[t] : host[c] >= wrote[t][c]

\* When a plan has run, the host holds exactly its snapshot, except for what its
\* result reports as not programmed: two plans never mix on the host.
OnePlanOnHost ==
  \A t \in Threads :
    pc[t] \in {"record", "setlast", "unlock"} =>
      \A c \in Collections \ missed[t] : host[c] = snap[t][c]

\* The generation status reports is one whose objects reached the host (those that
\* its own result did not report as missed): never one that was only stored.
GenerationIsProgrammed ==
  \A c \in Collections : host[c] >= lastGen.content[c]

\* No apply ever takes a collection back to older content than the host has: a
\* snapshot is never overtaken by a newer one that is applied before it.
NoRollback == [][\A c \in Collections : host'[c] >= host[c]]_host

\* Only the holder of applyMu programs objects, only on a live backend, and never
\* in a dry run (docs/CONFIGURATION.md:76, docs/INSTALL.md:44).
OnlyRealApplies ==
  [][\E t \in Threads : applyMu = t /\ live /\ req[t].op \in {"object", "push", "apply"}
                        /\ ~req[t].dry]_host

\* With the mock backend nothing on the host ever changes, whatever is requested
\* (docs/INSTALL.md:44), ip_forward included.
MockNeverTouchesHost == [][live]_hostVars

\* Every request is answered (or dies with the daemon).
EveryRequestAnswered == \A t \in Threads : pc[t] # "idle" ~> pc[t] = "idle"

\* The reconciler this server implements: the plan in force is the snapshot of the
\* thread whose commands are running.
Applying == applyMu \in Threads /\ pc[applyMu] = "exec"
PlanInForce == IF Applying THEN snap[applyMu] ELSE Zero
R == INSTANCE Reconciler WITH
       desired <- store, active <- Applying, plan <- PlanInForce, kernel <- host
ImplementsReconciler == R!Spec

(* The inductive invariant behind ReadYourWrites, OnePlanOnHost,               *)
(* GenerationIsProgrammed, NoRollback and ImplementsReconciler.                 *)

Held == {"snapshot", "exec", "record", "setlast", "unlock"}

\* applyMu is held exactly by the thread inside doApply.
Mutex == \A t \in Threads : pc[t] \in Held <=> applyMu = t

\* Nothing is newer than the store.
StoreIsNewest ==
  \A c \in Collections :
    /\ store[c] <= writes
    /\ host[c] <= store[c]
    /\ \A t \in Threads : snap[t][c] <= store[c] /\ wrote[t][c] <= store[c]

\* The plan that runs is not older than the host.
PlanIsNewer ==
  \A t \in Threads : pc[t] = "exec" => \A c \in Collections : host[c] <= snap[t][c]

\* A snapshot holds its own request's writes, or newer ones.
PlanHasWrites ==
  \A t \in Threads : pc[t] \in Held \ {"snapshot"} =>
    \A c \in Collections : wrote[t][c] <= snap[t][c]

\* What a running plan has not programmed it has missed or has yet to come to.
Ahead(t, c) == \E i \in 1..Len(PlanOrder) : i >= at[t] /\ PlanOrder[i] = c
PlanProgress ==
  \A t \in Threads : pc[t] = "exec" =>
    \A c \in Collections \ missed[t] : host[c] = snap[t][c] \/ Ahead(t, c)

\* After doApply the writes of a push are on the host, or newer ones.
PushIsProgrammed ==
  \A t \in Threads : pc[t] = "setpush" =>
    \A c \in Collections \ missed[t] : host[c] >= wrote[t][c]

ForwardHandler == \A t \in Threads : pc[t] \in {"setfwd", "execfwd"} => req[t].op = "forward"

\* Also the generation doApply is about to write back has been programmed.
ReadGenIsProgrammed ==
  \A t \in Threads : \A c \in Collections : host[c] >= readGen[t].content[c]

Safe ==
  /\ Mutex /\ StoreIsNewest /\ PlanIsNewer /\ PlanHasWrites
  /\ OnePlanOnHost /\ PushIsProgrammed /\ ForwardHandler /\ ReadYourWrites
  /\ GenerationIsProgrammed /\ ReadGenIsProgrammed

IInv == TypeOK /\ PlanProgress /\ Safe

\* The invariant behind OnlyRealApplies and MockNeverTouchesHost: what each point of a
\* handler says about its request and the backend.
RealExecution ==
  \A t \in Threads :
    /\ pc[t] = "store" => req[t].op \in {"object", "list"}
    /\ pc[t] = "push"  => req[t].op = "push"
    /\ pc[t] \in {"lock", "snapshot", "exec"} => Applies(t)
    /\ pc[t] = "exec"  => live /\ ~req[t].dry
    /\ pc[t] = "execfwd" => live

(* What the documentation says and the code does not do. *)

Quiet == \A t \in Threads : pc[t] = "idle"

\* GET /v1/status reports the last apply (docs/API.md:24).
StatusShowsLastApply == Quiet => lastApply.no = applied
=============================================================================

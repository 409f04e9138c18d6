------------------------- MODULE ApplyServerProofs --------------------------
(* Proofs about ApplyServer, for every number of threads, every set of       *)
(* collections and every order in which they are written and programmed.     *)
EXTENDS ApplyServer, TLAPS

-----------------------------------------------------------------------------
(* Type correctness *)

Request == Requests \cup {NoRequest}

LEMMA RequestFields ==
  ASSUME NEW r \in Request
  PROVE  /\ r.op \in {"none", "object", "list", "push", "apply", "forward"}
         /\ r.coll \subseteq Collections
         /\ r.fwd \subseteq BOOLEAN
         /\ r.gen \in Nat
         /\ r.dry \in BOOLEAN
  <1>1. /\ OneOf(Collections \ Lists) \subseteq SUBSET Collections
        /\ OneOf(Lists) \subseteq SUBSET Collections
        /\ OneOf(BOOLEAN) \subseteq SUBSET BOOLEAN
    BY CollectionsAssumption DEF OneOf
  <1>2. CASE r \in ObjectRequests
    <2>1. r.op \in {"none", "object", "list", "push", "apply", "forward"} /\ r.gen \in Nat
      BY <1>2 DEF ObjectRequests
    <2>2. r.coll \subseteq Collections
      BY <1>1, <1>2 DEF ObjectRequests
    <2>3. r.fwd \subseteq BOOLEAN
      BY <1>1, <1>2 DEF ObjectRequests
    <2>4. r.dry \in BOOLEAN
      BY <1>2 DEF ObjectRequests
    <2>5. QED
      BY <2>1, <2>2, <2>3, <2>4
  <1>3. CASE r \in ListRequests
    <2>1. r.op \in {"none", "object", "list", "push", "apply", "forward"} /\ r.gen \in Nat
      BY <1>3 DEF ListRequests
    <2>2. r.coll \subseteq Collections
      BY <1>1, <1>3 DEF ListRequests
    <2>3. r.fwd \subseteq BOOLEAN
      BY <1>1, <1>3 DEF ListRequests
    <2>4. r.dry \in BOOLEAN
      BY <1>3 DEF ListRequests
    <2>5. QED
      BY <2>1, <2>2, <2>3, <2>4
  <1>4. CASE r \in PushRequests
    BY <1>1, <1>4, BoundsAssumption DEF PushRequests
  <1>5. CASE r \in ApplyRequests
    BY <1>5 DEF ApplyRequests
  <1>6. CASE r \in ForwardRequests
    <2>1. r.op \in {"none", "object", "list", "push", "apply", "forward"} /\ r.gen \in Nat
      BY <1>6 DEF ForwardRequests
    <2>2. r.coll \subseteq Collections
      BY <1>1, <1>6 DEF ForwardRequests
    <2>3. r.fwd \subseteq BOOLEAN
      BY <1>1, <1>6 DEF ForwardRequests
    <2>4. r.dry \in BOOLEAN
      BY <1>6 DEF ForwardRequests
    <2>5. QED
      BY <2>1, <2>2, <2>3, <2>4
  <1>7. CASE r = NoRequest
    BY <1>7 DEF NoRequest
  <1>8. QED
    BY <1>2, <1>3, <1>4, <1>5, <1>6, <1>7, RequestsAssumption DEF AllRequests, Request

LEMMA OrderTypes ==
  /\ \A t \in Threads : Within(t, DesiredOrder) => Here(t, DesiredOrder) \in Collections
  /\ \A t \in Threads : Within(t, PlanOrder) => Here(t, PlanOrder) \in Collections
  /\ Len(PlanOrder) \in Nat /\ Len(DesiredOrder) \in Nat
  <1>1. \A i \in 1..Len(DesiredOrder) : DesiredOrder[i] \in Collections
    BY CollectionsAssumption
  <1>2. \A i \in 1..Len(PlanOrder) : PlanOrder[i] \in Collections
    BY CollectionsAssumption
  <1>3. Len(PlanOrder) \in Nat /\ Len(DesiredOrder) \in Nat
    BY CollectionsAssumption
  <1>4. QED
    BY <1>1, <1>2, <1>3 DEF Within, Here

LEMMA InitType == Init => TypeOK
  BY DEF Init, FreshProcess, TypeOK, Content, Generation, Points, Zero, NoGen

LEMMA StepType == TypeOK /\ [Next]_vars => TypeOK'
  <1> SUFFICES ASSUME TypeOK, [Next]_vars PROVE TypeOK'
    OBVIOUS
  <1> USE DEF TypeOK, Content, Generation, Points, Zero, NoGen,
              storeVars, hostVars, lastVars, execVars, runVars
  <1>1. CASE Restart
    BY <1>1 DEF Restart
  <1>2. ASSUME NEW t \in Threads, Receive(t) PROVE TypeOK'
    BY <1>2 DEF Receive, FirstStep
  <1>3. ASSUME NEW t \in Threads, StoreObject(t) PROVE TypeOK'
    <2>1. PICK c \in Collections : Write(t, c)
      BY <1>3, RequestFields DEF StoreObject, Request
    <2>2. store' \in Content /\ writes' \in Nat /\ wrote' \in [Threads -> Content]
      BY <2>1 DEF Write
    <2>3. pc' \in [Threads -> Points]
      BY <1>3 DEF StoreObject
    <2>4. QED
      BY <1>3, <2>2, <2>3 DEF StoreObject
  <1>4. ASSUME NEW t \in Threads, RefuseObject(t) PROVE TypeOK'
    BY <1>4 DEF RefuseObject
  <1>5. ASSUME NEW t \in Threads, PushCollection(t) PROVE TypeOK'
    <2>1. PICK c \in Collections : Push(t, c)
      BY <1>5, OrderTypes DEF PushCollection
    <2>2. Write(t, c) \/ UNCHANGED <<store, writes, wrote>>
      BY <2>1 DEF Push
    <2>3. store' \in Content /\ writes' \in Nat /\ wrote' \in [Threads -> Content]
      <3>1. CASE Write(t, c)
        BY <3>1 DEF Write
      <3>2. CASE UNCHANGED <<store, writes, wrote>>
        BY <3>2
      <3>3. QED
        BY <2>2, <3>1, <3>2
    <2>4. errs' \in [Threads -> BOOLEAN]
      BY <2>1 DEF Push, Write
    <2>5. at' \in [Threads -> Nat]
      BY <1>5 DEF PushCollection
    <2>6. UNCHANGED <<storeFwd, hostVars, lastVars, execVars, runVars, applyMu, pc, req>>
      BY <1>5 DEF PushCollection
    <2>7. QED
      BY <2>2, <2>3, <2>4, <2>5, <2>6
  <1>6. ASSUME NEW t \in Threads, PushForward(t) PROVE TypeOK'
    BY <1>6, RequestFields DEF PushForward, Request
  <1>7. ASSUME NEW t \in Threads, SetForward(t) PROVE TypeOK'
    BY <1>7, RequestFields DEF SetForward, Request
  <1>8. ASSUME NEW t \in Threads, ExecForward(t) PROVE TypeOK'
    BY <1>8, RequestFields DEF ExecForward, Request
  <1>9. ASSUME NEW t \in Threads, Lock(t) PROVE TypeOK'
    BY <1>9 DEF Lock
  <1>10. ASSUME NEW t \in Threads, TakeSnapshot(t) PROVE TypeOK'
    BY <1>10 DEF TakeSnapshot, Executes
  <1>11. ASSUME NEW t \in Threads, RunForward(t) PROVE TypeOK'
    BY <1>11 DEF RunForward
  <1>12. ASSUME NEW t \in Threads, MissForward(t) PROVE TypeOK'
    BY <1>12 DEF MissForward, Miss
  <1>13. ASSUME NEW t \in Threads, RunCollection(t) PROVE TypeOK'
    <2>1. PICK c \in Collections : Program(t, c)
      BY <1>13, OrderTypes DEF RunCollection
    <2>2. host' \in Content
      BY <2>1 DEF Program
    <2>3. at' \in [Threads -> Nat]
      BY <1>13 DEF RunCollection
    <2>4. UNCHANGED <<storeVars, hostFwd, lastVars, execVars, runVars, applyMu, pc, req, errs,
                      wrote>>
      BY <1>13 DEF RunCollection
    <2>5. QED
      BY <2>2, <2>3, <2>4
  <1>14. ASSUME NEW t \in Threads, MissCollection(t) PROVE TypeOK'
    <2>1. PICK c \in Collections : Miss(t, c)
      BY <1>14, OrderTypes DEF MissCollection
    <2>2. missed' \in [Threads -> SUBSET (Collections \cup {Forwarding})]
      BY <2>1 DEF Miss
    <2>3. at' \in [Threads -> Nat]
      BY <1>14 DEF MissCollection
    <2>4. UNCHANGED <<storeVars, hostVars, lastVars, snap, snapFwd, readGen, applyNo, applied,
                      runVars, applyMu, pc, req, errs, wrote>>
      BY <1>14 DEF MissCollection
    <2>5. QED
      BY <2>2, <2>3, <2>4
  <1>15. ASSUME NEW t \in Threads, PlanDone(t) PROVE TypeOK'
    BY <1>15 DEF PlanDone
  <1>16. ASSUME NEW t \in Threads, ReadGeneration(t) PROVE TypeOK'
    BY <1>16 DEF ReadGeneration
  <1>17. ASSUME NEW t \in Threads, RecordApply(t) PROVE TypeOK'
    BY <1>17 DEF RecordApply
  <1>18. ASSUME NEW t \in Threads, Unlock(t) PROVE TypeOK'
    BY <1>18 DEF Unlock
  <1>19. ASSUME NEW t \in Threads, RecordPush(t) PROVE TypeOK'
    BY <1>19, RequestFields DEF RecordPush, Request
  <1>20. ASSUME NEW t \in Threads, Reply(t) PROVE TypeOK'
    BY <1>20 DEF Reply
  <1>21. CASE UNCHANGED vars
    BY <1>21 DEF vars
  <1>22. QED
    BY <1>1, <1>2, <1>3, <1>4, <1>5, <1>6, <1>7, <1>8, <1>9, <1>10, <1>11, <1>12, <1>13, <1>14, <1>15, <1>16, <1>17, <1>18, <1>19, <1>20, <1>21
    DEF Next, Step

\* Every variable keeps its type, whatever the constants.
THEOREM TypeCorrect == Spec => []TypeOK
  BY InitType, StepType, PTL DEF Spec

-----------------------------------------------------------------------------
(* The inductive invariant *)

LEMMA InitInv == Init => IInv
  <1> SUFFICES ASSUME Init PROVE IInv
    OBVIOUS
  <1>1. TypeOK
    BY InitType
  <1>2. PlanProgress
    BY DEF Init, FreshProcess, PlanProgress
  <1>3. Safe
    BY <1>1, ThreadsAssumption
    DEF Init, FreshProcess, TypeOK, Zero, NoGen, Safe, Mutex, Held, StoreIsNewest, PlanIsNewer,
        PlanHasWrites, OnePlanOnHost, PushIsProgrammed, ForwardHandler, ReadYourWrites,
        GenerationIsProgrammed, ReadGenIsProgrammed, Content
  <1>4. QED
    BY <1>1, <1>2, <1>3 DEF IInv

\* Where a plan is in PlanOrder: everything is ahead at the start, the collection it is at
\* is the only one it leaves behind, nothing is ahead at the end.
LEMMA AheadAtStart == ASSUME NEW t \in Threads, NEW c \in Collections, at'[t] = 0
                      PROVE  Ahead(t, c)'
  BY CollectionsAssumption DEF Ahead

LEMMA AheadAtStep ==
  ASSUME NEW t \in Threads, NEW c \in Collections, at[t] \in Nat, Ahead(t, c),
         at'[t] = at[t] + 1
  PROVE  Ahead(t, c)' \/ (Within(t, PlanOrder) /\ Here(t, PlanOrder) = c)
  <1>1. PICK i \in 1..Len(PlanOrder) : i >= at[t] /\ PlanOrder[i] = c
    BY DEF Ahead
  <1>2. CASE i = at[t]
    BY <1>1, <1>2 DEF Within, Here
  <1>3. CASE i # at[t]
    <2>1. i >= at'[t]
      BY <1>1, <1>3, OrderTypes
    <2>2. \E j \in 1..Len(PlanOrder) : j >= at'[t] /\ PlanOrder[j] = c
      BY <1>1, <2>1
    <2>3. QED
      BY <2>2 DEF Ahead
  <1>4. QED
    BY <1>2, <1>3

LEMMA AheadAtSame == ASSUME NEW t \in Threads, NEW c \in Collections, at'[t] = at[t], Ahead(t, c)
                     PROVE  Ahead(t, c)'
  BY DEF Ahead

LEMMA AheadBeforeFirst ==
  ASSUME NEW t \in Threads, NEW c \in Collections, at[t] = 0, at'[t] = 1, Ahead(t, c)
  PROVE  Ahead(t, c)'
  BY DEF Ahead

LEMMA NoneAheadAtEnd ==
  ASSUME NEW t \in Threads, NEW c \in Collections, at[t] \in Nat, at[t] > Len(PlanOrder)
  PROVE  ~Ahead(t, c)
  BY CollectionsAssumption DEF Ahead

LEMMA ProgressStep == IInv /\ [Next]_vars => PlanProgress'
  <1> SUFFICES ASSUME IInv, [Next]_vars, NEW u \in Threads, pc'[u] = "exec",
                      NEW c \in Collections, c \notin missed'[u]
               PROVE  host'[c] = snap'[u][c] \/ Ahead(u, c)'
    BY DEF PlanProgress
  <1> USE DEF IInv, TypeOK, storeVars, hostVars, lastVars, execVars, runVars
  <1>1. CASE Restart
    BY <1>1 DEF Restart
  <1>2. ASSUME NEW t \in Threads, Receive(t) PROVE host'[c] = snap'[u][c] \/ Ahead(u, c)'
    BY <1>2, AheadAtSame DEF Receive, FirstStep, PlanProgress
  <1>3. ASSUME NEW t \in Threads, StoreObject(t) PROVE host'[c] = snap'[u][c] \/ Ahead(u, c)'
    BY <1>3, AheadAtSame DEF StoreObject, Write, PlanProgress
  <1>4. ASSUME NEW t \in Threads, RefuseObject(t) PROVE host'[c] = snap'[u][c] \/ Ahead(u, c)'
    BY <1>4, AheadAtSame DEF RefuseObject, PlanProgress
  <1>5. ASSUME NEW t \in Threads, PushCollection(t) PROVE host'[c] = snap'[u][c] \/ Ahead(u, c)'
    BY <1>5, AheadAtSame DEF PushCollection, Push, Write, PlanProgress
  <1>6. ASSUME NEW t \in Threads, PushForward(t) PROVE host'[c] = snap'[u][c] \/ Ahead(u, c)'
    BY <1>6, AheadAtSame DEF PushForward, PlanProgress
  <1>7. ASSUME NEW t \in Threads, SetForward(t) PROVE host'[c] = snap'[u][c] \/ Ahead(u, c)'
    BY <1>7, AheadAtSame DEF SetForward, PlanProgress
  <1>8. ASSUME NEW t \in Threads, ExecForward(t) PROVE host'[c] = snap'[u][c] \/ Ahead(u, c)'
    BY <1>8, AheadAtSame DEF ExecForward, PlanProgress
  <1>9. ASSUME NEW t \in Threads, Lock(t) PROVE host'[c] = snap'[u][c] \/ Ahead(u, c)'
    BY <1>9, AheadAtSame DEF Lock, PlanProgress
  <1>10. ASSUME NEW t \in Threads, TakeSnapshot(t) PROVE host'[c] = snap'[u][c] \/ Ahead(u, c)'
    BY <1>10, AheadAtStart, AheadAtSame DEF TakeSnapshot, Executes, PlanProgress, Safe, Mutex, Held
  <1>11. ASSUME NEW t \in Threads, RunForward(t) PROVE host'[c] = snap'[u][c] \/ Ahead(u, c)'
    BY <1>11, AheadBeforeFirst, AheadAtSame DEF RunForward, PlanProgress
  <1>12. ASSUME NEW t \in Threads, MissForward(t) PROVE host'[c] = snap'[u][c] \/ Ahead(u, c)'
    BY <1>12, AheadBeforeFirst, AheadAtSame DEF MissForward, Miss, PlanProgress
  <1>13. ASSUME NEW t \in Threads, RunCollection(t) PROVE host'[c] = snap'[u][c] \/ Ahead(u, c)'
    BY <1>13, AheadAtStep, AheadAtSame DEF RunCollection, Program, PlanProgress, Safe, Mutex, Held, Content
  <1>14. ASSUME NEW t \in Threads, MissCollection(t) PROVE host'[c] = snap'[u][c] \/ Ahead(u, c)'
    BY <1>14, AheadAtStep, AheadAtSame DEF MissCollection, Miss, PlanProgress, Safe, Mutex, Held, Content
  <1>15. ASSUME NEW t \in Threads, PlanDone(t) PROVE host'[c] = snap'[u][c] \/ Ahead(u, c)'
    BY <1>15, AheadAtSame DEF PlanDone, PlanProgress
  <1>16. ASSUME NEW t \in Threads, ReadGeneration(t) PROVE host'[c] = snap'[u][c] \/ Ahead(u, c)'
    BY <1>16, AheadAtSame DEF ReadGeneration, PlanProgress
  <1>17. ASSUME NEW t \in Threads, RecordApply(t) PROVE host'[c] = snap'[u][c] \/ Ahead(u, c)'
    BY <1>17, AheadAtSame DEF RecordApply, PlanProgress
  <1>18. ASSUME NEW t \in Threads, Unlock(t) PROVE host'[c] = snap'[u][c] \/ Ahead(u, c)'
    BY <1>18, AheadAtSame DEF Unlock, PlanProgress
  <1>19. ASSUME NEW t \in Threads, RecordPush(t) PROVE host'[c] = snap'[u][c] \/ Ahead(u, c)'
    BY <1>19, AheadAtSame DEF RecordPush, PlanProgress
  <1>20. ASSUME NEW t \in Threads, Reply(t) PROVE host'[c] = snap'[u][c] \/ Ahead(u, c)'
    BY <1>20, AheadAtSame DEF Reply, PlanProgress
  <1>21. CASE UNCHANGED vars
    BY <1>21, AheadAtSame DEF vars, PlanProgress
  <1>22. QED
    BY <1>1, <1>2, <1>3, <1>4, <1>5, <1>6, <1>7, <1>8, <1>9, <1>10, <1>11, <1>12, <1>13, <1>14, <1>15, <1>16, <1>17, <1>18, <1>19, <1>20, <1>21
    DEF Next, Step

\* A step of one handler that touches no content keeps Safe, if the handler has earned the
\* point it goes to.
LEMMA Frame ==
  ASSUME Safe, Mutex', NEW t \in Threads,
         UNCHANGED <<store, host, writes, lastGen, snap, missed, readGen, wrote>>,
         \A u \in Threads \ {t} : pc'[u] = pc[u] /\ req'[u] = req[u] /\ errs'[u] = errs[u],
         pc'[t] = "exec" => pc[t] = "exec",
         pc'[t] \in Held \ {"snapshot"} => pc[t] \in Held \ {"snapshot"},
         pc'[t] \in {"record", "setlast", "unlock"} =>
           \A c \in Collections \ missed[t] : host[c] = snap[t][c],
         pc'[t] = "setpush" => \A c \in Collections \ missed[t] : host[c] >= wrote[t][c],
         pc'[t] = "reply" /\ Applies(t)' /\ ~errs'[t] =>
           \A c \in Collections \ missed[t] : host[c] >= wrote[t][c],
         pc'[t] \in {"setfwd", "execfwd"} => req'[t].op = "forward"
  PROVE  Safe'
  <1>1. StoreIsNewest'
    BY DEF Safe, StoreIsNewest
  <1>2. PlanIsNewer'
    <2> SUFFICES ASSUME NEW u \in Threads, pc'[u] = "exec", NEW c \in Collections
                 PROVE  host'[c] <= snap'[u][c]
      BY DEF PlanIsNewer
    <2>1. pc[u] = "exec"
      OBVIOUS
    <2>2. QED
      BY <2>1 DEF Safe, PlanIsNewer
  <1>3. PlanHasWrites'
    <2> SUFFICES ASSUME NEW u \in Threads, pc'[u] \in Held \ {"snapshot"}, NEW c \in Collections
                 PROVE  wrote'[u][c] <= snap'[u][c]
      BY DEF PlanHasWrites
    <2>1. pc[u] \in Held \ {"snapshot"}
      OBVIOUS
    <2>2. QED
      BY <2>1 DEF Safe, PlanHasWrites
  <1>4. OnePlanOnHost'
    <2> SUFFICES ASSUME NEW u \in Threads, pc'[u] \in {"record", "setlast", "unlock"},
                        NEW c \in Collections \ missed'[u]
                 PROVE  host'[c] = snap'[u][c]
      BY DEF OnePlanOnHost
    <2>1. CASE u = t
      BY <2>1
    <2>2. CASE u # t
      BY <2>2 DEF Safe, OnePlanOnHost
    <2>3. QED
      BY <2>1, <2>2
  <1>5. PushIsProgrammed'
    <2> SUFFICES ASSUME NEW u \in Threads, pc'[u] = "setpush", NEW c \in Collections \ missed'[u]
                 PROVE  host'[c] >= wrote'[u][c]
      BY DEF PushIsProgrammed
    <2>1. CASE u = t
      BY <2>1
    <2>2. CASE u # t
      BY <2>2 DEF Safe, PushIsProgrammed
    <2>3. QED
      BY <2>1, <2>2
  <1>6. ReadYourWrites'
    <2> SUFFICES ASSUME NEW u \in Threads, pc'[u] = "reply", Applies(u)', ~errs'[u],
                        NEW c \in Collections \ missed'[u]
                 PROVE  host'[c] >= wrote'[u][c]
      BY DEF ReadYourWrites
    <2>1. CASE u = t
      BY <2>1
    <2>2. CASE u # t
      BY <2>2 DEF Safe, ReadYourWrites, Applies
    <2>3. QED
      BY <2>1, <2>2
  <1>7. ForwardHandler'
    BY DEF Safe, ForwardHandler
  <1>8. GenerationIsProgrammed' /\ ReadGenIsProgrammed'
    BY DEF Safe, GenerationIsProgrammed, ReadGenIsProgrammed
  <1>9. QED
    BY <1>1, <1>2, <1>3, <1>4, <1>5, <1>6, <1>7, <1>8 DEF Safe

LEMMA ReceiveSafe == ASSUME IInv, NEW t \in Threads, Receive(t) PROVE Safe'
  <1>1. PICK r \in Requests : /\ req' = [req EXCEPT ![t] = r]
                             /\ pc' = [pc EXCEPT ![t] = FirstStep(r.op)]
    BY DEF Receive
  <1>2. /\ FirstStep(r.op) \in {"lock", "push", "setfwd", "store"}
        /\ FirstStep(r.op) = "setfwd" => r.op = "forward"
    BY DEF FirstStep
  <1>3. pc[t] = "idle" /\ pc'[t] = FirstStep(r.op) /\ req'[t] = r
    BY <1>1 DEF Receive, IInv, TypeOK
  <1>4. /\ UNCHANGED <<store, host, writes, lastGen, snap, missed, readGen, applyMu, errs, wrote>>
        /\ \A u \in Threads \ {t} : pc'[u] = pc[u] /\ req'[u] = req[u]
    BY <1>1 DEF Receive, IInv, TypeOK, storeVars, hostVars, lastVars, execVars
  <1>5. Mutex'
    BY <1>2, <1>3, <1>4 DEF IInv, Safe, Mutex, Held
  <1>6. QED
    BY <1>2, <1>3, <1>4, <1>5, Frame DEF IInv, Held

LEMMA PushForwardSafe == ASSUME IInv, NEW t \in Threads, PushForward(t) PROVE Safe'
  <1>1. pc[t] = "push" /\ pc'[t] = IF errs[t] THEN "reply" ELSE "lock"
    BY DEF PushForward, IInv, TypeOK
  <1>2. /\ UNCHANGED <<store, host, writes, lastGen, snap, missed, readGen, applyMu, req, errs, wrote>>
        /\ \A u \in Threads \ {t} : pc'[u] = pc[u]
    BY DEF PushForward, IInv, TypeOK, hostVars, lastVars, execVars
  <1>3. Mutex'
    BY <1>1, <1>2 DEF IInv, Safe, Mutex, Held
  <1>4. QED
    BY <1>1, <1>2, <1>3, Frame DEF IInv, Held

LEMMA SetForwardSafe == ASSUME IInv, NEW t \in Threads, SetForward(t) PROVE Safe'
  <1>1. pc[t] = "setfwd" /\ pc'[t] \in {"execfwd", "reply"}
    BY DEF SetForward, IInv, TypeOK
  <1>2. /\ UNCHANGED <<store, host, writes, lastGen, snap, missed, readGen, applyMu, req, errs, wrote>>
        /\ \A u \in Threads \ {t} : pc'[u] = pc[u]
    BY DEF SetForward, IInv, TypeOK, hostVars, lastVars, execVars
  <1>3. Mutex'
    BY <1>1, <1>2 DEF IInv, Safe, Mutex, Held
  <1>4. req'[t].op = "forward" /\ ~Applies(t)'
    BY <1>1, <1>2 DEF IInv, Safe, ForwardHandler, Applies
  <1>5. QED
    BY <1>1, <1>2, <1>3, <1>4, Frame DEF IInv, Held

\* A plan that is done has programmed its snapshot, which nothing lay ahead of.
LEMMA PlanDoneSafe == ASSUME IInv, NEW t \in Threads, PlanDone(t) PROVE Safe'
  <1>1. pc[t] = "exec" /\ pc'[t] = "record"
    BY DEF PlanDone, IInv, TypeOK
  <1>2. /\ UNCHANGED <<store, host, writes, lastGen, snap, missed, readGen, applyMu, req, errs, wrote>>
        /\ \A u \in Threads \ {t} : pc'[u] = pc[u]
    BY DEF PlanDone, IInv, TypeOK, storeVars, hostVars, lastVars, execVars
  <1>3. Mutex'
    BY <1>1, <1>2 DEF IInv, Safe, Mutex, Held
  <1>4. \A c \in Collections \ missed[t] : host[c] = snap[t][c]
    BY NoneAheadAtEnd DEF IInv, PlanDone, PlanProgress, TypeOK
  <1>5. QED
    BY <1>1, <1>2, <1>3, <1>4, Frame DEF IInv, Held

\* What is released has been programmed, the request's own writes included.
LEMMA UnlockSafe == ASSUME IInv, NEW t \in Threads, Unlock(t) PROVE Safe'
  <1>1. pc[t] = "unlock" /\ pc'[t] \in {"setpush", "reply"} /\ applyMu' = NoThread
    BY DEF Unlock, IInv, TypeOK
  <1>2. /\ UNCHANGED <<store, host, writes, lastGen, snap, missed, readGen, req, errs, wrote>>
        /\ \A u \in Threads \ {t} : pc'[u] = pc[u]
    BY DEF Unlock, IInv, TypeOK, storeVars, hostVars, lastVars, execVars
  <1>3. Mutex'
    BY <1>1, <1>2, ThreadsAssumption DEF IInv, Safe, Mutex, Held
  <1>4. \A c \in Collections \ missed[t] : host[c] = snap[t][c] /\ wrote[t][c] <= snap[t][c]
    BY <1>1 DEF IInv, Safe, OnePlanOnHost, PlanHasWrites, Held
  <1>5. \A c \in Collections \ missed[t] : host[c] >= wrote[t][c]
    BY <1>4 DEF IInv, TypeOK, Content
  <1>6. QED
    BY <1>1, <1>2, <1>3, <1>5, Frame DEF IInv, Held

LEMMA SafeStep == IInv /\ [Next]_vars => Safe'
  <1> SUFFICES ASSUME IInv, [Next]_vars PROVE Safe'
    OBVIOUS
  <1> USE ThreadsAssumption
      DEF IInv, TypeOK, Content, Generation, Points, Zero, NoGen,
          storeVars, hostVars, lastVars, execVars, runVars,
          Safe, Mutex, Held, Applies, StoreIsNewest, PlanIsNewer, PlanHasWrites, OnePlanOnHost,
          PushIsProgrammed, ForwardHandler, ReadYourWrites, GenerationIsProgrammed,
          ReadGenIsProgrammed
  <1>1. CASE Restart
    BY <1>1 DEF Restart
  <1>2. ASSUME NEW t \in Threads, Receive(t) PROVE Safe'
    BY <1>2, ReceiveSafe
  <1>3. ASSUME NEW t \in Threads, StoreObject(t) PROVE Safe'
    BY <1>3 DEF StoreObject, Write
  <1>4. ASSUME NEW t \in Threads, RefuseObject(t) PROVE Safe'
    BY <1>4 DEF RefuseObject
  <1>5. ASSUME NEW t \in Threads, PushCollection(t) PROVE Safe'
    <2>1. PICK c \in Collections : Push(t, c)
      BY <1>5, OrderTypes DEF PushCollection
    <2>2. Write(t, c) \/ UNCHANGED <<store, writes, wrote>>
      BY <2>1 DEF Push
    <2>3. \A u \in Threads : u # t => errs'[u] = errs[u]
      BY <2>1 DEF Push
    <2>4. UNCHANGED <<storeFwd, hostVars, lastVars, execVars, runVars, applyMu, pc, req>>
      BY <1>5 DEF PushCollection
    <2>5. pc[t] = "push"
      BY <1>5 DEF PushCollection
    <2>6. CASE Write(t, c)
      BY <2>3, <2>4, <2>5, <2>6 DEF Write
    <2>7. CASE UNCHANGED <<store, writes, wrote>>
      <3>1. UNCHANGED <<pc, applyMu, host, snap, missed, readGen, lastGen, req>>
        BY <2>4
      <3>2. Mutex' /\ StoreIsNewest' /\ PlanIsNewer' /\ PlanHasWrites' /\ OnePlanOnHost'
        BY <2>7, <3>1
      <3>3. PushIsProgrammed' /\ ForwardHandler' /\ GenerationIsProgrammed' /\ ReadGenIsProgrammed'
        BY <2>7, <3>1
      <3>4. ReadYourWrites'
        BY <2>3, <2>5, <2>7, <3>1
      <3>5. QED
        BY <3>2, <3>3, <3>4
    <2>8. QED
      BY <2>2, <2>6, <2>7
  <1>6. ASSUME NEW t \in Threads, PushForward(t) PROVE Safe'
    BY <1>6, PushForwardSafe
  <1>7. ASSUME NEW t \in Threads, SetForward(t) PROVE Safe'
    BY <1>7, SetForwardSafe
  <1>8. ASSUME NEW t \in Threads, ExecForward(t) PROVE Safe'
    BY <1>8 DEF ExecForward
  <1>9. ASSUME NEW t \in Threads, Lock(t) PROVE Safe'
    BY <1>9 DEF Lock
  <1>10. ASSUME NEW t \in Threads, TakeSnapshot(t) PROVE Safe'
    BY <1>10 DEF TakeSnapshot, Executes
  <1>11. ASSUME NEW t \in Threads, RunForward(t) PROVE Safe'
    BY <1>11 DEF RunForward
  <1>12. ASSUME NEW t \in Threads, MissForward(t) PROVE Safe'
    BY <1>12 DEF MissForward, Miss
  <1>13. ASSUME NEW t \in Threads, RunCollection(t) PROVE Safe'
    BY <1>13 DEF RunCollection, Program
  <1>14. ASSUME NEW t \in Threads, MissCollection(t) PROVE Safe'
    BY <1>14 DEF MissCollection, Miss
  <1>15. ASSUME NEW t \in Threads, PlanDone(t) PROVE Safe'
    BY <1>15, PlanDoneSafe
  <1>16. ASSUME NEW t \in Threads, ReadGeneration(t) PROVE Safe'
    BY <1>16 DEF ReadGeneration
  <1>17. ASSUME NEW t \in Threads, RecordApply(t) PROVE Safe'
    BY <1>17 DEF RecordApply
  <1>18. ASSUME NEW t \in Threads, Unlock(t) PROVE Safe'
    BY <1>18, UnlockSafe
  <1>19. ASSUME NEW t \in Threads, RecordPush(t) PROVE Safe'
    BY <1>19 DEF RecordPush
  <1>20. ASSUME NEW t \in Threads, Reply(t) PROVE Safe'
    BY <1>20 DEF Reply
  <1>21. CASE UNCHANGED vars
    BY <1>21 DEF vars
  <1>22. QED
    BY <1>1, <1>2, <1>3, <1>4, <1>5, <1>6, <1>7, <1>8, <1>9, <1>10, <1>11, <1>12, <1>13, <1>14, <1>15, <1>16, <1>17, <1>18, <1>19, <1>20, <1>21
    DEF Next, Step, vars

LEMMA StepInv == IInv /\ [Next]_vars => IInv'
  BY StepType, ProgressStep, SafeStep DEF IInv

THEOREM Inductive == Spec => []IInv
  BY InitInv, StepInv, PTL DEF Spec

-----------------------------------------------------------------------------
(* The properties *)

\* A write is answered only when the host runs it, or something newer.
THEOREM Acknowledged == Spec => []ReadYourWrites
  <1>1. IInv => ReadYourWrites
    BY DEF IInv, Safe
  <1>2. QED
    BY <1>1, Inductive, PTL

\* Plans never mix on the host.
THEOREM Serial == Spec => []OnePlanOnHost
  <1>1. IInv => OnePlanOnHost
    BY DEF IInv, Safe
  <1>2. QED
    BY <1>1, Inductive, PTL

\* The generation status reports has been programmed.
THEOREM Generations == Spec => []GenerationIsProgrammed
  <1>1. IInv => GenerationIsProgrammed
    BY DEF IInv, Safe
  <1>2. QED
    BY <1>1, Inductive, PTL

\* Which steps program objects, and with what.
LEMMA HostSteps ==
  ASSUME IInv, [Next]_vars, host' # host
  PROVE  \E t \in Threads, c \in Collections :
           /\ pc[t] = "exec" /\ applyMu = t /\ Program(t, c)
  <1> USE DEF storeVars, hostVars, lastVars
  <1>a. \A t \in Threads : ~Receive(t) /\ ~Reply(t) /\ ~StoreObject(t) /\ ~RefuseObject(t)
    BY DEF Receive, Reply, StoreObject, RefuseObject
  <1>b. \A t \in Threads : ~PushCollection(t) /\ ~PushForward(t) /\ ~SetForward(t) /\ ~ExecForward(t)
    BY DEF PushCollection, PushForward, SetForward, ExecForward
  <1>c. \A t \in Threads : ~Lock(t) /\ ~TakeSnapshot(t) /\ ~RunForward(t) /\ ~MissForward(t)
    BY DEF Lock, TakeSnapshot, RunForward, MissForward
  <1>d. \A t \in Threads : ~MissCollection(t) /\ ~PlanDone(t) /\ ~ReadGeneration(t)
    BY DEF MissCollection, PlanDone, ReadGeneration
  <1>e. \A t \in Threads : ~RecordApply(t) /\ ~Unlock(t) /\ ~RecordPush(t)
    BY DEF RecordApply, Unlock, RecordPush
  <1>f. ~Restart /\ ~UNCHANGED vars
    BY DEF Restart, vars
  <1>1. PICK t \in Threads : RunCollection(t)
    BY <1>a, <1>b, <1>c, <1>d, <1>e, <1>f DEF Next, Step
  <1>2. PICK c \in Collections : Program(t, c)
    BY <1>1, OrderTypes DEF RunCollection
  <1>3. pc[t] = "exec" /\ applyMu = t
    BY <1>1 DEF RunCollection, IInv, Safe, Mutex, Held
  <1>4. QED
    BY <1>2, <1>3

\* No apply takes a collection back to older content.
THEOREM Monotone == Spec => NoRollback
  <1>1. IInv /\ [Next]_vars => [\A c \in Collections : host'[c] >= host[c]]_host
    <2> SUFFICES ASSUME IInv, [Next]_vars, host' # host, NEW d \in Collections
                 PROVE  host'[d] >= host[d]
      OBVIOUS
    <2>1. PICK t \in Threads, c \in Collections : pc[t] = "exec" /\ Program(t, c)
      BY HostSteps
    <2>2. host[d] <= snap[t][d] /\ host[d] \in Nat /\ snap[t][d] \in Nat
      BY <2>1 DEF IInv, TypeOK, Content, Safe, PlanIsNewer
    <2>3. QED
      BY <2>1, <2>2 DEF Program, IInv, TypeOK, Content
  <1>2. QED
    BY <1>1, Inductive, PTL DEF Spec, NoRollback

-----------------------------------------------------------------------------
(* Only real applies reach the host *)

LEMMA RequestKinds ==
  ASSUME NEW r \in Requests
  PROVE  r.op \in {"object", "list", "push", "apply", "forward"}
  BY RequestsAssumption
  DEF AllRequests, ObjectRequests, ListRequests, PushRequests, ApplyRequests, ForwardRequests

LEMMA InitReal == Init => RealExecution
  BY DEF Init, FreshProcess, RealExecution

LEMMA RealStep == TypeOK /\ RealExecution /\ [Next]_vars => RealExecution'
  <1> SUFFICES ASSUME TypeOK, RealExecution, [Next]_vars PROVE RealExecution'
    OBVIOUS
  <1> USE DEF TypeOK, RealExecution, Applies, storeVars, hostVars, lastVars, execVars, runVars
  <1>1. CASE Restart
    BY <1>1 DEF Restart
  <1>2. ASSUME NEW t \in Threads, Receive(t) PROVE RealExecution'
    BY <1>2, RequestKinds DEF Receive, FirstStep
  <1>3. ASSUME NEW t \in Threads, StoreObject(t) PROVE RealExecution'
    BY <1>3 DEF StoreObject
  <1>4. ASSUME NEW t \in Threads, RefuseObject(t) \/ PushForward(t) \/ SetForward(t) \/ ExecForward(t)
        PROVE  RealExecution'
    BY <1>4 DEF RefuseObject, PushForward, SetForward, ExecForward
  <1>5. ASSUME NEW t \in Threads, PushCollection(t) PROVE RealExecution'
    BY <1>5 DEF PushCollection
  <1>6. ASSUME NEW t \in Threads, Lock(t) PROVE RealExecution'
    BY <1>6 DEF Lock
  <1>7. ASSUME NEW t \in Threads, TakeSnapshot(t) PROVE RealExecution'
    BY <1>7 DEF TakeSnapshot, Executes
  <1>8. ASSUME NEW t \in Threads,
               RunForward(t) \/ MissForward(t) \/ RunCollection(t) \/ MissCollection(t)
        PROVE  RealExecution'
    BY <1>8 DEF RunForward, MissForward, RunCollection, MissCollection
  <1>9. ASSUME NEW t \in Threads, PlanDone(t) \/ ReadGeneration(t) \/ RecordApply(t)
        PROVE  RealExecution'
    BY <1>9 DEF PlanDone, ReadGeneration, RecordApply
  <1>10. ASSUME NEW t \in Threads, Unlock(t) \/ RecordPush(t) \/ Reply(t) PROVE RealExecution'
    BY <1>10 DEF Unlock, RecordPush, Reply
  <1>11. CASE UNCHANGED vars
    BY <1>11 DEF vars
  <1>12. QED
    BY <1>1, <1>2, <1>3, <1>4, <1>5, <1>6, <1>7, <1>8, <1>9, <1>10, <1>11 DEF Next, Step

\* What each point of a handler says about its request and the backend.
THEOREM RealPoints == Spec => []RealExecution
  BY InitReal, RealStep, TypeCorrect, PTL DEF Spec

\* Only an apply that is no dry run, on a live backend and with applyMu held, changes what
\* is programmed (docs/CONFIGURATION.md:76).
THEOREM OnlyReal == Spec => OnlyRealApplies
  <1>1. /\ IInv /\ RealExecution /\ [Next]_vars
        => [\E t \in Threads : applyMu = t /\ live /\ req[t].op \in {"object", "push", "apply"}
                                /\ ~req[t].dry]_host
    BY HostSteps DEF RealExecution, Applies
  <1>2. QED
    BY <1>1, Inductive, RealPoints, PTL DEF Spec, OnlyRealApplies

\* With the mock backend nothing on the host changes, ip_forward included
\* (docs/INSTALL.md:44).
THEOREM MockIsHarmless == Spec => MockNeverTouchesHost
  <1>1. RealExecution /\ [Next]_vars => [live]_hostVars
    <2> SUFFICES ASSUME RealExecution, [Next]_vars, hostVars' # hostVars
                 PROVE  live
      OBVIOUS
    <2> USE DEF storeVars, hostVars, lastVars
    <2>a. \A t \in Threads : ~Receive(t) /\ ~Reply(t) /\ ~StoreObject(t) /\ ~RefuseObject(t)
      BY DEF Receive, Reply, StoreObject, RefuseObject
    <2>b. \A t \in Threads : ~PushCollection(t) /\ ~PushForward(t) /\ ~SetForward(t)
      BY DEF PushCollection, PushForward, SetForward
    <2>c. \A t \in Threads : ~Lock(t) /\ ~TakeSnapshot(t) /\ ~MissForward(t) /\ ~MissCollection(t)
      BY DEF Lock, TakeSnapshot, MissForward, MissCollection
    <2>d. \A t \in Threads : ~PlanDone(t) /\ ~ReadGeneration(t) /\ ~RecordApply(t) /\ ~Unlock(t)
                             /\ ~RecordPush(t)
      BY DEF PlanDone, ReadGeneration, RecordApply, Unlock, RecordPush
    <2>e. ~Restart /\ ~UNCHANGED vars
      BY DEF Restart, vars
    <2>1. PICK t \in Threads : ExecForward(t) \/ RunForward(t) \/ RunCollection(t)
      BY <2>a, <2>b, <2>c, <2>d, <2>e DEF Next, Step
    <2>2. pc[t] \in {"exec", "execfwd"}
      BY <2>1 DEF ExecForward, RunForward, RunCollection
    <2>3. QED
      BY <2>2 DEF RealExecution
  <1>2. QED
    BY <1>1, RealPoints, PTL DEF Spec, MockNeverTouchesHost

-----------------------------------------------------------------------------
(* ApplyServer implements Reconciler *)

\* Steps that neither start nor end a plan nor change it leave the abstract plan alone.
LEMMA SamePlan ==
  ASSUME \A u \in Threads : pc'[u] = "exec" <=> pc[u] = "exec",
         \A u \in Threads : pc[u] = "exec" => applyMu = u /\ applyMu' = u /\ snap'[u] = snap[u]
  PROVE  (Applying' <=> Applying) /\ PlanInForce' = PlanInForce
  <1>1. Applying => Applying' /\ snap'[applyMu'] = snap[applyMu]
    BY DEF Applying
  <1>2. Applying' => Applying
    BY DEF Applying
  <1>3. QED
    BY <1>1, <1>2 DEF PlanInForce

LEMMA StutterStep ==
  ASSUME (Applying' <=> Applying), PlanInForce' = PlanInForce, store' = store, host' = host
  PROVE  UNCHANGED R!vars
  BY DEF R!vars

LEMMA RefinedInit == Init => R!Init
  BY ThreadsAssumption DEF Init, FreshProcess, R!Init, R!Nothing, Zero, Applying, PlanInForce

LEMMA RefinedWrite ==
  ASSUME TypeOK, StoreIsNewest, NEW t \in Threads, NEW c \in Collections, Write(t, c),
         (Applying' <=> Applying), PlanInForce' = PlanInForce, host' = host
  PROVE  R!Next
  <1>1. store' \in [Collections -> Nat]
    BY DEF Write, TypeOK, Content
  <1>2. store'[c] > store[c]
    BY DEF Write, TypeOK, Content, StoreIsNewest
  <1>3. \A d \in Collections \ {c} : store'[d] = store[d]
    BY DEF Write, TypeOK, Content
  <1>4. R!Write(c)
    BY <1>1, <1>2, <1>3 DEF R!Write, R!Content
  <1>5. QED
    BY <1>4 DEF R!Next

\* Every step of the server is a step of the reconciler, or invisible to it.
LEMMA RefinedStep == IInv /\ [Next]_vars => [R!Next]_(R!vars)
  <1> SUFFICES ASSUME IInv, [Next]_vars PROVE R!Next \/ UNCHANGED R!vars
    OBVIOUS
  <1>a. /\ TypeOK /\ StoreIsNewest
        /\ \A u \in Threads : pc[u] = "exec" => applyMu = u
        /\ \A u \in Threads : pc[u] = "exec" => ~(applyMu = NoThread)
    BY ThreadsAssumption DEF IInv, Safe, Mutex, Held
  <1> USE DEF TypeOK, storeVars, hostVars, lastVars, execVars, runVars
  <1>1. CASE Restart
    <2>1. ~Applying' /\ PlanInForce' = Zero
      BY <1>1, ThreadsAssumption DEF Restart, Applying, PlanInForce
    <2>2. store' \in [Collections -> Nat] /\ host' = host
      BY <1>1, <1>a DEF Restart
    <2>3. \A c, d \in Collections : store'[c] > store[d]
      BY <1>1, <1>a DEF Restart, StoreIsNewest, Content
    <2>4. R!Restart
      BY <2>1, <2>2, <2>3 DEF R!Restart, R!Content, R!Nothing, Zero
    <2>5. QED
      BY <2>4 DEF R!Next
  <1>2. ASSUME NEW t \in Threads, StoreObject(t) PROVE R!Next \/ UNCHANGED R!vars
    <2>1. PICK c \in Collections : Write(t, c)
      BY <1>2, <1>a, RequestFields DEF StoreObject, Request
    <2>2. (Applying' <=> Applying) /\ PlanInForce' = PlanInForce
      BY <1>2, <1>a, SamePlan DEF StoreObject
    <2>3. QED
      BY <1>2, <1>a, <2>1, <2>2, RefinedWrite DEF StoreObject
  <1>3. ASSUME NEW t \in Threads, PushCollection(t) PROVE R!Next \/ UNCHANGED R!vars
    <2>1. PICK c \in Collections : Push(t, c)
      BY <1>3, OrderTypes DEF PushCollection
    <2>2. (Applying' <=> Applying) /\ PlanInForce' = PlanInForce
      BY <1>3, <1>a, SamePlan DEF PushCollection
    <2>3. host' = host
      BY <1>3 DEF PushCollection
    <2>4. CASE Write(t, c)
      BY <1>a, <2>2, <2>3, <2>4, RefinedWrite
    <2>5. CASE store' = store
      BY <2>2, <2>3, <2>5, StutterStep
    <2>6. QED
      BY <2>1, <2>4, <2>5 DEF Push
  <1>4. ASSUME NEW t \in Threads, TakeSnapshot(t) PROVE R!Next \/ UNCHANGED R!vars
    <2>1. applyMu = t /\ applyMu' = t /\ pc[t] = "snapshot" /\ store' = store /\ host' = host
      BY <1>4 DEF TakeSnapshot, IInv, Safe, Mutex, Held
    <2>2. ~Applying /\ PlanInForce = Zero
      BY <2>1 DEF Applying, PlanInForce
    <2>3. CASE Executes(t)
      <3>1. pc'[t] = "exec"
        BY <1>4, <1>a, <2>3 DEF TakeSnapshot, Executes
      <3>2. snap'[t] = store
        BY <1>4, <1>a DEF TakeSnapshot
      <3>3. Applying' /\ PlanInForce' = store
        BY <2>1, <3>1, <3>2 DEF Applying, PlanInForce
      <3>4. R!Begin
        BY <2>1, <2>2, <3>3 DEF R!Begin
      <3>5. QED
        BY <3>4 DEF R!Next
    <2>4. CASE ~Executes(t)
      <3>1. ~Applying' /\ PlanInForce' = Zero
        BY <1>4, <2>1, <2>4 DEF TakeSnapshot, Applying, PlanInForce
      <3>2. QED
        BY <2>1, <2>2, <3>1, StutterStep
    <2>5. QED
      BY <2>3, <2>4
  <1>5. ASSUME NEW t \in Threads, RunCollection(t) PROVE R!Next \/ UNCHANGED R!vars
    <2>1. PICK c \in Collections : Program(t, c)
      BY <1>5, OrderTypes DEF RunCollection
    <2>2. (Applying' <=> Applying) /\ PlanInForce' = PlanInForce
      BY <1>5, <1>a, SamePlan DEF RunCollection
    <2>3. Applying /\ PlanInForce = snap[t] /\ store' = store
      BY <1>5, <1>a DEF RunCollection, Applying, PlanInForce
    <2>4. R!Program(c)
      BY <2>1, <2>2, <2>3 DEF R!Program, Program
    <2>5. QED
      BY <2>4 DEF R!Next
  <1>6. ASSUME NEW t \in Threads, PlanDone(t) PROVE R!Next \/ UNCHANGED R!vars
    <2>1. Applying /\ ~Applying' /\ PlanInForce' = Zero /\ store' = store /\ host' = host
      BY <1>6, <1>a DEF PlanDone, Applying, PlanInForce
    <2>2. R!End
      BY <2>1 DEF R!End, R!Nothing, Zero
    <2>3. QED
      BY <2>2 DEF R!Next
  <1>7. ASSUME NEW t \in Threads, Receive(t) PROVE R!Next \/ UNCHANGED R!vars
    BY <1>7, <1>a, SamePlan, StutterStep DEF Receive, FirstStep
  <1>8. ASSUME NEW t \in Threads, RefuseObject(t) PROVE R!Next \/ UNCHANGED R!vars
    BY <1>8, <1>a, SamePlan, StutterStep DEF RefuseObject
  <1>9. ASSUME NEW t \in Threads, PushForward(t) PROVE R!Next \/ UNCHANGED R!vars
    BY <1>9, <1>a, SamePlan, StutterStep DEF PushForward
  <1>10. ASSUME NEW t \in Threads, SetForward(t) PROVE R!Next \/ UNCHANGED R!vars
    BY <1>10, <1>a, SamePlan, StutterStep DEF SetForward
  <1>11. ASSUME NEW t \in Threads, ExecForward(t) PROVE R!Next \/ UNCHANGED R!vars
    BY <1>11, <1>a, SamePlan, StutterStep DEF ExecForward
  <1>12. ASSUME NEW t \in Threads, Lock(t) PROVE R!Next \/ UNCHANGED R!vars
    BY <1>12, <1>a, SamePlan, StutterStep DEF Lock
  <1>13. ASSUME NEW t \in Threads, RunForward(t) PROVE R!Next \/ UNCHANGED R!vars
    BY <1>13, <1>a, SamePlan, StutterStep DEF RunForward
  <1>14. ASSUME NEW t \in Threads, MissForward(t) PROVE R!Next \/ UNCHANGED R!vars
    BY <1>14, <1>a, SamePlan, StutterStep DEF MissForward, Miss
  <1>15. ASSUME NEW t \in Threads, MissCollection(t) PROVE R!Next \/ UNCHANGED R!vars
    BY <1>15, <1>a, SamePlan, StutterStep DEF MissCollection, Miss
  <1>16. ASSUME NEW t \in Threads, ReadGeneration(t) PROVE R!Next \/ UNCHANGED R!vars
    BY <1>16, <1>a, SamePlan, StutterStep DEF ReadGeneration
  <1>17. ASSUME NEW t \in Threads, RecordApply(t) PROVE R!Next \/ UNCHANGED R!vars
    BY <1>17, <1>a, SamePlan, StutterStep DEF RecordApply
  <1>18. ASSUME NEW t \in Threads, Unlock(t) PROVE R!Next \/ UNCHANGED R!vars
    <2>1. \A u \in Threads : pc'[u] = "exec" <=> pc[u] = "exec"
      BY <1>18, <1>a DEF Unlock
    <2>2. \A u \in Threads : pc[u] # "exec"
      BY <1>18, <1>a DEF Unlock, IInv, Safe, Mutex, Held
    <2>3. UNCHANGED <<store, host, snap>>
      BY <1>18 DEF Unlock
    <2>4. QED
      BY <2>1, <2>2, <2>3, SamePlan, StutterStep
  <1>19. ASSUME NEW t \in Threads, RecordPush(t) PROVE R!Next \/ UNCHANGED R!vars
    <2>1. UNCHANGED <<store, host, snap, applyMu>> /\ pc[t] = "setpush"
      BY <1>19 DEF RecordPush
    <2>2. pc' = [pc EXCEPT ![t] = "reply"]
      BY <1>19 DEF RecordPush
    <2>3. QED
      BY <1>a, <2>1, <2>2, SamePlan, StutterStep
  <1>20. ASSUME NEW t \in Threads, Reply(t) PROVE R!Next \/ UNCHANGED R!vars
    BY <1>20, <1>a, SamePlan, StutterStep DEF Reply
  <1>21. CASE UNCHANGED vars
    BY <1>21, <1>a, SamePlan, StutterStep DEF vars
  <1>22. QED
    BY <1>1, <1>2, <1>3, <1>4, <1>5, <1>6, <1>7, <1>8, <1>9, <1>10, <1>11, <1>12, <1>13, <1>14, <1>15, <1>16, <1>17, <1>18, <1>19, <1>20, <1>21
    DEF Next, Step

\* The server, with its threads, locks and handlers, implements the reconciler.
THEOREM Implements == Spec => ImplementsReconciler
  BY RefinedInit, RefinedStep, Inductive, PTL DEF Spec, ImplementsReconciler, R!Spec

=============================================================================

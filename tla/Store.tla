-------------------------------- MODULE Store --------------------------------
(***************************************************************************)
(* The memory store (internal/store/memory.go) under the calls handlers    *)
(* make of it (internal/api/server.go): which objects a collection holds,  *)
(* by which key, and which calls are refused.  A call is one critical      *)
(* section of Memory.mu; PUT /v1/desired makes many of them, and those of  *)
(* another request come in between.                                        *)
(*                                                                         *)
(* Data.  An object has an id or none yet, a name, and a body: the values  *)
(* of its fields, or a list's entries.  Bad is a value validation refuses; *)
(* an empty body lacks a required field.  Ids and names are strings of the *)
(* same kind, which may be equal; here they are numbers.                   *)
(***************************************************************************)
EXTENDS Naturals, Sequences, FiniteSets

CONSTANTS
  Clients,        \* concurrent requests
  Replaced,       \* collections PUT /v1/desired replaces: policies, tc, firewall, ip rules
  Skipping,       \* those of them that leave out incomplete objects: firewall, ip rules
  Merged,         \* collections it merges: routes, nat, forwards, addresses, links
  Lists,          \* IP lists: merged, with unique names
  Sysctls,        \* merged, and kept by key instead of id
  Demanding,      \* collections whose objects have required fields
  DesiredOrder,   \* the order in which PUT /v1/desired writes them
  Ids, Names, Values,   \* ids clients choose, names, values of fields
  Bad,
  Pushes,         \* bodies of PUT /v1/desired: what was sent, by collection
  Edits,          \* calls of the handlers of single objects
  MaxRequests     \* bound

Collections == Replaced \cup Merged \cup Lists \cup Sysctls
NoId == 0
Fresh == 100    \* ids the daemon makes up are greater (and, being random, new)

Object == [id : Ids \cup {NoId}, name : Names, body : SUBSET Values]
Push   == UNION {[C -> Seq(Object)] : C \in SUBSET Collections}

ASSUME CollectionsAssumption ==
  /\ Skipping \subseteq Replaced /\ Demanding \subseteq Collections
  /\ Lists \cap (Replaced \cup Sysctls) = {} /\ Replaced \cap Sysctls = {}
  /\ DesiredOrder \in Seq(Collections)
ASSUME RequestsAssumption ==
  /\ Ids \subseteq 1..Fresh /\ Names \subseteq Nat \ {NoId} /\ MaxRequests \in Nat
  /\ \A D \in Pushes : \A c \in DOMAIN D : D[c] \in Seq(Object)
  /\ \A e \in Edits :
       /\ e.coll \in Collections /\ e.op \in {"upsert", "update", "append", "delete"}
       /\ e.op = "upsert" => e.what \in Object

VARIABLES
  objects,    \* what each collection holds
  calls,      \* the calls each request has left, loop by loop
  errs,       \* an object of the push was refused
  push,       \* the push each client makes, or Nothing
  fresh,      \* ids made up so far
  settled,    \* the two last requests that were answered: push, objects, errs, alone
  alone,      \* the requests that are going on do not overlap
  requests    \* counter

vars == <<objects, calls, errs, push, fresh, settled, alone, requests>>

-----------------------------------------------------------------------------
Nothing == [c \in {} |-> <<>>]
Complete(c, o) == c \notin Demanding \/ o.body # {}
Valid(o) == Bad \notin o.body

\* Mutant of Identify: every object gets an id of its own.
IdentifyAll(c, o, i) == [o EXCEPT !.id = Fresh + fresh + i]

\* uuid: an object that comes without an id gets a new one; sysctls have none.
Identify(c, o, i) ==
  IF o.id = NoId /\ c \notin Sysctls THEN [o EXCEPT !.id = Fresh + fresh + i] ELSE o

Same(c, x, y) == IF c \in Sysctls THEN x.name = y.name ELSE x.id = y.id
Put(c, o) == {x \in objects[c] : ~Same(c, x, o)} \cup {o}

\* Mutant of NameIsFree: a list that has an id may take any name.
NameIsFreeOnCreate(c, o) == o.id = NoId => \A x \in objects[c] : x.name # o.name

\* The name of a list may be taken only by the list itself.
NameIsFree(c, o) == \A x \in objects[c] : x.name = o.name => x.id = o.id
Accepted(c, o) == Complete(c, o) /\ Valid(o) /\ (c \in Lists => NameIsFree(c, o))

\* ReplacePolicies, ReplaceTC, ReplaceFirewall, ReplaceIPRules: of two with one id the
\* later stays.  Nothing is validated.
Replacement(c, q) ==
  LET kept == {i \in DOMAIN q : c \in Skipping => Complete(c, q[i])}
  IN  {Identify(c, q[i], i) : i \in {k \in kept : \A j \in kept : q[j].id = q[k].id => q[k].id = NoId \/ j <= k}}

\* GetIPList, DeleteIPList, AppendIPListEntries: by id or else by name.
Meant(c, ref) ==
  LET byId == {x \in objects[c] : x.id = ref}
  IN  IF byId # {} THEN byId ELSE {x \in objects[c] : x.name = ref}

Call(op, c, what) == [op |-> op, coll |-> c, what |-> what]

\* PUT /v1/desired: one call for a collection that is replaced, one for each object of
\* the others; a collection that was not sent is left alone.
CallsOf(D, c) ==
  IF c \notin DOMAIN D THEN <<>>
  ELSE IF c \in Replaced THEN <<Call("replace", c, D[c])>>
  ELSE [i \in DOMAIN D[c] |-> Call("upsert", c, D[c][i])]
desired(D) == [i \in DOMAIN DesiredOrder |-> CallsOf(D, DesiredOrder[i])]

-----------------------------------------------------------------------------
\* The loops of t that have calls left.
Loops(t) == {i \in DOMAIN calls[t] : calls[t][i] # <<>>}

Begin(t, D, todo) ==
  /\ Loops(t) = {} /\ push[t] = Nothing
  /\ requests < MaxRequests
  /\ requests' = requests + 1
  /\ calls' = [calls EXCEPT ![t] = todo]
  /\ push' = [push EXCEPT ![t] = D]
  /\ alone' = \A u \in Clients : Loops(u) = {} /\ push[u] = Nothing
  /\ UNCHANGED <<objects, errs, fresh, settled>>

ReceivePush(t) == \E D \in Pushes \ {Nothing} : Begin(t, D, desired(D))
ReceiveEdit(t) == \E e \in Edits : Begin(t, Nothing, <<<<e>>>>)

\* The push is answered: an error if any of its objects was refused.
Answer(t) ==
  /\ Loops(t) = {} /\ push[t] # Nothing
  /\ settled' = <<settled[2], [push |-> push[t], objects |-> objects, errs |-> errs[t],
                              alone |-> alone]>>
  /\ errs' = [errs EXCEPT ![t] = FALSE]
  /\ push' = [push EXCEPT ![t] = Nothing]
  /\ UNCHANGED <<objects, calls, fresh, alone, requests>>

\* The next call of t is op; made, or refused, it is over.
loop(t) == CHOOSE i \in Loops(t) : \A j \in Loops(t) : i <= j
its(t)  == Head(calls[t][loop(t)])
NextIs(t, op) ==
  /\ Loops(t) # {} /\ its(t).op = op
  /\ calls' = [calls EXCEPT ![t][loop(t)] = Tail(@)]
  /\ UNCHANGED <<push, alone, requests>>
\* An edit comes between two pushes.
Settled(t) == settled' = IF push[t] = Nothing
                         THEN <<settled[2], [push |-> Nothing, objects |-> objects', errs |-> FALSE,
                                             alone |-> alone]>>
                         ELSE settled

Replace(t) ==
  /\ NextIs(t, "replace")
  /\ objects' = [objects EXCEPT ![its(t).coll] = Replacement(its(t).coll, its(t).what)]
  /\ fresh' = fresh + Len(its(t).what)
  /\ Settled(t)
  /\ UNCHANGED errs

\* CreatePolicy (of an object without id) and all Upserts.
Upsert(t) ==
  /\ NextIs(t, "upsert")
  /\ Accepted(its(t).coll, its(t).what)
  /\ objects' = [objects EXCEPT ![its(t).coll] = Put(its(t).coll, Identify(its(t).coll, its(t).what, 1))]
  /\ fresh' = fresh + 1
  /\ Settled(t)
  /\ UNCHANGED errs

RefuseUpsert(t) ==
  /\ NextIs(t, "upsert")
  /\ ~Accepted(its(t).coll, its(t).what)
  /\ errs' = [errs EXCEPT ![t] = push[t] # Nothing]
  /\ UNCHANGED <<objects, fresh, settled>>

\* UpdatePolicy: the object as it is now, changed and validated.
Update(t) ==
  /\ NextIs(t, "update")
  /\ \E x \in objects[its(t).coll] :
       /\ x.id = its(t).what.id
       /\ LET y == [x EXCEPT !.body = its(t).what.body]
          IN  objects' = [objects EXCEPT ![its(t).coll] = IF Valid(y) THEN (@ \ {x}) \cup {y} ELSE @]
  /\ Settled(t)
  /\ UNCHANGED <<errs, fresh>>

AppendEntries(t) ==
  /\ NextIs(t, "append")
  /\ \E x \in Meant(its(t).coll, its(t).what.ref) :
       objects' = [objects EXCEPT
         ![its(t).coll] = (@ \ {x}) \cup {[x EXCEPT !.body = @ \cup its(t).what.body]}]
  /\ Settled(t)
  /\ UNCHANGED <<errs, fresh>>

Delete(t) ==
  /\ NextIs(t, "delete")
  /\ LET c == its(t).coll
         found == IF c \in Lists THEN Meant(c, its(t).what.ref)
                  ELSE {x \in objects[c] : its(t).what.ref = IF c \in Sysctls THEN x.name ELSE x.id}
     IN  \E x \in found : objects' = [objects EXCEPT ![c] = @ \ {x}]
  /\ Settled(t)
  /\ UNCHANGED <<errs, fresh>>

\* Not found.
Miss(t) ==
  /\ Loops(t) # {} /\ its(t).op \in {"update", "append", "delete"}
  /\ NextIs(t, its(t).op)
  /\ LET c == its(t).coll
         ref == IF its(t).op = "update" THEN its(t).what.id ELSE its(t).what.ref
     IN  /\ \A x \in objects[c] : ref # IF c \in Sysctls THEN x.name ELSE x.id
         /\ c \in Lists => \A x \in objects[c] : x.name # ref
  /\ UNCHANGED <<objects, errs, fresh, settled>>

Init ==
  /\ objects = [c \in Collections |-> {}]
  /\ calls = [t \in Clients |-> <<>>]
  /\ errs = [t \in Clients |-> FALSE]
  /\ push = [t \in Clients |-> Nothing]
  /\ fresh = 0
  /\ settled = [i \in 1..2 |-> [push |-> Nothing, objects |-> objects, errs |-> FALSE, alone |-> TRUE]]
  /\ alone = TRUE
  /\ requests = 0

Next ==
  \E t \in Clients :
    \/ ReceivePush(t) \/ ReceiveEdit(t) \/ Answer(t)
    \/ Replace(t) \/ Upsert(t) \/ RefuseUpsert(t) \/ Update(t) \/ AppendEntries(t) \/ Delete(t) \/ Miss(t)

Spec == Init /\ [][Next]_vars

-----------------------------------------------------------------------------
(* Properties *)

\* No two IP lists share a name, so that a rule's list is one list: neither by creating
\* nor by renaming, nor by the lists of two pushes in turns (memory.go:722-727).
UniqueNames == \A c \in Lists : \A x, y \in objects[c] : x.name = y.name => x = y

\* Whether the objects of the push will be known again when they are pushed again: they have
\* ids, and a list's name has one.
Known(D) == \A c \in DOMAIN D : \A i, j \in DOMAIN D[c] :
              /\ c \notin Sysctls => D[c][i].id # NoId
              /\ c \in Lists /\ D[c][i].name = D[c][j].name => D[c][i].id = D[c][j].id

\* A control plane may push the same state again: the store does not change, when every
\* object has an id, no name of a list two, and no other request came between (server.go:423-496).
PushIsIdempotent ==
  /\ settled[1].push = settled[2].push /\ settled[2].push # Nothing
  /\ ~settled[1].errs /\ Known(settled[2].push) /\ settled[1].alone /\ settled[2].alone
  => settled[1].objects = settled[2].objects
=============================================================================

----------------------------- MODULE StoreProofs -----------------------------
(***************************************************************************)
(* Theorems about Store, for any clients, pushes and edits, whose calls    *)
(* may come in any order: IP lists keep names of their own, and the same   *)
(* push again changes nothing.                                             *)
(***************************************************************************)
EXTENDS Store, SequenceTheorems, WellFoundedInduction, TLAPS

\* The calls requests make.
Calls == [op : {"replace"}, coll : Replaced, what : Seq(Object)]
           \cup [op : {"upsert"}, coll : Collections, what : Object] \cup Edits

\* Lists that are stored have an id, and names of their own.
Good(S) ==
  /\ \A x \in S : {"id", "name"} \subseteq DOMAIN x /\ x.id # NoId
  /\ \A x, y \in S : x.name = y.name => x = y

\* The inductive invariant.
IInv ==
  /\ fresh \in Nat
  /\ calls \in [Clients -> Seq(Seq(Calls))]
  /\ DOMAIN objects = Collections
  /\ \A c \in Lists : Good(objects[c])

-----------------------------------------------------------------------------
(* The calls a request has left *)

\* The calls of a push are typed.
LEMMA DesiredType == ASSUME NEW D \in Pushes PROVE desired(D) \in Seq(Seq(Calls))
<1>1. ASSUME NEW i \in DOMAIN DesiredOrder PROVE CallsOf(D, DesiredOrder[i]) \in Seq(Calls)
  <2> DEFINE c == DesiredOrder[i]
  <2>1. c \in Collections
    BY CollectionsAssumption
  <2>2. CASE c \notin DOMAIN D
    BY <2>2, EmptySeq DEF CallsOf
  <2>3. CASE c \in DOMAIN D /\ c \in Replaced
    <3>1. Call("replace", c, D[c]) \in Calls
      BY <2>3, RequestsAssumption DEF Call, Calls
    <3>2. <<Call("replace", c, D[c])>> \in Seq(Calls)
      BY <3>1
    <3> QED BY <2>3, <3>2 DEF CallsOf
  <2>4. CASE c \in DOMAIN D /\ c \notin Replaced
    <3>1. D[c] \in Seq(Object)
      BY <2>4, RequestsAssumption
    <3>2. \A k \in DOMAIN D[c] : Call("upsert", c, D[c][k]) \in Calls
      BY <2>1, <3>1 DEF Call, Calls
    <3>3. [k \in DOMAIN D[c] |-> Call("upsert", c, D[c][k])] \in Seq(Calls)
      BY <3>1, <3>2
    <3> QED BY <2>4, <3>3 DEF CallsOf
  <2> QED BY <2>2, <2>3, <2>4
<1>2. DesiredOrder \in Seq(Collections)
  BY CollectionsAssumption
<1> QED BY <1>1, <1>2 DEF desired

\* The loop whose call is next.
LEMMA NextLoop ==
  ASSUME calls \in [Clients -> Seq(Seq(Calls))], NEW t \in Clients, Loops(t) # {}
  PROVE  loop(t) \in Loops(t)
<1> DEFINE Below == {p \in Nat \X Nat : p[1] < p[2]}
<1>1. Loops(t) \subseteq Nat
  BY DEF Loops
<1>2. IsWellFoundedOn(Below, Nat)
  BY NatLessThanWellFounded DEF OpToRel
<1>3. PICK i \in Loops(t) : \A j \in Loops(t) : ~(<<j, i>> \in Below)
  BY <1>1, <1>2, WFMin
<1>4. ASSUME NEW j \in Loops(t) PROVE i <= j
  <2>1. i \in Nat /\ j \in Nat /\ (j < i => <<j, i>> \in Below)
    BY <1>1
  <2> QED BY <1>3, <2>1
<1> QED BY <1>3, <1>4 DEF loop

\* The next call is one of them, and what is left after it too.
LEMMA NextCall ==
  ASSUME calls \in [Clients -> Seq(Seq(Calls))], NEW t \in Clients, Loops(t) # {}
  PROVE  /\ its(t) \in Calls
         /\ [calls EXCEPT ![t][loop(t)] = Tail(@)] \in [Clients -> Seq(Seq(Calls))]
<1>1. Loops(t) \subseteq DOMAIN calls[t] /\ calls[t] \in Seq(Seq(Calls))
  BY DEF Loops
<1>2. loop(t) \in Loops(t)
  BY NextLoop
<1>3. calls[t][loop(t)] \in Seq(Calls) /\ calls[t][loop(t)] # <<>>
  BY <1>1, <1>2 DEF Loops
<1>4. its(t) \in Calls /\ Tail(calls[t][loop(t)]) \in Seq(Calls)
  BY <1>3, HeadTailProperties DEF its
<1>5. [calls[t] EXCEPT ![loop(t)] = Tail(@)] \in Seq(Seq(Calls))
  BY <1>1, <1>2, <1>4
<1> QED BY <1>4, <1>5

\* A call leaves the calls typed.
LEMMA CallStep ==
  ASSUME IInv, NEW t \in Clients, NEW op, NextIs(t, op)
  PROVE  /\ calls' \in [Clients -> Seq(Seq(Calls))]
         /\ its(t) \in Calls /\ its(t).op = op
BY NextCall DEF IInv, NextIs

\* What a call is about.
LEMMA CallType ==
  ASSUME NEW e \in Calls
  PROVE  /\ e.coll \in Collections
         /\ e.op = "replace" => e.coll \notin Lists /\ e.what \in Seq(Object)
         /\ e.op = "upsert" => e.what \in Object
<1>1. CASE e \in [op : {"replace"}, coll : Replaced, what : Seq(Object)]
  BY <1>1, CollectionsAssumption DEF Collections
<1>2. CASE e \in [op : {"upsert"}, coll : Collections, what : Object]
  BY <1>2
<1>3. CASE e \in Edits
  <2>1. /\ e.coll \in Collections /\ e.op \in {"upsert", "update", "append", "delete"}
        /\ e.op = "upsert" => e.what \in Object
    BY <1>3, RequestsAssumption
  <2> QED BY <2>1
<1> QED BY <1>1, <1>2, <1>3 DEF Calls

-----------------------------------------------------------------------------
(* What a call does to a list *)

\* Every call changes one collection.
LEMMA OneChanges ==
  ASSUME IInv, fresh' \in Nat, calls' \in [Clients -> Seq(Seq(Calls))],
         NEW c \in Collections, NEW S, objects' = [objects EXCEPT ![c] = S],
         c \in Lists => Good(S)
  PROVE  IInv'
BY DEF IInv

\* A list that is accepted gets an id, and a name no other has.
LEMMA PutGood ==
  ASSUME IInv, NEW c \in Lists, NEW o \in Object, Accepted(c, o)
  PROVE  Good(Put(c, Identify(c, o, 1)))
<1> DEFINE n == Identify(c, o, 1)
<1>3. c \notin Sysctls
  BY CollectionsAssumption
<1>1. /\ {"id", "name"} \subseteq DOMAIN n /\ n.id # NoId /\ n.name = o.name
      /\ o.id # NoId => n.id = o.id
  <2>1. fresh \in Nat /\ Fresh + fresh + 1 # NoId
    BY DEF IInv, Fresh, NoId
  <2> QED BY <1>3, <2>1 DEF Identify, Object
<1>2. \A x \in objects[c] : x.name = n.name => o.id # NoId /\ x.id = n.id
  BY <1>1 DEF IInv, Good, Accepted, NameIsFree
<1> HIDE DEF n
<1>4. Put(c, n) = {x \in objects[c] : x.id # n.id} \cup {n}
  BY <1>3 DEF Put, Same
<1>5. Good(Put(c, n))
  BY <1>1, <1>2, <1>4 DEF IInv, Good
<1> QED BY <1>5 DEF n

\* Changing the body of a list leaves its id and name.
LEMMA BodyGood ==
  ASSUME NEW S, Good(S), NEW x \in S, NEW b
  PROVE  Good((S \ {x}) \cup {[x EXCEPT !.body = b]})
<1> DEFINE y == [x EXCEPT !.body = b]
<1>1. DOMAIN y = DOMAIN x /\ y.id = x.id /\ y.name = x.name
  BY DEF Good
<1> HIDE DEF y
<1>2. Good((S \ {x}) \cup {y})
  BY <1>1 DEF Good
<1> QED BY <1>2 DEF y

-----------------------------------------------------------------------------
(* Steps *)

\* The calls one by one.
LEMMA ReplaceStep == ASSUME IInv, NEW t \in Clients, Replace(t) PROVE IInv'
<1>1. calls' \in [Clients -> Seq(Seq(Calls))] /\ its(t) \in Calls /\ its(t).op = "replace"
  BY CallStep DEF Replace
<1>2. its(t).coll \in Collections /\ its(t).coll \notin Lists /\ its(t).what \in Seq(Object)
  BY <1>1, CallType
<1>3. fresh' \in Nat
  BY <1>2, LenProperties DEF Replace, IInv
<1> QED BY <1>1, <1>2, <1>3, OneChanges DEF Replace

LEMMA UpsertStep == ASSUME IInv, NEW t \in Clients, Upsert(t) PROVE IInv'
<1>1. calls' \in [Clients -> Seq(Seq(Calls))] /\ its(t) \in Calls /\ its(t).op = "upsert"
  BY CallStep DEF Upsert
<1>2. its(t).coll \in Collections /\ its(t).what \in Object
  BY <1>1, CallType
<1>3. fresh' \in Nat
  BY DEF Upsert, IInv
<1>4. its(t).coll \in Lists => Good(Put(its(t).coll, Identify(its(t).coll, its(t).what, 1)))
  BY <1>2, PutGood DEF Upsert
<1> QED BY <1>1, <1>2, <1>3, <1>4, OneChanges DEF Upsert

LEMMA UpdateStep == ASSUME IInv, NEW t \in Clients, Update(t) PROVE IInv'
<1> DEFINE c == its(t).coll
<1>1. calls' \in [Clients -> Seq(Seq(Calls))] /\ its(t) \in Calls /\ UNCHANGED fresh
  BY CallStep DEF Update
<1>2. c \in Collections
  BY <1>1, CallType
<1>3. PICK x \in objects[c] :
        LET y == [x EXCEPT !.body = its(t).what.body]
        IN  objects' = [objects EXCEPT ![c] = IF Valid(y) THEN (@ \ {x}) \cup {y} ELSE @]
  BY DEF Update
<1> DEFINE y == [x EXCEPT !.body = its(t).what.body]
           S == IF Valid(y) THEN (objects[c] \ {x}) \cup {y} ELSE objects[c]
<1>4. c \in Lists => Good(S)
  BY <1>3, BodyGood DEF IInv
<1>5. objects' = [objects EXCEPT ![c] = S]
  BY <1>3
<1> HIDE DEF S
<1> QED BY <1>1, <1>2, <1>4, <1>5, OneChanges DEF IInv

LEMMA AppendStep == ASSUME IInv, NEW t \in Clients, AppendEntries(t) PROVE IInv'
<1> DEFINE c == its(t).coll
<1>1. calls' \in [Clients -> Seq(Seq(Calls))] /\ its(t) \in Calls /\ UNCHANGED fresh
  BY CallStep DEF AppendEntries
<1>2. c \in Collections
  BY <1>1, CallType
<1>3. PICK x \in Meant(c, its(t).what.ref) :
        objects' = [objects EXCEPT
          ![c] = (@ \ {x}) \cup {[x EXCEPT !.body = @ \cup its(t).what.body]}]
  BY DEF AppendEntries
<1> DEFINE S == (objects[c] \ {x}) \cup {[x EXCEPT !.body = @ \cup its(t).what.body]}
<1>4. x \in objects[c]
  BY DEF Meant
<1>5. c \in Lists => Good(S)
  BY <1>4, BodyGood DEF IInv
<1>6. objects' = [objects EXCEPT ![c] = S]
  BY <1>3
<1> HIDE DEF S
<1> QED BY <1>1, <1>2, <1>5, <1>6, OneChanges DEF IInv

LEMMA DeleteStep == ASSUME IInv, NEW t \in Clients, Delete(t) PROVE IInv'
<1> DEFINE c == its(t).coll
<1>1. calls' \in [Clients -> Seq(Seq(Calls))] /\ its(t) \in Calls /\ UNCHANGED fresh
  BY CallStep DEF Delete
<1>2. c \in Collections
  BY <1>1, CallType
<1>3. PICK x : objects' = [objects EXCEPT ![c] = @ \ {x}]
  BY DEF Delete
<1>4. c \in Lists => Good(objects[c] \ {x})
  BY DEF IInv, Good
<1> QED BY <1>1, <1>2, <1>3, <1>4, OneChanges DEF IInv

LEMMA OtherSteps ==
  ASSUME IInv, NEW t \in Clients,
         ReceivePush(t) \/ ReceiveEdit(t) \/ Answer(t) \/ RefuseUpsert(t) \/ Miss(t)
  PROVE  IInv'
<1>1. UNCHANGED <<objects, fresh>>
  BY DEF ReceivePush, ReceiveEdit, Begin, Answer, RefuseUpsert, Miss
<1>2. calls' \in [Clients -> Seq(Seq(Calls))]
  <2>1. ASSUME NEW D \in Pushes, Begin(t, D, desired(D)) PROVE calls' \in [Clients -> Seq(Seq(Calls))]
    BY <2>1, DesiredType DEF Begin, IInv
  <2>2. ASSUME NEW e \in Edits, Begin(t, Nothing, <<<<e>>>>) PROVE calls' \in [Clients -> Seq(Seq(Calls))]
    <3>1. <<<<e>>>> \in Seq(Seq(Calls))
      BY DEF Calls
    <3> QED BY <2>2, <3>1 DEF Begin, IInv
  <2>3. CASE Answer(t)
    BY <2>3 DEF Answer, IInv
  <2>4. CASE RefuseUpsert(t) \/ Miss(t)
    BY <2>4, CallStep DEF RefuseUpsert, Miss
  <2> QED BY <2>1, <2>2, <2>3, <2>4 DEF ReceivePush, ReceiveEdit
<1> QED BY <1>1, <1>2 DEF IInv

-----------------------------------------------------------------------------
(* Pushing again                                                             *)

\* A call of a request that is left writes o, or something with the key of x, into c.
Awaited(loops, c, o) ==
  \E i \in DOMAIN loops : \E k \in DOMAIN loops[i] : loops[i][k].coll = c /\ loops[i][k].what = o
Overwritten(loops, c, x) ==
  \E i \in DOMAIN loops : \E k \in DOMAIN loops[i] :
    loops[i][k].coll = c /\ Same(c, x, loops[i][k].what)

\* What is left of a loop.
Suffix(s, q) ==
  /\ Len(s) <= Len(q)
  /\ \A k \in DOMAIN s : s[k] = q[k + Len(q) - Len(s)]
Pushing(t) ==
  /\ push[t] \in Pushes
  /\ DOMAIN calls[t] = DOMAIN DesiredOrder
  /\ \A i \in DOMAIN DesiredOrder : Suffix(calls[t][i], CallsOf(push[t], DesiredOrder[i]))
Pushed ==
  /\ DOMAIN push = Clients /\ DOMAIN errs = Clients
  /\ \A t \in Clients : push[t] # Nothing => Pushing(t)

\* One request at a time.
Active(t) == Loops(t) # {} \/ push[t] # Nothing
OneActive == alone => \A t, u \in Clients : Active(t) /\ Active(u) => t = u

\* What was settled last is what is stored, but for a push that is going on.
Settlement == objects = settled[2].objects \/ \E t \in Clients : push[t] # Nothing

\* Of what is merged, a key has one object.
OneEach(c, X) ==
  /\ \A x \in X : {"id", "name"} \subseteq DOMAIN x
  /\ \A x, y \in X : Same(c, x, y) => x = y
Keyed(S) ==
  /\ DOMAIN S = Collections /\ S = [c \in Collections |-> S[c]]
  /\ \A c \in Collections \ Replaced : OneEach(c, S[c])

\* What a push that is known leaves of a collection it replaces.
Outcome(c, q) ==
  LET kept == {i \in DOMAIN q : c \in Skipping => Complete(c, q[i])}
  IN  {q[i] : i \in {k \in kept : \A j \in kept : q[j].id = q[k].id => j <= k}}

\* The last object of its key that is sent.
Last(c, q, j) == \A k \in DOMAIN q : k > j => ~Same(c, q[k], q[j])

\* What a push without a refusal has stored, but for the calls it has left: the last object of each key,
\* and of lists no name of theirs that is not theirs.
Stored(D, loops, S) ==
  \A c \in DOMAIN D : (\E i \in DOMAIN DesiredOrder : DesiredOrder[i] = c) =>
    IF c \in Replaced THEN S[c] = Outcome(c, D[c]) \/ Awaited(loops, c, D[c])
    ELSE \A j \in DOMAIN D[c] :
           /\ (Complete(c, D[c][j]) /\ Valid(D[c][j])) \/ Awaited(loops, c, D[c][j])
           /\ Last(c, D[c], j) => D[c][j] \in S[c] \/ Overwritten(loops, c, D[c][j])
           /\ \/ \E k \in DOMAIN D[c] : Same(c, D[c][k], D[c][j]) /\ D[c][k] \in S[c]
              \/ Awaited(loops, c, D[c][j])
           /\ \/ \A x \in S[c] : c \in Lists /\ x.name = D[c][j].name =>
                   \E k \in DOMAIN D[c] : x.id = D[c][k].id
              \/ Awaited(loops, c, D[c][j])

\* A store is what it was, but for keys that are written again.
Again(D, loops, S, B) ==
  \A c \in Collections :
    IF c \in Replaced THEN S[c] = B[c]
    ELSE /\ \A x \in S[c] \cup B[c] : (x \in S[c] /\ x \in B[c]) \/ Overwritten(loops, c, x)
         /\ \A x \in S[c] : x \in B[c] \/ (c \in DOMAIN D /\ \E k \in DOMAIN D[c] : x = D[c][k])

\* A push by itself, and one that follows the same.
Storing(t) == ~errs[t] /\ Known(push[t]) => Stored(push[t], calls[t], objects)
Repeated(s, D) == s.push = D /\ ~s.errs /\ s.alone /\ Known(D)
Repeating(t) ==
  Repeated(settled[2], push[t]) => Again(push[t], calls[t], objects, settled[2].objects)
Alone == alone => \A t \in Clients : push[t] # Nothing => Storing(t) /\ Repeating(t)

Once ==
  settled[2].push # Nothing /\ Repeated(settled[2], settled[2].push) =>
    Stored(settled[2].push, <<>>, settled[2].objects)

PushInv ==
  /\ Pushed /\ OneActive /\ Settlement
  /\ Keyed(objects) /\ Keyed(settled[2].objects)
  /\ Alone /\ Once /\ PushIsIdempotent

\* What is sent is typed.
LEMMA SentType ==
  ASSUME NEW D \in Pushes, NEW c \in DOMAIN D
  PROVE  /\ D[c] \in Seq(Object)
         /\ \A j \in DOMAIN D[c] : D[c][j] \in Object
BY RequestsAssumption

\* Only what is replaced is.
LEMMA ReplaceType ==
  ASSUME NEW e \in Calls, e.op = "replace"
  PROVE  e.coll \in Replaced
BY RequestsAssumption DEF Calls

\* Having one key is an equivalence.
LEMMA SameKey ==
  ASSUME NEW c, NEW x, NEW y, NEW z
  PROVE  /\ Same(c, x, x)
         /\ Same(c, x, y) => Same(c, y, x)
         /\ Same(c, x, y) /\ Same(c, y, z) => Same(c, x, z)
BY DEF Same

\* Nothing is left of an empty list of calls, nor when every loop is done.
LEMMA NoneLeft ==
  ASSUME NEW t, Loops(t) = {}, \A i \in DOMAIN calls[t] : calls[t][i] \in Seq(Calls)
  PROVE  \A c, o : ~Awaited(calls[t], c, o) /\ ~Overwritten(calls[t], c, o)
<1>1. \A i \in DOMAIN calls[t] : DOMAIN calls[t][i] = {}
  BY DEF Loops
<1> QED BY <1>1 DEF Awaited, Overwritten

\* Nothing is left of no loops.
LEMMA NoneAtAll ==
  \A c, o : ~Awaited(<<>>, c, o) /\ ~Overwritten(<<>>, c, o)
BY DEF Awaited, Overwritten

\* At first every call is left.
LEMMA AllAwaited ==
  ASSUME NEW D \in Pushes, NEW S
  PROVE  Stored(D, desired(D), S)
<1> SUFFICES ASSUME NEW c \in DOMAIN D, NEW i \in DOMAIN DesiredOrder, DesiredOrder[i] = c
             PROVE  IF c \in Replaced THEN Awaited(desired(D), c, D[c])
                    ELSE \A j \in DOMAIN D[c] :
                           Awaited(desired(D), c, D[c][j]) /\ Overwritten(desired(D), c, D[c][j])
  BY DEF Stored
<1>1. i \in DOMAIN desired(D) /\ desired(D)[i] = CallsOf(D, c)
  BY DEF desired
<1>2. CASE c \in Replaced
  <2>1. desired(D)[i][1] = Call("replace", c, D[c]) /\ 1 \in DOMAIN desired(D)[i]
    BY <1>1, <1>2 DEF CallsOf
  <2> QED BY <1>1, <1>2, <2>1 DEF Awaited, Call
<1>3. ASSUME c \notin Replaced, NEW j \in DOMAIN D[c]
      PROVE  Awaited(desired(D), c, D[c][j]) /\ Overwritten(desired(D), c, D[c][j])
  <2>1. desired(D)[i][j] = Call("upsert", c, D[c][j]) /\ j \in DOMAIN desired(D)[i]
    BY <1>1, <1>3 DEF CallsOf
  <2> QED BY <1>1, <2>1, SameKey DEF Awaited, Overwritten, Call
<1> QED BY <1>2, <1>3

\* The next call e is made: what else was left is left.
Taken(loops, new, e) ==
  \A c, o : /\ Awaited(loops, c, o) => Awaited(new, c, o) \/ (e.coll = c /\ e.what = o)
            /\ Overwritten(loops, c, o) => Overwritten(new, c, o) \/ (e.coll = c /\ Same(c, o, e.what))

\* It is the call of a collection, or of an object after which the others of its collection come.
IsNext(D, new, e) ==
  /\ e.coll \in DOMAIN D /\ e.coll \in Collections
  /\ \E i \in DOMAIN DesiredOrder : DesiredOrder[i] = e.coll
  /\ e.coll \in Replaced => e.op = "replace" /\ e.what = D[e.coll]
  /\ e.coll \notin Replaced =>
       /\ e.op = "upsert"
       /\ \E m \in DOMAIN D[e.coll] :
            /\ e.what = D[e.coll][m]
            /\ \A j \in DOMAIN D[e.coll] : j > m => Awaited(new, e.coll, D[e.coll][j])

\* Taking the first call of a loop takes that one.
LEMMA TakeOne ==
  ASSUME NEW loops \in Seq(Seq(Calls)), NEW l \in DOMAIN loops, loops[l] # <<>>
  PROVE  Taken(loops, [loops EXCEPT ![l] = Tail(@)], Head(loops[l]))
<1> DEFINE new == [loops EXCEPT ![l] = Tail(@)]
           s   == loops[l]
<1>1. s \in Seq(Calls) /\ s # <<>>
  OBVIOUS
<1>2. DOMAIN new = DOMAIN loops /\ new[l] = Tail(s) /\ \A i \in DOMAIN loops : i # l => new[i] = loops[i]
  OBVIOUS
<1>3. ASSUME NEW k \in DOMAIN s, k # 1 PROVE k - 1 \in DOMAIN Tail(s) /\ Tail(s)[k - 1] = s[k]
  BY <1>1, <1>3, HeadTailProperties
<1>4. Head(s) = s[1]
  BY <1>1
<1> HIDE DEF new, s
<1>5. ASSUME NEW c, NEW o, Awaited(loops, c, o)
      PROVE  Awaited(new, c, o) \/ (Head(s).coll = c /\ Head(s).what = o)
  <2>1. PICK i \in DOMAIN loops : \E k \in DOMAIN loops[i] : loops[i][k].coll = c /\ loops[i][k].what = o
    BY <1>5 DEF Awaited
  <2>2. PICK k \in DOMAIN loops[i] : loops[i][k].coll = c /\ loops[i][k].what = o
    BY <2>1
  <2>3. CASE i # l
    BY <1>2, <2>2, <2>3 DEF Awaited
  <2>4. CASE i = l /\ k # 1
    BY <1>2, <1>3, <2>2, <2>4 DEF Awaited, s
  <2>5. CASE i = l /\ k = 1
    BY <1>4, <2>2, <2>5 DEF s
  <2> QED BY <2>3, <2>4, <2>5
<1>6. ASSUME NEW c, NEW o, Overwritten(loops, c, o)
      PROVE  Overwritten(new, c, o) \/ (Head(s).coll = c /\ Same(c, o, Head(s).what))
  <2>1. PICK i \in DOMAIN loops :
          \E k \in DOMAIN loops[i] : loops[i][k].coll = c /\ Same(c, o, loops[i][k].what)
    BY <1>6 DEF Overwritten
  <2>2. PICK k \in DOMAIN loops[i] : loops[i][k].coll = c /\ Same(c, o, loops[i][k].what)
    BY <2>1
  <2>3. CASE i # l
    BY <1>2, <2>2, <2>3 DEF Overwritten
  <2>4. CASE i = l /\ k # 1
    BY <1>2, <1>3, <2>2, <2>4 DEF Overwritten, s
  <2>5. CASE i = l /\ k = 1
    BY <1>4, <2>2, <2>5 DEF s
  <2> QED BY <2>3, <2>4, <2>5
<1> QED BY <1>5, <1>6 DEF Taken, new, s

\* What the next call of a push is, and what is left of the push after it.
LEMMA NextPushed ==
  ASSUME IInv, NEW t \in Clients, Pushing(t), NEW op, NextIs(t, op)
  PROVE  /\ Taken(calls[t], calls'[t], its(t))
         /\ IsNext(push[t], calls'[t], its(t))
         /\ Pushing(t)'
<1> DEFINE l == loop(t)
           s == calls[t][l]
           D == push[t]
           c == DesiredOrder[l]
           q == CallsOf(D, c)
           new == [calls[t] EXCEPT ![l] = Tail(@)]
<1>1. calls \in [Clients -> Seq(Seq(Calls))] /\ Loops(t) # {}
  BY DEF IInv, NextIs
<1>2. l \in DOMAIN calls[t] /\ s # <<>> /\ calls[t] \in Seq(Seq(Calls))
  BY <1>1, NextLoop DEF Loops
<1>3. s \in Seq(Calls) /\ its(t) = Head(s) /\ its(t) = s[1] /\ Len(s) \in Nat \ {0} /\ DOMAIN s = 1..Len(s)
  BY <1>2 DEF its
<1>4. calls'[t] = new /\ push' = push
  BY <1>1 DEF NextIs
<1>5. D \in Pushes /\ DOMAIN calls[t] = DOMAIN DesiredOrder /\ c \in Collections
  BY <1>2, CollectionsAssumption DEF Pushing
<1>6. Suffix(s, q)
  BY <1>2, <1>5 DEF Pushing
<1>7. q \in Seq(Calls) /\ Len(q) \in Nat /\ DOMAIN q = 1..Len(q)
  <2>1. desired(D) \in Seq(Seq(Calls)) /\ l \in DOMAIN desired(D) /\ desired(D)[l] = q
    BY <1>2, <1>5, DesiredType DEF desired
  <2>2. q \in Seq(Calls)
    BY <2>1
  <2> HIDE DEF q
  <2> QED BY <2>2
<1> DEFINE m == 1 + Len(q) - Len(s)
<1>8. /\ m \in 1..Len(q) /\ its(t) = q[m]
  <2> HIDE DEF s, q
  <2>1. Len(s) <= Len(q) /\ s[1] = q[1 + Len(q) - Len(s)]
    BY <1>3, <1>6 DEF Suffix
  <2> QED BY <1>3, <1>7, <2>1
<1>9. /\ Tail(s) \in Seq(Calls) /\ Len(Tail(s)) = Len(s) - 1
      /\ \A k \in 1..(Len(s) - 1) : Tail(s)[k] = s[k + 1]
  BY <1>3, HeadTailProperties
<1>10. Suffix(Tail(s), q)
  <2>1. ASSUME NEW k \in DOMAIN Tail(s) PROVE Tail(s)[k] = q[k + Len(q) - Len(Tail(s))]
    <3>1. k \in 1..(Len(s) - 1) /\ k + 1 \in DOMAIN s
      BY <1>3, <1>9
    <3>2. s[k + 1] = q[k + 1 + Len(q) - Len(s)]
      BY <1>6, <3>1 DEF Suffix
    <3>3. k + 1 + Len(q) - Len(s) = k + Len(q) - Len(Tail(s))
      <4> DEFINE a == Len(s)
                 b == Len(q)
      <4>1. a \in Nat /\ b \in Nat /\ k \in Nat /\ Len(Tail(s)) = a - 1
        BY <1>3, <1>7, <1>9, <3>1
      <4> HIDE DEF a, b
      <4>2. k + 1 + b - a = k + b - (a - 1)
        BY <4>1
      <4> QED BY <4>1, <4>2 DEF a, b
    <3> QED BY <1>9, <3>1, <3>2, <3>3
  <2>2. Len(Tail(s)) <= Len(q)
    BY <1>3, <1>6, <1>7, <1>9 DEF Suffix
  <2> QED BY <2>1, <2>2 DEF Suffix
<1>11. new[l] = Tail(s) /\ DOMAIN new = DOMAIN calls[t]
       /\ \A i \in DOMAIN calls[t] : i # l => new[i] = calls[t][i]
  BY <1>2
<1>12. Pushing(t)'
  <2>1. \A i \in DOMAIN DesiredOrder : Suffix(new[i], CallsOf(D, DesiredOrder[i]))
    BY <1>5, <1>10, <1>11 DEF Pushing
  <2>2. DOMAIN new = DOMAIN DesiredOrder
    BY <1>5, <1>11
  <2> HIDE DEF new, D
  <2> QED BY <1>4, <1>5, <2>1, <2>2 DEF Pushing, D
<1>13. Taken(calls[t], new, its(t))
  BY <1>2, <1>3, TakeOne
<1>14. c \in Collections /\ \E i \in DOMAIN DesiredOrder : DesiredOrder[i] = c
  BY <1>2, <1>5
<1>15. c \in DOMAIN D
  <2>1. c \notin DOMAIN D => q = <<>>
    BY DEF CallsOf
  <2>2. q # <<>>
    BY <1>7, <1>8
  <2> QED BY <2>1, <2>2
<1>16. CASE c \in Replaced
  <2>1. q = <<Call("replace", c, D[c])>>
    BY <1>15, <1>16 DEF CallsOf
  <2>2. its(t) = Call("replace", c, D[c])
    BY <1>8, <2>1
  <2>3. its(t).coll = c /\ its(t).op = "replace" /\ its(t).what = D[c]
    BY <2>2 DEF Call
  <2> HIDE DEF D, c, new
  <2> QED BY <1>4, <1>12, <1>13, <1>15, <1>16, <1>14, <2>3 DEF IsNext, D
<1>17. CASE c \notin Replaced
  <2>1. /\ DOMAIN q = DOMAIN D[c]
        /\ \A j \in DOMAIN D[c] : q[j] = Call("upsert", c, D[c][j])
    BY <1>15, <1>17 DEF CallsOf
  <2>2. m \in DOMAIN D[c] /\ its(t) = Call("upsert", c, D[c][m])
    BY <1>7, <1>8, <2>1
  <2>3. its(t).coll = c /\ its(t).op = "upsert" /\ its(t).what = D[c][m]
    BY <2>2 DEF Call
  <2>4. ASSUME NEW j \in DOMAIN D[c], j > m PROVE Awaited(new, c, D[c][j])
    <3>5. q[j].coll = c /\ q[j].what = D[c][j]
      <4>1. q[j] = Call("upsert", c, D[c][j])
        BY <2>1
      <4> HIDE DEF q, c, D
      <4> QED BY <4>1 DEF Call
    <3>1. j \in 1..Len(q)
      BY <1>7, <2>1
    <3> DEFINE d == j - m
    <3> HIDE DEF s, q
    <3>2. d \in 1..(Len(s) - 1) /\ (d + 1) + Len(q) - Len(s) = j
      <4>1. Len(s) <= Len(q)
        BY <1>6 DEF Suffix
      <4>2. Len(s) \in Nat /\ Len(q) \in Nat /\ j \in Nat /\ j > 1 + Len(q) - Len(s) /\ j <= Len(q)
        BY <1>3, <1>7, <2>4, <3>1
      <4>3. \A a, b, k \in Nat : k > 1 + b - a /\ k <= b /\ a <= b =>
              k - (1 + b - a) \in 1..(a - 1) /\ ((k - (1 + b - a)) + 1) + b - a = k
        OBVIOUS
      <4> QED BY ONLY <4>1, <4>2, <4>3 DEF d, m
    <3> HIDE DEF d
    <3>3. s[d + 1] = q[j]
      <4>1. d + 1 \in DOMAIN s
        BY <1>3, <3>2
      <4> QED BY <1>6, <3>2, <4>1 DEF Suffix
    <3>4. new[l][d] = q[j] /\ d \in DOMAIN new[l]
      <4>1. new[l] = Tail(s)
        BY <1>11
      <4> HIDE DEF new, l
      <4>2. d \in DOMAIN Tail(s)
        BY <1>9, <3>2
      <4> QED BY <1>9, <3>2, <3>3, <4>1, <4>2
    <3> HIDE DEF new, q, m
    <3> QED BY <1>2, <1>11, <3>4, <3>5 DEF Awaited
  <2> HIDE DEF D, c, new, m
  <2>5. IsNext(D, new, its(t))
    BY <1>15, <1>17, <1>14, <2>2, <2>3, <2>4 DEF IsNext
  <2> QED BY <1>4, <1>12, <1>13, <2>5 DEF D
<1> QED BY <1>16, <1>17

\* A collection that is replaced.
LEMMA ReplacementIs ==
  ASSUME NEW c \in Replaced, NEW q \in Seq(Object), \A i \in DOMAIN q : q[i].id # NoId
  PROVE  Replacement(c, q) = Outcome(c, q)
<1> DEFINE kept == {i \in DOMAIN q : c \in Skipping => Complete(c, q[i])}
           K == {k \in kept : \A j \in kept : q[j].id = q[k].id => q[k].id = NoId \/ j <= k}
<1>1. K = {k \in kept : \A j \in kept : q[j].id = q[k].id => j <= k}
  OBVIOUS
<1>2. \A i \in K : Identify(c, q[i], i) = q[i]
  BY DEF Identify
<1>3. {Identify(c, q[i], i) : i \in K} = {q[i] : i \in K}
  <2> HIDE DEF K
  <2> QED BY <1>2
<1> QED BY <1>1, <1>3 DEF Replacement, Outcome

\* Replacing a collection stores what was sent of it ...
LEMMA StoredReplace ==
  ASSUME NEW D, NEW loops, NEW new, NEW S, NEW e,
         Stored(D, loops, S), Taken(loops, new, e), IsNext(D, new, e),
         e.coll \in Replaced, DOMAIN S = Collections
  PROVE  Stored(D, new, [S EXCEPT ![e.coll] = Outcome(e.coll, D[e.coll])])
<1> DEFINE T == [S EXCEPT ![e.coll] = Outcome(e.coll, D[e.coll])]
<1>1. T[e.coll] = Outcome(e.coll, D[e.coll])
  BY DEF IsNext
<1>2. \A c : c # e.coll => T[c] = S[c]
  OBVIOUS
<1> HIDE DEF T
<1> SUFFICES ASSUME NEW c \in DOMAIN D, \E i \in DOMAIN DesiredOrder : DesiredOrder[i] = c
             PROVE  IF c \in Replaced THEN T[c] = Outcome(c, D[c]) \/ Awaited(new, c, D[c])
    ELSE \A j \in DOMAIN D[c] :
           /\ (Complete(c, D[c][j]) /\ Valid(D[c][j])) \/ Awaited(new, c, D[c][j])
           /\ Last(c, D[c], j) => D[c][j] \in T[c] \/ Overwritten(new, c, D[c][j])
           /\ \/ \E k \in DOMAIN D[c] : Same(c, D[c][k], D[c][j]) /\ D[c][k] \in T[c]
              \/ Awaited(new, c, D[c][j])
           /\ \/ \A x \in T[c] : c \in Lists /\ x.name = D[c][j].name =>
                   \E k \in DOMAIN D[c] : x.id = D[c][k].id
              \/ Awaited(new, c, D[c][j])
  BY DEF Stored, T
<1>3. CASE c = e.coll
  BY <1>1, <1>3
<1>4. CASE c # e.coll
  <2>1. T[c] = S[c]
    BY <1>2, <1>4
  <2>2. \A o : /\ Awaited(loops, c, o) => Awaited(new, c, o)
               /\ Overwritten(loops, c, o) => Overwritten(new, c, o)
    BY <1>4 DEF Taken
  <2> QED BY <2>1, <2>2 DEF Stored
<1> QED BY <1>3, <1>4

\* ... and so does writing one object, which takes no name from another.
LEMMA StoredUpsert ==
  ASSUME NEW D \in Pushes, NEW loops, NEW new, NEW S, NEW e,
         Stored(D, loops, S), Taken(loops, new, e), IsNext(D, new, e),
         e.coll \notin Replaced, DOMAIN S = Collections,
         Complete(e.coll, e.what), Valid(e.what),
         e.coll \in Lists => \A x \in S[e.coll] : x.name = e.what.name => x.id = e.what.id
  PROVE  Stored(D, new, [S EXCEPT ![e.coll] = {x \in S[e.coll] : ~Same(e.coll, x, e.what)} \cup {e.what}])
<1> DEFINE o == e.what
           P == {x \in S[e.coll] : ~Same(e.coll, x, o)} \cup {o}
           T == [S EXCEPT ![e.coll] = P]
<1>1. T[e.coll] = P
  BY DEF IsNext
<1>2. \A c : c # e.coll => T[c] = S[c]
  OBVIOUS
<1> HIDE DEF T
<1> SUFFICES ASSUME NEW c \in DOMAIN D, \E i \in DOMAIN DesiredOrder : DesiredOrder[i] = c
             PROVE  IF c \in Replaced THEN T[c] = Outcome(c, D[c]) \/ Awaited(new, c, D[c])
    ELSE \A j \in DOMAIN D[c] :
           /\ (Complete(c, D[c][j]) /\ Valid(D[c][j])) \/ Awaited(new, c, D[c][j])
           /\ Last(c, D[c], j) => D[c][j] \in T[c] \/ Overwritten(new, c, D[c][j])
           /\ \/ \E k \in DOMAIN D[c] : Same(c, D[c][k], D[c][j]) /\ D[c][k] \in T[c]
              \/ Awaited(new, c, D[c][j])
           /\ \/ \A x \in T[c] : c \in Lists /\ x.name = D[c][j].name =>
                   \E k \in DOMAIN D[c] : x.id = D[c][k].id
              \/ Awaited(new, c, D[c][j])
  BY DEF Stored, T
<1>3. CASE c # e.coll
  <2>1. T[c] = S[c]
    BY <1>2, <1>3
  <2>2. \A x : /\ Awaited(loops, c, x) => Awaited(new, c, x)
               /\ Overwritten(loops, c, x) => Overwritten(new, c, x)
    BY <1>3 DEF Taken
  <2> QED BY <2>1, <2>2 DEF Stored
<1>4. ASSUME c = e.coll, NEW j \in DOMAIN D[c]
      PROVE  /\ (Complete(c, D[c][j]) /\ Valid(D[c][j])) \/ Awaited(new, c, D[c][j])
             /\ Last(c, D[c], j) => D[c][j] \in T[c] \/ Overwritten(new, c, D[c][j])
             /\ \/ \E k \in DOMAIN D[c] : Same(c, D[c][k], D[c][j]) /\ D[c][k] \in T[c]
                \/ Awaited(new, c, D[c][j])
             /\ \/ \A x \in T[c] : c \in Lists /\ x.name = D[c][j].name =>
                     \E k \in DOMAIN D[c] : x.id = D[c][k].id
                \/ Awaited(new, c, D[c][j])
  <2> DEFINE y == D[c][j]
  <2>1. PICK m \in DOMAIN D[c] : o = D[c][m] /\ \A k \in DOMAIN D[c] : k > m => Awaited(new, c, D[c][k])
    BY <1>4 DEF IsNext
  <2>2. Awaited(loops, c, y) => Awaited(new, c, y) \/ o = y
    BY <1>4 DEF Taken
  <2>3. T[c] = {x \in S[c] : ~Same(c, x, o)} \cup {o}
    BY <1>1, <1>4
  <2>4. /\ (Complete(c, y) /\ Valid(y)) \/ Awaited(loops, c, y)
        /\ Last(c, D[c], j) => y \in S[c] \/ Overwritten(loops, c, y)
        /\ (\E k \in DOMAIN D[c] : Same(c, D[c][k], y) /\ D[c][k] \in S[c]) \/ Awaited(loops, c, y)
        /\ \/ \A x \in S[c] : c \in Lists /\ x.name = y.name => \E k \in DOMAIN D[c] : x.id = D[c][k].id
           \/ Awaited(loops, c, y)
    BY <1>4 DEF Stored
  <2>5. (Complete(c, y) /\ Valid(y)) \/ Awaited(new, c, y)
    BY <1>4, <2>2, <2>4
  <2>6. m \in Nat /\ j \in Nat
    BY SentType
  <2>7. ASSUME Last(c, D[c], j) PROVE y \in T[c] \/ Overwritten(new, c, y)
    <3>1. CASE Same(c, y, o)
      <4>1. ~(m > j)
        BY <2>1, <2>7, <3>1, SameKey DEF Last
      <4>2. CASE m = j
        BY <2>1, <2>3, <4>2
      <4>3. CASE j > m
        <5>1. Awaited(new, c, y)
          BY <2>1, <4>3
        <5> QED BY <5>1, SameKey DEF Awaited, Overwritten
      <4> QED BY <2>6, <4>1, <4>2, <4>3
    <3>2. CASE ~Same(c, y, o)
      <4>1. Overwritten(loops, c, y) => Overwritten(new, c, y)
        BY <3>2 DEF Taken
      <4> QED BY <2>3, <2>4, <2>7, <3>2, <4>1
    <3> QED BY <3>1, <3>2
  <2>8. (\E k \in DOMAIN D[c] : Same(c, D[c][k], y) /\ D[c][k] \in T[c]) \/ Awaited(new, c, y)
    <3>1. CASE o = y
      BY <2>3, <3>1, SameKey
    <3>2. ASSUME NEW k \in DOMAIN D[c], Same(c, D[c][k], y), D[c][k] \in S[c]
          PROVE  \E i \in DOMAIN D[c] : Same(c, D[c][i], y) /\ D[c][i] \in T[c]
      <4>1. CASE Same(c, D[c][k], o)
        <5>1. Same(c, D[c][m], y) /\ D[c][m] \in T[c]
          BY <2>1, <2>3, <3>2, <4>1, SameKey
        <5> QED BY <5>1
      <4>2. CASE ~Same(c, D[c][k], o)
        BY <2>3, <3>2, <4>2
      <4> QED BY <4>1, <4>2
    <3> QED BY <2>2, <2>4, <3>1, <3>2
  <2>9. \/ \A x \in T[c] : c \in Lists /\ x.name = y.name => \E k \in DOMAIN D[c] : x.id = D[c][k].id
        \/ Awaited(new, c, y)
    <3>1. ASSUME NEW x \in T[c], c \in Lists, x.name = y.name, ~Awaited(new, c, y)
          PROVE  \E k \in DOMAIN D[c] : x.id = D[c][k].id
      <4>1. CASE x = o
        BY <2>1, <4>1
      <4>2. CASE x # o /\ o = y
        <5>1. x \in S[c] /\ x.name = o.name
          BY <2>3, <3>1, <4>2
        <5>2. x.id = o.id
          BY <1>4, <3>1, <5>1
        <5> QED BY <2>1, <5>2
      <4>3. CASE x # o /\ o # y
        <5>1. x \in S[c] /\ ~Awaited(loops, c, y)
          BY <2>2, <2>3, <3>1, <4>3
        <5> QED BY <2>4, <3>1, <5>1
      <4> QED BY <4>1, <4>2, <4>3
    <3> QED BY <3>1
  <2> QED BY <2>5, <2>7, <2>8, <2>9
<1> QED BY <1>3, <1>4

\* In a store that has a push, only objects of its id have the name of a list that is sent.
LEMMA NamesKept ==
  ASSUME NEW D \in Pushes, Known(D), NEW B, Stored(D, <<>>, B), Keyed(B),
         NEW c \in Lists, c \in DOMAIN D, \E i \in DOMAIN DesiredOrder : DesiredOrder[i] = c,
         NEW m \in DOMAIN D[c], NEW x, x \in B[c] \/ (\E k \in DOMAIN D[c] : x = D[c][k]),
         x.name = D[c][m].name
  PROVE  x.id = D[c][m].id
<1>1. c \notin Replaced /\ c \notin Sysctls /\ c \in Collections
  BY CollectionsAssumption DEF Collections
<1>2. ASSUME NEW k \in DOMAIN D[c], x = D[c][k] PROVE x.id = D[c][m].id
  BY <1>2 DEF Known
<1>3. CASE x \in B[c]
  <2>1. PICK k \in DOMAIN D[c] : x.id = D[c][k].id
    BY <1>1, <1>3, NoneAtAll DEF Stored
  <2>2. PICK i \in DOMAIN D[c] : Same(c, D[c][i], D[c][k]) /\ D[c][i] \in B[c]
    BY <1>1, NoneAtAll DEF Stored
  <2>3. Same(c, x, D[c][i])
    BY <1>1, <2>1, <2>2 DEF Same
  <2>4. x = D[c][i]
    BY <1>1, <1>3, <2>2, <2>3 DEF Keyed, OneEach
  <2> QED BY <1>2, <2>4
<1> QED BY <1>2, <1>3

\* When the push was stored before, replacing changes nothing ...
LEMMA AgainReplace ==
  ASSUME NEW D, NEW loops, NEW new, NEW S, NEW B, NEW e,
         Again(D, loops, S, B), Taken(loops, new, e), IsNext(D, new, e),
         e.coll \in Replaced, DOMAIN S = Collections,
         Stored(D, <<>>, B)
  PROVE  Again(D, new, [S EXCEPT ![e.coll] = Outcome(e.coll, D[e.coll])], B)
<1> DEFINE T == [S EXCEPT ![e.coll] = Outcome(e.coll, D[e.coll])]
<1>1. B[e.coll] = Outcome(e.coll, D[e.coll])
  BY NoneAtAll DEF Stored, IsNext
<1>2. ASSUME NEW c \in Collections PROVE T[c] = IF c = e.coll THEN B[e.coll] ELSE S[c]
  BY <1>1
<1> HIDE DEF T
<1>3. ASSUME NEW c \in Collections, c \in Replaced PROVE T[c] = B[c]
  BY <1>2, <1>3 DEF Again
<1>4. ASSUME NEW c \in Collections, c \notin Replaced
      PROVE  /\ \A x \in T[c] \cup B[c] : (x \in T[c] /\ x \in B[c]) \/ Overwritten(new, c, x)
             /\ \A x \in T[c] : x \in B[c] \/ (c \in DOMAIN D /\ \E k \in DOMAIN D[c] : x = D[c][k])
  <2>1. T[c] = S[c]
    BY <1>2, <1>4
  <2>2. \A x : Overwritten(loops, c, x) => Overwritten(new, c, x)
    BY <1>4 DEF Taken
  <2> QED BY <1>4, <2>1, <2>2 DEF Again
<1>5. Again(D, new, T, B)
  BY <1>3, <1>4 DEF Again
<1> QED BY <1>5 DEF T

\* ... and writing an object changes only what is written again.
LEMMA AgainUpsert ==
  ASSUME NEW D \in Pushes, NEW loops, NEW new, NEW S, NEW B, NEW e,
         Again(D, loops, S, B), Taken(loops, new, e), IsNext(D, new, e),
         e.coll \notin Replaced, DOMAIN S = Collections, Keyed(B),
         Stored(D, <<>>, B)
  PROVE  Again(D, new, [S EXCEPT ![e.coll] = {x \in S[e.coll] : ~Same(e.coll, x, e.what)} \cup {e.what}], B)
<1> DEFINE o == e.what
           P == {x \in S[e.coll] : ~Same(e.coll, x, o)} \cup {o}
           T == [S EXCEPT ![e.coll] = P]
<1>1. T[e.coll] = P /\ \A c \in Collections : c # e.coll => T[c] = S[c]
  BY DEF IsNext
<1> HIDE DEF T
<1>2. ASSUME NEW c \in Collections, c \in Replaced PROVE T[c] = B[c]
  BY <1>1, <1>2 DEF Again
<1>3. ASSUME NEW c \in Collections, c \notin Replaced, c # e.coll
      PROVE  /\ \A x \in T[c] \cup B[c] : (x \in T[c] /\ x \in B[c]) \/ Overwritten(new, c, x)
             /\ \A x \in T[c] : x \in B[c] \/ (c \in DOMAIN D /\ \E k \in DOMAIN D[c] : x = D[c][k])
  <2>1. T[c] = S[c]
    BY <1>1, <1>3
  <2>2. \A x : Overwritten(loops, c, x) => Overwritten(new, c, x)
    BY <1>3 DEF Taken
  <2> QED BY <1>3, <2>1, <2>2 DEF Again
<1>4. ASSUME NEW c \in Collections, c = e.coll
      PROVE  /\ \A x \in T[c] \cup B[c] : (x \in T[c] /\ x \in B[c]) \/ Overwritten(new, c, x)
             /\ \A x \in T[c] : x \in B[c] \/ (c \in DOMAIN D /\ \E k \in DOMAIN D[c] : x = D[c][k])
  <2>1. PICK m \in DOMAIN D[c] : o = D[c][m] /\ \A k \in DOMAIN D[c] : k > m => Awaited(new, c, D[c][k])
    BY <1>4 DEF IsNext
  <2>2. c \in DOMAIN D /\ c \notin Replaced
    BY <1>4 DEF IsNext
  <2>3. T[c] = {x \in S[c] : ~Same(c, x, o)} \cup {o}
    BY <1>1, <1>4
  <2>4. ASSUME NEW x \in T[c] PROVE x \in B[c] \/ (c \in DOMAIN D /\ \E k \in DOMAIN D[c] : x = D[c][k])
    BY <2>1, <2>2, <2>3 DEF Again
  <2>5. ASSUME NEW x \in T[c] \cup B[c], ~Same(c, x, o)
        PROVE  (x \in T[c] /\ x \in B[c]) \/ Overwritten(new, c, x)
    <3>1. x # o
      BY <2>5, SameKey
    <3>2. x \in S[c] \cup B[c] /\ (x \in S[c] => x \in T[c])
      BY <2>3, <2>5, <3>1
    <3>3. Overwritten(loops, c, x) => Overwritten(new, c, x)
      BY <2>5, <1>4 DEF Taken
    <3> QED BY <2>2, <3>2, <3>3 DEF Again
  <2>6. ASSUME NEW x \in T[c] \cup B[c], Same(c, x, o)
        PROVE  (x \in T[c] /\ x \in B[c]) \/ Overwritten(new, c, x)
    <3>1. CASE ~Last(c, D[c], m)
      <4>1. PICK k \in DOMAIN D[c] : k > m /\ Same(c, D[c][k], D[c][m])
        BY <3>1 DEF Last
      <4>2. Awaited(new, c, D[c][k])
        BY <2>1, <4>1
      <4>3. Same(c, x, D[c][k])
        BY <2>1, <2>6, <4>1, SameKey
      <4> QED BY <4>2, <4>3 DEF Awaited, Overwritten
    <3>2. CASE Last(c, D[c], m)
      <4>1. o \in B[c]
        <5>1. \E i \in DOMAIN DesiredOrder : DesiredOrder[i] = c
          BY <1>4 DEF IsNext
        <5> QED BY <2>1, <2>2, <3>2, <5>1, NoneAtAll DEF Stored
      <4>2. x = o
        <5>1. CASE x \in B[c]
          BY <2>2, <2>6, <4>1, <5>1 DEF Keyed, OneEach
        <5>2. CASE x \in T[c]
          BY <2>3, <2>6, <5>2
        <5> QED BY <5>1, <5>2
      <4> QED BY <2>3, <4>1, <4>2
    <3> QED BY <3>1, <3>2
  <2> QED BY <2>4, <2>5, <2>6
<1>5. Again(D, new, T, B)
  BY <1>2, <1>3, <1>4 DEF Again
<1> QED BY <1>5 DEF T

\* What a store has is accepted again.
LEMMA AcceptedAgain ==
  ASSUME NEW D \in Pushes, Known(D), NEW loops, NEW new, NEW B, NEW e,
         Again(D, loops, objects, B), IsNext(D, new, e), e.coll \notin Replaced,
         Keyed(B), Stored(D, <<>>, B)
  PROVE  Accepted(e.coll, e.what)
<1> DEFINE c == e.coll
<1>1. c \in DOMAIN D /\ c \in Collections /\ \E i \in DOMAIN DesiredOrder : DesiredOrder[i] = c
  BY DEF IsNext
<1>2. PICK m \in DOMAIN D[c] : e.what = D[c][m]
  BY DEF IsNext
<1>3. Complete(c, e.what) /\ Valid(e.what)
  BY <1>1, <1>2, NoneAtAll DEF Stored
<1>4. ASSUME c \in Lists, NEW x \in objects[c], x.name = e.what.name PROVE x.id = e.what.id
  <2>1. x \in B[c] \/ \E k \in DOMAIN D[c] : x = D[c][k]
    BY <1>1, <1>4 DEF Again
  <2> QED BY <1>1, <1>2, <1>4, <2>1, NamesKept
<1> QED BY <1>3, <1>4 DEF Accepted, NameIsFree

-----------------------------------------------------------------------------
(* Steps of a push                                                           *)

\* A key has one object after an object is put ...
LEMMA KeyedPut ==
  ASSUME NEW c, OneEach(c, objects[c]), NEW o \in Object
  PROVE  OneEach(c, Put(c, Identify(c, o, 1)))
<1> DEFINE n == Identify(c, o, 1)
<1>1. {"id", "name"} \subseteq DOMAIN n
  BY DEF Identify, Object
<1> HIDE DEF n
<1>2. OneEach(c, Put(c, n))
  BY <1>1, SameKey DEF OneEach, Put
<1> QED BY <1>2 DEF n

\* ... or changed.
LEMMA KeyedBody ==
  ASSUME NEW c, NEW X, OneEach(c, X), NEW x \in X, NEW b
  PROVE  OneEach(c, (X \ {x}) \cup {[x EXCEPT !.body = b]})
<1> DEFINE y == [x EXCEPT !.body = b]
<1>1. DOMAIN y = DOMAIN x /\ y.id = x.id /\ y.name = x.name
  BY DEF OneEach
<1> HIDE DEF y
<1>2. \A z : (Same(c, z, y) => Same(c, z, x)) /\ (Same(c, y, z) => Same(c, x, z))
  BY <1>1 DEF Same
<1>3. OneEach(c, (X \ {x}) \cup {y})
  BY <1>1, <1>2 DEF OneEach
<1> QED BY <1>3 DEF y

\* Every call changes one collection.
LEMMA KeyedOne ==
  ASSUME Keyed(objects), NEW c \in Collections, NEW X, objects' = [objects EXCEPT ![c] = X],
         c \notin Replaced => OneEach(c, X)
  PROVE  Keyed(objects')
<1>1. \A d \in Collections : objects'[d] = IF d = c THEN X ELSE objects[d]
  BY DEF Keyed
<1>2. DOMAIN objects' = Collections /\ objects' = [d \in Collections |-> objects'[d]]
  BY DEF Keyed
<1>3. \A d \in Collections \ Replaced : OneEach(d, objects'[d])
  BY <1>1 DEF Keyed
<1> QED BY <1>2, <1>3 DEF Keyed

\* Whatever is called, a key of what is merged has one object.
LEMMA KeyedStep ==
  ASSUME IInv, Keyed(objects), NEW t \in Clients,
         Replace(t) \/ Upsert(t) \/ Update(t) \/ AppendEntries(t) \/ Delete(t)
  PROVE  Keyed(objects')
<1> DEFINE c == its(t).coll
           e == its(t)
<1>1. e \in Calls
  BY CallStep DEF Replace, Upsert, Update, AppendEntries, Delete
<1>2. c \in Collections
  BY <1>1, CallType
<1>3. c \notin Replaced => OneEach(c, objects[c])
  BY <1>2 DEF Keyed
<1>4. CASE Replace(t)
  <2>1. c \in Replaced
    BY <1>1, <1>4, ReplaceType DEF Replace, NextIs
  <2>2. objects' = [objects EXCEPT ![c] = Replacement(c, e.what)]
    BY <1>4 DEF Replace
  <2> HIDE DEF c, e
  <2> QED BY <1>2, <2>1, <2>2, KeyedOne
<1>5. CASE Upsert(t)
  <2>1. e.what \in Object
    BY <1>1, <1>5, CallType DEF Upsert, NextIs
  <2>2. objects' = [objects EXCEPT ![c] = Put(c, Identify(c, e.what, 1))]
    BY <1>5 DEF Upsert
  <2>3. c \notin Replaced => OneEach(c, Put(c, Identify(c, e.what, 1)))
    BY <1>3, <2>1, KeyedPut
  <2> HIDE DEF c, e
  <2> QED BY <1>2, <2>2, <2>3, KeyedOne
<1>6. CASE Update(t)
  <2>1. PICK x \in objects[c] :
          LET y == [x EXCEPT !.body = e.what.body]
          IN  objects' = [objects EXCEPT ![c] = IF Valid(y) THEN (@ \ {x}) \cup {y} ELSE @]
    BY <1>6 DEF Update
  <2> DEFINE y == [x EXCEPT !.body = e.what.body]
             X == IF Valid(y) THEN (objects[c] \ {x}) \cup {y} ELSE objects[c]
  <2>2. objects' = [objects EXCEPT ![c] = X]
    BY <2>1
  <2>3. c \notin Replaced => OneEach(c, X)
    BY <1>3, <2>1, KeyedBody
  <2> HIDE DEF c, e, X
  <2> QED BY <1>2, <2>2, <2>3, KeyedOne
<1>7. CASE AppendEntries(t)
  <2>1. PICK x \in Meant(c, e.what.ref) :
          objects' = [objects EXCEPT
            ![c] = (@ \ {x}) \cup {[x EXCEPT !.body = @ \cup e.what.body]}]
    BY <1>7 DEF AppendEntries
  <2> DEFINE X == (objects[c] \ {x}) \cup {[x EXCEPT !.body = @ \cup e.what.body]}
  <2>2. objects' = [objects EXCEPT ![c] = X]
    BY <2>1
  <2>3. x \in objects[c]
    BY DEF Meant
  <2>4. c \notin Replaced => OneEach(c, X)
    BY <1>3, <2>3, KeyedBody
  <2> HIDE DEF c, e, X
  <2> QED BY <1>2, <2>2, <2>4, KeyedOne
<1>8. CASE Delete(t)
  <2>1. PICK x : objects' = [objects EXCEPT ![c] = @ \ {x}]
    BY <1>8 DEF Delete
  <2>2. c \notin Replaced => OneEach(c, objects[c] \ {x})
    BY <1>3 DEF OneEach
  <2> HIDE DEF c, e
  <2> QED BY <1>2, <2>1, <2>2, KeyedOne
<1> QED BY <1>4, <1>5, <1>6, <1>7, <1>8

\* A request begins, by itself or among others.
LEMMA BeginKeeps ==
  ASSUME IInv, PushInv, NEW t \in Clients, NEW D, NEW todo, Begin(t, D, todo),
         D # Nothing => D \in Pushes /\ todo = desired(D)
  PROVE  PushInv'
<1>1. /\ calls' = [calls EXCEPT ![t] = todo] /\ push' = [push EXCEPT ![t] = D]
      /\ alone' = \A u \in Clients : Loops(u) = {} /\ push[u] = Nothing
      /\ UNCHANGED <<objects, errs, fresh, settled>>
  BY DEF Begin
<1>2. /\ DOMAIN push = Clients /\ DOMAIN errs = Clients /\ DOMAIN calls = Clients
  BY DEF PushInv, Pushed, IInv
<1>3. \A u \in Clients : u # t => push'[u] = push[u] /\ calls'[u] = calls[u]
  BY <1>1, <1>2
<1>4. push'[t] = D /\ calls'[t] = todo /\ DOMAIN push' = Clients /\ errs' = errs
  BY <1>1, <1>2
<1>5. Pushed'
  <2>1. ASSUME NEW u \in Clients, u # t, push'[u] # Nothing PROVE Pushing(u)'
    BY <1>3, <2>1 DEF PushInv, Pushed, Pushing
  <2>2. ASSUME D # Nothing PROVE Pushing(t)'
    <3>1. ASSUME NEW i \in DOMAIN DesiredOrder PROVE Suffix(desired(D)[i], CallsOf(D, DesiredOrder[i]))
      <4>1. desired(D)[i] = CallsOf(D, DesiredOrder[i]) /\ i \in DOMAIN desired(D)
            /\ desired(D) \in Seq(Seq(Calls))
        BY <2>2, DesiredType DEF desired
      <4> DEFINE q == desired(D)[i]
      <4>2. q \in Seq(Calls)
        BY <4>1
      <4> HIDE DEF q
      <4>3. Suffix(q, q)
        BY <4>2 DEF Suffix
      <4> QED BY <4>1, <4>3 DEF q
    <3>2. DOMAIN desired(D) = DOMAIN DesiredOrder
      BY DEF desired
    <3> QED BY <1>4, <2>2, <3>1, <3>2 DEF Pushing
  <2> QED BY <1>2, <1>4, <2>1, <2>2 DEF Pushed
<1>6. OneActive'
  <2>1. ASSUME alone', NEW u \in Clients, Active(u)' PROVE u = t
    <3>1. Loops(u) = {} /\ push[u] = Nothing
      BY <1>1, <2>1
    <3>2. u # t => Loops(u)' = Loops(u) /\ push'[u] = push[u]
      BY <1>3 DEF Loops
    <3> QED BY <2>1, <3>1, <3>2 DEF Active
  <2> QED BY <2>1 DEF OneActive
<1>7. Settlement'
  <2>1. CASE objects = settled[2].objects
    BY <1>1, <2>1 DEF Settlement
  <2>2. ASSUME NEW u \in Clients, push[u] # Nothing PROVE Settlement'
    <3>1. u # t
      BY <2>2 DEF Begin
    <3> QED BY <1>3, <2>2, <3>1 DEF Settlement
  <2> QED BY <2>1, <2>2 DEF PushInv, Settlement
<1>8. Alone'
  <2> SUFFICES ASSUME alone', NEW u \in Clients, push'[u] # Nothing PROVE Storing(u)' /\ Repeating(u)'
    BY DEF Alone
  <2>1. \A w \in Clients : push[w] = Nothing
    BY <1>1
  <2>2. u = t /\ D # Nothing /\ push'[t] = D /\ calls'[t] = desired(D)
    BY <1>3, <1>4, <2>1
  <2>3. objects = settled[2].objects
    BY <2>1 DEF PushInv, Settlement
  <2>4. Stored(D, desired(D), objects)
    BY <2>2, AllAwaited
  <2>5. Again(D, desired(D), objects, objects)
    BY DEF Again
  <2>6. Storing(t)'
    BY <1>1, <2>2, <2>4 DEF Storing
  <2>7. Repeating(t)'
    BY <1>1, <2>2, <2>3, <2>5 DEF Repeating
  <2> QED BY <2>2, <2>6, <2>7
<1>9. Once' /\ PushIsIdempotent'
  BY <1>1 DEF PushInv, Once, PushIsIdempotent
<1>10. Keyed(objects)' /\ Keyed(settled[2].objects)'
  BY <1>1 DEF PushInv
<1> QED BY <1>5, <1>6, <1>7, <1>8, <1>9, <1>10 DEF PushInv

\* What is answered is what was sent, and the same as before if that was.
LEMMA AnswerKeeps ==
  ASSUME IInv, PushInv, NEW t \in Clients, Answer(t)
  PROVE  PushInv'
<1>1. /\ Loops(t) = {} /\ push[t] # Nothing
      /\ settled' = <<settled[2], [push |-> push[t], objects |-> objects, errs |-> errs[t],
                                   alone |-> alone]>>
      /\ errs' = [errs EXCEPT ![t] = FALSE] /\ push' = [push EXCEPT ![t] = Nothing]
      /\ UNCHANGED <<objects, calls, fresh, alone, requests>>
  BY DEF Answer
<1>2. DOMAIN push = Clients /\ DOMAIN errs = Clients /\ DOMAIN calls = Clients
  BY DEF PushInv, Pushed, IInv
<1>3. /\ DOMAIN push' = Clients /\ DOMAIN errs' = Clients /\ push'[t] = Nothing
      /\ \A u \in Clients : u # t => push'[u] = push[u]
  BY <1>1, <1>2
<1> DEFINE D == push[t]
<1>4. /\ settled'[1] = settled[2]
      /\ settled'[2].push = D /\ settled'[2].objects = objects
      /\ settled'[2].errs = errs[t] /\ settled'[2].alone = alone
  BY <1>1
<1>5. Pushed'
  <2>1. ASSUME NEW u \in Clients, push'[u] # Nothing PROVE Pushing(u)'
    BY <1>1, <1>3, <2>1 DEF PushInv, Pushed, Pushing
  <2> QED BY <1>3, <2>1 DEF Pushed
<1>6. OneActive'
  <2>1. \A u \in Clients : Active(u)' => Active(u)
    BY <1>1, <1>3 DEF Active, Loops
  <2> QED BY <1>1, <2>1 DEF PushInv, OneActive
<1>7. Settlement' /\ Keyed(objects)' /\ Keyed(settled[2].objects)'
  BY <1>1, <1>4 DEF PushInv, Settlement
<1>8. Alone'
  <2>1. ASSUME alone, NEW u \in Clients, u # t PROVE push[u] = Nothing
    BY <1>1, <2>1 DEF PushInv, OneActive, Active
  <2> QED BY <1>1, <1>3, <2>1 DEF Alone
<1>9. \A c, o : ~Awaited(calls[t], c, o) /\ ~Overwritten(calls[t], c, o)
  <2>1. \A i \in DOMAIN calls[t] : calls[t][i] \in Seq(Calls)
    BY DEF IInv
  <2> QED BY <1>1, <2>1, NoneLeft
<1>10. Once'
  <2> SUFFICES ASSUME ~errs[t], alone, Known(D) PROVE Stored(D, <<>>, objects)
    BY <1>4 DEF Once, Repeated
  <2>1. Stored(D, calls[t], objects)
    BY <1>1 DEF PushInv, Alone, Storing
  <2> QED BY <1>9, <2>1 DEF Stored
<1>11. PushIsIdempotent'
  <2> SUFFICES ASSUME settled[2].push = D, ~settled[2].errs, Known(D), settled[2].alone, alone
               PROVE  settled[2].objects = objects
    BY <1>4 DEF PushIsIdempotent
  <2>1. Again(D, calls[t], objects, settled[2].objects)
    BY <1>1 DEF PushInv, Alone, Repeating, Repeated
  <2>2. \A c \in Collections : objects[c] = settled[2].objects[c]
    BY <1>9, <2>1 DEF Again
  <2> QED BY <2>2 DEF PushInv, Keyed
<1> QED BY <1>5, <1>6, <1>7, <1>8, <1>10, <1>11 DEF PushInv

\* A call leaves the other requests alone, and ends none.
LEMMA CallFrame ==
  ASSUME IInv, PushInv, NEW t \in Clients, NEW op, NextIs(t, op)
  PROVE  /\ UNCHANGED <<push, alone>> /\ Loops(t) # {}
         /\ \A u \in Clients : u # t => calls'[u] = calls[u]
         /\ DOMAIN push = Clients
         /\ push[t] # Nothing => Pushing(t)'
         /\ Pushed /\ (errs' = errs \/ DOMAIN errs' = Clients) => Pushed' /\ OneActive'
<1>1. UNCHANGED <<push, alone>> /\ Loops(t) # {} /\ DOMAIN calls = Clients /\ DOMAIN push = Clients
  BY DEF NextIs, IInv, PushInv, Pushed
<1>2. \A u \in Clients : u # t => calls'[u] = calls[u]
  BY <1>1 DEF NextIs
<1>3. push[t] # Nothing => Pushing(t)'
  BY NextPushed DEF PushInv, Pushed
<1>4. ASSUME NEW u \in Clients, u # t, push[u] # Nothing PROVE Pushing(u)'
  BY <1>1, <1>2, <1>4 DEF PushInv, Pushed, Pushing
<1>5. ASSUME errs' = errs \/ DOMAIN errs' = Clients PROVE Pushed'
  BY <1>1, <1>3, <1>4, <1>5 DEF PushInv, Pushed
<1>6. \A u \in Clients : Active(u)' => Active(u)
  BY <1>1, <1>2 DEF Active, Loops
<1>7. OneActive'
  BY <1>1, <1>6 DEF PushInv, OneActive
<1> QED BY <1>1, <1>2, <1>3, <1>5, <1>7

\* A call of a single object.
LEMMA EditKeeps ==
  ASSUME IInv, PushInv, NEW t \in Clients, push[t] = Nothing,
         \/ Replace(t) \/ Upsert(t) \/ RefuseUpsert(t) \/ Update(t)
         \/ AppendEntries(t) \/ Delete(t) \/ Miss(t)
  PROVE  PushInv'
<1>1. PICK op : NextIs(t, op)
  BY DEF Replace, Upsert, RefuseUpsert, Update, AppendEntries, Delete, Miss
<1>2. errs' = errs \/ errs' = [errs EXCEPT ![t] = push[t] # Nothing]
  BY DEF Replace, Upsert, RefuseUpsert, Update, AppendEntries, Delete, Miss
<1>3. errs' = errs \/ DOMAIN errs' = Clients
  BY <1>2 DEF PushInv, Pushed
<1>4. Pushed' /\ OneActive' /\ UNCHANGED <<push, alone>> /\ Loops(t) # {}
  BY <1>1, <1>3, CallFrame DEF PushInv
<1>5. Alone'
  <2>1. ASSUME alone, NEW u \in Clients, push[u] # Nothing PROVE FALSE
    BY <1>4, <2>1 DEF PushInv, OneActive, Active
  <2> QED BY <1>4, <2>1 DEF Alone
<1>6. CASE RefuseUpsert(t) \/ Miss(t)
  <2>1. UNCHANGED <<objects, settled>>
    BY <1>6 DEF RefuseUpsert, Miss
  <2> QED BY <1>4, <1>5, <2>1 DEF PushInv, Settlement, Once, PushIsIdempotent
<1>7. CASE Replace(t) \/ Upsert(t) \/ Update(t) \/ AppendEntries(t) \/ Delete(t)
  <2>1. Settled(t)
    BY <1>7 DEF Replace, Upsert, Update, AppendEntries, Delete
  <2>2. settled'[2].push = Nothing /\ settled'[2].objects = objects'
    BY <2>1 DEF Settled
  <2>3. Keyed(objects')
    BY <1>7, KeyedStep DEF PushInv
  <2>4. Settlement' /\ Once' /\ PushIsIdempotent' /\ Keyed(objects)' /\ Keyed(settled[2].objects)'
    BY <2>2, <2>3 DEF Settlement, Once, PushIsIdempotent
  <2> QED BY <1>4, <1>5, <2>4 DEF PushInv
<1> QED BY <1>6, <1>7

\* A call of a push stores what was sent, and changes nothing that an equal push left.
LEMMA PushKeeps ==
  ASSUME IInv, PushInv, NEW t \in Clients, push[t] # Nothing,
         Replace(t) \/ Upsert(t) \/ RefuseUpsert(t)
  PROVE  PushInv'
<1> DEFINE D == push[t]
           e == its(t)
           c == e.coll
           B == settled[2].objects
           loops == calls[t]
           new == calls'[t]
<1>1. PICK op : NextIs(t, op) /\ e.op = op
  BY DEF Replace, Upsert, RefuseUpsert, NextIs
<1>2. D \in Pushes /\ Pushing(t)
  BY DEF PushInv, Pushed, Pushing
<1>3. Taken(loops, new, e) /\ IsNext(D, new, e)
  BY <1>1, <1>2, NextPushed
<1>4. errs' = errs \/ errs' = [errs EXCEPT ![t] = push[t] # Nothing]
  BY DEF Replace, Upsert, RefuseUpsert
<1>5. errs' = errs \/ DOMAIN errs' = Clients
  BY <1>4 DEF PushInv, Pushed
<1>6. /\ Pushed' /\ OneActive' /\ UNCHANGED <<push, alone>> /\ Loops(t) # {}
  BY <1>1, <1>5, CallFrame DEF PushInv
<1>7. settled' = settled
  BY DEF Replace, Upsert, RefuseUpsert, Settled
<1>8. Settlement' /\ Once' /\ PushIsIdempotent' /\ Keyed(settled[2].objects)'
  BY <1>6, <1>7 DEF PushInv, Settlement, Once, PushIsIdempotent
<1>9. Keyed(objects')
  BY KeyedStep DEF PushInv, RefuseUpsert
<1>10. c \in Collections /\ c \in DOMAIN D /\ D[c] \in Seq(Object)
  BY <1>2, <1>3, SentType DEF IsNext
<1>11. DOMAIN objects = Collections /\ Keyed(B)
  BY DEF PushInv, Keyed
\* When the push is known, its calls write what was sent.
<1>12. ASSUME Known(D), Replace(t)
       PROVE  c \in Replaced /\ objects' = [objects EXCEPT ![c] = Outcome(c, D[c])]
  <2>1. e.op = "replace" /\ objects' = [objects EXCEPT ![c] = Replacement(c, e.what)]
    BY <1>12 DEF Replace, NextIs
  <2>2. c \in Replaced /\ e.what = D[c]
    BY <1>3, <2>1 DEF IsNext
  <2>3. c \notin Sysctls
    BY <2>2, CollectionsAssumption
  <2>4. \A i \in DOMAIN D[c] : D[c][i].id # NoId
    BY <1>10, <1>12, <2>3 DEF Known
  <2> HIDE DEF D, c, e
  <2>5. Replacement(c, D[c]) = Outcome(c, D[c])
    BY <1>10, <2>2, <2>4, ReplacementIs
  <2> QED BY <2>1, <2>2, <2>5
<1>13. ASSUME Upsert(t) \/ RefuseUpsert(t)
       PROVE  c \notin Replaced /\ \E m \in DOMAIN D[c] : e.what = D[c][m]
  <2>1. e.op = "upsert"
    BY <1>13 DEF Upsert, RefuseUpsert, NextIs
  <2> QED BY <1>3, <2>1 DEF IsNext
<1>14. ASSUME Known(D), Upsert(t)
       PROVE  /\ Accepted(c, e.what)
              /\ objects' = [objects EXCEPT ![c] = {x \in objects[c] : ~Same(c, x, e.what)} \cup {e.what}]
  <2>1. objects' = [objects EXCEPT ![c] = Put(c, Identify(c, e.what, 1))] /\ Accepted(c, e.what)
    BY <1>14 DEF Upsert
  <2>2. PICK m \in DOMAIN D[c] : e.what = D[c][m]
    BY <1>13, <1>14
  <2>3. e.what.id # NoId \/ c \in Sysctls
    BY <1>10, <1>14, <2>2 DEF Known
  <2>4. Identify(c, e.what, 1) = e.what
    BY <2>3 DEF Identify
  <2> HIDE DEF c, e
  <2> QED BY <2>1, <2>4 DEF Put
<1> HIDE DEF D, c, B, loops, new
<1>15. ASSUME alone, ~errs'[t], Known(D) PROVE Stored(D, new, objects')
  <2>1. ~RefuseUpsert(t) /\ ~errs[t]
    <3>1. DOMAIN errs = Clients
      BY DEF PushInv, Pushed
    <3>2. RefuseUpsert(t) => errs'[t]
      BY <3>1 DEF RefuseUpsert
    <3>3. Replace(t) \/ Upsert(t) => errs' = errs
      BY DEF Replace, Upsert
    <3> QED BY <1>15, <3>2, <3>3
  <2>2. Stored(D, loops, objects)
    BY <1>15, <2>1 DEF PushInv, Alone, Storing, D, loops
  <2>3. CASE Replace(t)
    <3>1. e.coll \in Replaced /\ objects' = [objects EXCEPT ![e.coll] = Outcome(e.coll, D[e.coll])]
      BY <1>12, <1>15, <2>3 DEF c
    <3> HIDE DEF e
    <3> QED BY <1>3, <1>11, <2>2, <3>1, StoredReplace
  <2>4. CASE Upsert(t)
    <3>1. /\ e.coll \notin Replaced /\ Accepted(e.coll, e.what)
          /\ objects' = [objects EXCEPT ![e.coll] =
               {x \in objects[e.coll] : ~Same(e.coll, x, e.what)} \cup {e.what}]
      BY <1>13, <1>14, <1>15, <2>4 DEF c
    <3> HIDE DEF e
    <3>2. /\ Complete(e.coll, e.what) /\ Valid(e.what)
          /\ e.coll \in Lists => \A x \in objects[e.coll] : x.name = e.what.name => x.id = e.what.id
      BY <3>1 DEF Accepted, NameIsFree
    <3> QED BY <1>2, <1>3, <1>11, <2>2, <3>1, <3>2, StoredUpsert
  <2> QED BY <2>1, <2>3, <2>4
<1>16. ASSUME alone, Repeated(settled[2], D) PROVE Again(D, new, objects', B)
  <2>1. Known(D) /\ Stored(D, <<>>, B)
    BY <1>16 DEF PushInv, Once, Repeated, B, D
  <2>2. Again(D, loops, objects, B)
    BY <1>16 DEF PushInv, Alone, Repeating, B, D, loops
  <2>3. CASE Replace(t)
    <3>1. e.coll \in Replaced /\ objects' = [objects EXCEPT ![e.coll] = Outcome(e.coll, D[e.coll])]
      BY <1>12, <2>1, <2>3 DEF c
    <3> HIDE DEF e
    <3> QED BY <1>3, <1>11, <2>1, <2>2, <3>1, AgainReplace
  <2>4. CASE Upsert(t)
    <3>1. /\ e.coll \notin Replaced
          /\ objects' = [objects EXCEPT ![e.coll] =
               {x \in objects[e.coll] : ~Same(e.coll, x, e.what)} \cup {e.what}]
      BY <1>13, <1>14, <2>1, <2>4 DEF c
    <3> HIDE DEF e
    <3> QED BY <1>2, <1>3, <1>11, <2>1, <2>2, <3>1, AgainUpsert
  <2>5. CASE RefuseUpsert(t)
    <3>1. e.coll \notin Replaced /\ ~Accepted(e.coll, e.what)
      BY <1>13, <2>5 DEF c, RefuseUpsert
    <3> HIDE DEF e
    <3>2. Accepted(e.coll, e.what)
      BY <1>2, <1>3, <1>11, <2>1, <2>2, <3>1, AcceptedAgain
    <3> QED BY <3>1, <3>2
  <2> QED BY <2>3, <2>4, <2>5
<1>17. Alone'
  <2> SUFFICES ASSUME alone', NEW u \in Clients, push'[u] # Nothing PROVE Storing(u)' /\ Repeating(u)'
    BY DEF Alone
  <2>1. alone /\ push'[u] = push[u] /\ push' = push
    BY <1>6
  <2>2. u = t
    BY <1>6, <2>1 DEF PushInv, OneActive, Active
  <2>3. Storing(t)'
    BY <1>15, <2>1 DEF Storing, D, new
  <2>4. Repeating(t)'
    BY <1>7, <1>16, <2>1 DEF Repeating, D, new, B
  <2> QED BY <2>2, <2>3, <2>4
<1> QED BY <1>6, <1>8, <1>9, <1>17 DEF PushInv

\* A push makes no other calls.
LEMMA PushCalls ==
  ASSUME IInv, PushInv, NEW t \in Clients, push[t] # Nothing
  PROVE  ~Update(t) /\ ~AppendEntries(t) /\ ~Delete(t) /\ ~Miss(t)
<1>1. Pushing(t)
  BY DEF PushInv, Pushed
<1>2. ASSUME NEW op, NextIs(t, op), its(t).op = op PROVE op \in {"replace", "upsert"}
  <2>1. IsNext(push[t], calls'[t], its(t))
    BY <1>1, <1>2, NextPushed
  <2> HIDE DEF IsNext
  <2>2. its(t).op = "replace" \/ its(t).op = "upsert"
    BY <2>1 DEF IsNext
  <2> QED BY <1>2, <2>2
<1>3. \A op : NextIs(t, op) => its(t).op = op
  BY DEF NextIs
<1>4. ~Update(t) /\ ~AppendEntries(t) /\ ~Delete(t)
  BY <1>2, <1>3 DEF Update, AppendEntries, Delete
<1>5. ~Miss(t)
  BY <1>2, <1>3 DEF Miss
<1> QED BY <1>4, <1>5

-----------------------------------------------------------------------------
(* Theorems                                                                  *)

LEMMA InitInv == Init => IInv
<1>1. <<>> \in Seq(Seq(Calls))
  BY EmptySeq
<1> QED BY <1>1 DEF Init, IInv, Good, Collections

LEMMA NextInv == IInv /\ [Next]_vars => IInv'
<1> SUFFICES ASSUME IInv, [Next]_vars PROVE IInv'
  OBVIOUS
<1>1. CASE UNCHANGED vars
  BY <1>1 DEF vars, IInv
<1>2. ASSUME NEW t \in Clients,
             \/ ReceivePush(t) \/ ReceiveEdit(t) \/ Answer(t) \/ Replace(t) \/ Upsert(t)
             \/ RefuseUpsert(t) \/ Update(t) \/ AppendEntries(t) \/ Delete(t) \/ Miss(t)
      PROVE  IInv'
  BY <1>2, ReplaceStep, UpsertStep, UpdateStep, AppendStep, DeleteStep, OtherSteps
<1> QED BY <1>1, <1>2 DEF Next

LEMMA InitPush == Init => PushInv
<1> SUFFICES ASSUME Init PROVE PushInv
  OBVIOUS
<1>1. /\ objects = [c \in Collections |-> {}] /\ calls = [t \in Clients |-> <<>>]
      /\ \A t \in Clients : push[t] = Nothing
      /\ DOMAIN push = Clients /\ DOMAIN errs = Clients
      /\ settled[1].push = Nothing /\ settled[2].push = Nothing /\ settled[2].objects = objects
  <2>1. /\ settled[1] = settled[2]
        /\ settled[2] = [push |-> Nothing, objects |-> objects, errs |-> FALSE, alone |-> TRUE]
    BY DEF Init
  <2>2. settled[2].push = Nothing /\ settled[2].objects = objects
    BY <2>1
  <2> QED BY <2>1, <2>2 DEF Init
<1>2. Keyed(objects)
  BY <1>1 DEF Keyed, OneEach
<1>3. \A t \in Clients : ~Active(t)
  BY <1>1 DEF Active, Loops
<1> QED BY <1>1, <1>2, <1>3
        DEF PushInv, Pushed, OneActive, Settlement, Alone, Once, PushIsIdempotent

LEMMA NextPush == IInv /\ PushInv /\ [Next]_vars => PushInv'
<1> SUFFICES ASSUME IInv, PushInv, [Next]_vars PROVE PushInv'
  OBVIOUS
<1>1. CASE UNCHANGED vars
  <2>1. /\ objects' = objects /\ calls' = calls /\ errs' = errs /\ push' = push
        /\ settled' = settled /\ alone' = alone
    BY <1>1 DEF vars
  <2> QED BY <2>1 DEF PushInv, Pushed, Pushing, OneActive, Active, Loops, Settlement, Alone, Storing,
                      Repeating, Once, PushIsIdempotent
<1>2. ASSUME NEW t \in Clients, ReceivePush(t) PROVE PushInv'
  <2>1. PICK D \in Pushes \ {Nothing} : Begin(t, D, desired(D))
    BY <1>2 DEF ReceivePush
  <2> QED BY <2>1, BeginKeeps
<1>3. ASSUME NEW t \in Clients, ReceiveEdit(t) PROVE PushInv'
  <2>1. PICK e \in Edits : Begin(t, Nothing, <<<<e>>>>)
    BY <1>3 DEF ReceiveEdit
  <2> QED BY <2>1, BeginKeeps
<1>4. ASSUME NEW t \in Clients, Answer(t) PROVE PushInv'
  BY <1>4, AnswerKeeps
<1>5. ASSUME NEW t \in Clients,
             \/ Replace(t) \/ Upsert(t) \/ RefuseUpsert(t) \/ Update(t)
             \/ AppendEntries(t) \/ Delete(t) \/ Miss(t)
      PROVE  PushInv'
  <2>1. CASE push[t] = Nothing
    BY <1>5, <2>1, EditKeeps
  <2>2. CASE push[t] # Nothing
    BY <1>5, <2>2, PushKeeps, PushCalls
  <2> QED BY <2>1, <2>2
<1> QED BY <1>1, <1>2, <1>3, <1>4, <1>5 DEF Next

\* No two IP lists share a name, whatever clients create, rename, push, extend and delete, and
\* in whatever order the calls of several come (UpsertIPList, memory.go:700-734).
THEOREM OwnNames == Spec => []UniqueNames
<1>1. IInv => UniqueNames
  BY DEF IInv, Good, UniqueNames
<1> QED BY <1>1, InitInv, NextInv, PTL DEF Spec

\* The whole invariant.
THEOREM Invariant == Spec => [](IInv /\ PushInv)
BY InitInv, NextInv, InitPush, NextPush, PTL DEF Spec

\* The same push again leaves the store as it is, however large it is and whatever was stored before it,
\* when its objects are known again and no other request came between (desired, server.go:423-496).
THEOREM PushAgain == Spec => []PushIsIdempotent
<1>1. PushInv => PushIsIdempotent
  BY DEF PushInv
<1> QED BY <1>1, Invariant, PTL
=============================================================================

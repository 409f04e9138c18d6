------------------------------ MODULE TuiProofs ------------------------------
(***************************************************************************)
(* Theorems about Tui: for any objects, any number of fetch generations,   *)
(* changes and errors.  What the user and the messages do is first sorted  *)
(* by what it does to the calls and to the fetches; the invariants are     *)
(* then about a handful of kinds of step.                                  *)
(***************************************************************************)
EXTENDS Tui, FiniteSetTheorems, WellFoundedInduction, TLAPS

\* A call is under way exactly when busy says so.
OneCall == \/ busy /\ \E c : requests = {c}
           \/ ~busy /\ requests = {}

\* No two fetches in flight have one generation.
GenUnique == \A f, g \in fetches : f.gen = g.gen => f = g

\* No list on the screen is newer than the daemon; nor is a list that a fetch has read,
\* and if the fetch is the current one it is not older than the list on the screen.
ReadBy(f) == {DetailOrder[i] : i \in 1..f.read}
CurrentIsNewer ==
  /\ \A k \in Kinds : shown.version[k] <= version
  /\ \A f \in fetches : \A k \in Kinds :
       /\ f.version[k] <= version
       /\ k \in ReadBy(f) /\ f.gen = fetchGen => f.version[k] >= shown.version[k]

-----------------------------------------------------------------------------
(* Kinds of step *)

\* A mutation starts, ends, or is answered.
Starts == ~busy /\ busy' = TRUE /\ \E c : requests' = requests \cup {c}
Ends   == busy' = FALSE /\ \E c \in requests : requests' = requests \ {c}
Marks  == busy' = busy /\ \E c \in requests : \E d : requests' = (requests \ {c}) \cup {d}

\* A fetch begins; one goes on to its next list, or back to the first one.
Begins ==
  /\ GenIsFree /\ fetching' = TRUE /\ fetchGen' = NextGen(fetchGen)
  /\ fetches' = fetches \cup {NewFetch(NextGen(fetchGen))}
Goes(f, g) ==
  /\ g.gen = f.gen /\ g \in Fetches
  /\ fetches' = (fetches \ {f}) \cup {g}
  /\ UNCHANGED <<daemonVars, shown, lastApply, screenVars, fetching, fetchGen, callVars>>
Reads(f, g) ==
  /\ f.read < Len(DetailOrder) /\ g.read = f.read + 1
  /\ g.version = [f.version EXCEPT ![DetailOrder[f.read + 1]] = version]
Restarts(g) == g.read = 0 /\ g.version = [k \in Kinds |-> 0]

\* A key changes the screen, and may begin a fetch or start a mutation.
LEMMA KeyFrame ==
  ASSUME Key
  PROVE  /\ UNCHANGED <<daemonVars, shown, lastApply, errors>>
         /\ UNCHANGED fetchVars \/ Begins
         /\ UNCHANGED callVars \/ Starts
<1> USE DEF Quietly
<1>1. ASSUME NEW k \in Kinds, SelectTab(k) \/ toggleUIMode(k)
      PROVE  UNCHANGED <<daemonVars, shown, lastApply, errors, callVars>> /\ (UNCHANGED fetchVars \/ Begins)
  BY <1>1 DEF SelectTab, toggleUIMode, beginFetch, Begins
<1>2. ASSUME Refresh \/ ShowApply \/ CloseApply \/ CloseDetail \/ ConfirmNo \/ CancelForm
      PROVE  UNCHANGED <<daemonVars, shown, lastApply, errors, callVars>> /\ (UNCHANGED fetchVars \/ Begins)
  BY <1>2 DEF Refresh, ShowApply, CloseApply, CloseDetail, ConfirmNo, CancelForm, beginFetch, Begins
<1>3. ASSUME NEW o \in Objects,
             openDetailFromList(o) \/ confirmDeleteFromList(o) \/ openPolicyEdit(o)
      PROVE  UNCHANGED <<daemonVars, shown, lastApply, errors, callVars, fetchVars>>
  BY <1>3 DEF openDetailFromList, confirmDeleteFromList, openPolicyEdit, Ask, OpenForm
<1>4. ASSUME confirmDeleteFromDetail \/ openCreate \/ openEditFromDetail
      PROVE  UNCHANGED <<daemonVars, shown, lastApply, errors, callVars, fetchVars>>
  BY <1>4 DEF confirmDeleteFromDetail, openCreate, openEditFromDetail, Ask, OpenForm
<1>5. ASSUME NEW c, startMutate(c)
      PROVE  UNCHANGED <<daemonVars, shown, lastApply, errors, fetchVars>> /\ Starts
  BY <1>5 DEF startMutate, Starts
<1>6. ASSUME NEW o \in Objects, ToggleListed(o)
      PROVE  \E c : startMutate(c)
  BY <1>6 DEF ToggleListed, Toggle
<1>7. ASSUME ConfirmYes \/ submitForm \/ ToggleDetail \/ StartSetting
      PROVE  \E c : startMutate(c)
  BY <1>7 DEF ConfirmYes, submitForm, ToggleDetail, Toggle, StartSetting
<1> QED BY <1>1, <1>2, <1>3, <1>4, <1>5, <1>6, <1>7 DEF Key, callVars

\* What a step does to the calls under way.
LEMMA CallFrame == [Next]_vars => UNCHANGED callVars \/ Starts \/ Ends \/ Marks
<1> SUFFICES ASSUME [Next]_vars PROVE UNCHANGED callVars \/ Starts \/ Ends \/ Marks
  OBVIOUS
<1>1. ASSUME NEW c \in requests, Serve(c) PROVE Marks
  BY <1>1 DEF Serve, Marks
<1>2. ASSUME NEW c \in requests, actionDoneMsg(c) \/ applyDoneMsg(c) \/ Refused(c) \/ CallFails(c)
      PROVE  Ends
  BY <1>2 DEF actionDoneMsg, applyDoneMsg, Refused, CallFails, Ends
<1>3. ASSUME NEW f \in fetches, ReadList(f) \/ ListFails(f) \/ OverviewFails(f) \/ dataMsg(f)
      PROVE  UNCHANGED callVars
  BY <1>3 DEF ReadList, ListFails, OverviewFails, Becomes, dataMsg
<1>4. ASSUME NEW c \in late, ServeLate(c) PROVE UNCHANGED callVars
  BY <1>4 DEF ServeLate
<1>5. ASSUME NEW o \in Shared, OtherClient(o) PROVE UNCHANGED callVars
  BY <1>5 DEF OtherClient
<1>6. CASE tickMsg
  BY <1>6 DEF tickMsg
<1>7. CASE UNCHANGED vars
  BY <1>7 DEF vars
<1> QED BY <1>1, <1>2, <1>3, <1>4, <1>5, <1>6, <1>7, KeyFrame DEF Next, Daemon, Message

\* One call at most is under way, whatever happens to it.
LEMMA CallStep == OneCall /\ [Next]_vars => OneCall'
<1> SUFFICES ASSUME OneCall, [Next]_vars PROVE OneCall'
  OBVIOUS
<1>1. CASE UNCHANGED callVars
  BY <1>1 DEF OneCall, callVars
<1>2. CASE Starts
  BY <1>2 DEF OneCall, Starts
<1>3. CASE Ends
  BY <1>3 DEF OneCall, Ends
<1>4. CASE Marks
  BY <1>4 DEF OneCall, Marks
<1> QED BY <1>1, <1>2, <1>3, <1>4, CallFrame

\* At most one mutation awaits its reply, and busy says whether one does.
THEOREM OneAtATime == Spec => []OneMutation
<1>1. Init => OneCall
  BY DEF Init, OneCall
<1>2. OneCall => OneMutation
  BY FS_EmptySet, FS_Singleton DEF OneCall, OneMutation
<1> QED BY <1>1, <1>2, CallStep, PTL DEF Spec

-----------------------------------------------------------------------------
(* Types *)

\* Among positions in an order there is a first one.
LEMMA First ==
  ASSUME NEW S, S \subseteq DOMAIN DetailOrder, S # {}
  PROVE  (CHOOSE i \in S : \A j \in S : i <= j) \in S
<1> DEFINE Before == {p \in Nat \X Nat : p[1] < p[2]}
<1>1. S \subseteq Nat
  BY OrderAssumption
<1>2. IsWellFoundedOn(Before, Nat)
  BY NatLessThanWellFounded DEF OpToRel
<1>3. PICK i \in S : \A j \in S : ~(<<j, i>> \in Before)
  BY <1>1, <1>2, WFMin
<1>4. ASSUME NEW j \in S PROVE i <= j
  <2>1. i \in Nat /\ j \in Nat /\ <<j, i>> \notin Before
    BY <1>1, <1>3
  <2>2. j < i => <<j, i>> \in Before
    BY <2>1
  <2> QED BY <2>1, <2>2
<1> QED BY <1>3, <1>4

\* The detail on the screen is a copy of an object.
LEMMA FirstDetailType ==
  ASSUME TypeOK, FirstDetail # NoObject
  PROVE  FirstDetail \in [obj : Objects, state : States]
<1> DEFINE set == {i \in DOMAIN DetailOrder : details[DetailOrder[i]] # NoObject}
<1>1. set # {}
  BY DEF FirstDetail
<1>2. (CHOOSE i \in set : \A j \in set : i <= j) \in set
  BY <1>1, First
<1>3. FirstDetail = details[DetailOrder[CHOOSE i \in set : \A j \in set : i <= j]]
  BY <1>1 DEF FirstDetail
<1>4. \A i \in DOMAIN DetailOrder : DetailOrder[i] \in Kinds
  BY DEF Kinds
<1> QED BY <1>2, <1>3, <1>4 DEF TypeOK, Copies

\* Refreshing the details leaves copies of objects.
LEMMA RefreshType ==
  ASSUME TypeOK, NEW objects \in [Objects -> States]
  PROVE  refreshDetail(objects) \in [Kinds -> Copies]
<1> DEFINE found == {i \in DOMAIN DetailOrder : Found(i, objects)}
           k == DetailOrder[CHOOSE i \in found : \A j \in found : i <= j]
<1>1. CASE mode # "detail" \/ found = {}
  BY <1>1 DEF refreshDetail, TypeOK
<1>2. CASE ~(mode # "detail" \/ found = {})
  <2>1. (CHOOSE i \in found : \A j \in found : i <= j) \in found
    BY <1>2, First
  <2>2. k \in Kinds /\ details[k] # NoObject
    BY <2>1 DEF Found, Kinds
  <2>3. details[k] \in [obj : Objects, state : States]
    BY <2>2 DEF TypeOK, Copies
  <2>4. [details[k] EXCEPT !.state = objects[details[k].obj]] \in Copies
    BY <2>3 DEF Copies
  <2>5. refreshDetail(objects) = [details EXCEPT ![k] = [@ EXCEPT !.state = objects[details[k].obj]]]
    BY <1>2 DEF refreshDetail
  <2> QED BY <2>4, <2>5 DEF TypeOK
<1> QED BY <1>1, <1>2

\* The type invariant in parts that are disturbed together.
DaemonTypes == server \in [Objects -> States] /\ version \in Nat /\ late \subseteq Calls
ScreenTypes ==
  /\ mode \in {"list", "form", "detail", "confirm", "apply"} /\ tab \in Kinds
  /\ details \in [Kinds -> Copies] /\ form \in Copies
  /\ confirm \in Objects \cup {NoObject}
CallTypes   == busy \in BOOLEAN /\ requests \subseteq Calls
FetchTypes  ==
  /\ fetching \in BOOLEAN /\ fetchGen \in 0..(Span - 1)
  /\ fetches \subseteq Fetches
ShownTypes  == shown \in Data /\ lastApply \in BOOLEAN

AllTypes == /\ DaemonTypes /\ ScreenTypes /\ CallTypes /\ FetchTypes
            /\ ShownTypes /\ errors \in 0..MaxErrors

LEMMA Parts == (TypeOK <=> AllTypes) /\ (TypeOK' <=> AllTypes')
BY DEF TypeOK, AllTypes, DaemonTypes, ScreenTypes, CallTypes, FetchTypes, ShownTypes

\* A new fetch is a fetch, and so is that of the next generation.
LEMMA NewType == ASSUME NEW g \in 0..(Span - 1) PROVE NewFetch(g) \in Fetches
BY OrderAssumption DEF NewFetch, Fetches, States

LEMMA BeginTypes == FetchTypes /\ (UNCHANGED fetchVars \/ Begins) => FetchTypes'
<1> SUFFICES ASSUME FetchTypes, UNCHANGED fetchVars \/ Begins PROVE FetchTypes'
  OBVIOUS
<1>1. NextGen(fetchGen) \in 0..(Span - 1)
  BY BoundsAssumption DEF NextGen, FetchTypes
<1>2. CASE UNCHANGED fetchVars
  BY <1>2 DEF FetchTypes, fetchVars
<1>3. CASE Begins
  BY <1>1, <1>3, NewType DEF FetchTypes, Begins
<1> QED BY <1>2, <1>3

\* A copy of a listed object is one, and so is the detail of a policy.
LEMMA CopyType ==
  ASSUME TypeOK
  PROVE  /\ \A o \in Objects : Copy(o) \in [obj : Objects, state : States]
         /\ details["policy"] # NoObject => details["policy"] \in [obj : Objects, state : States]
         /\ NoObject \in Copies /\ Nothing \in [Kinds -> Copies]
BY OrderAssumption DEF TypeOK, Data, Copy, Copies, Nothing

\* A mutation that starts is one of the calls there are.
LEMMA StartTypes ==
  ASSUME TypeOK, NEW c \in Calls, startMutate(c)
  PROVE  CallTypes'
BY DEF TypeOK, CallTypes, startMutate

\* Keys keep the screen's types ...
LEMMA KeyScreen == TypeOK /\ Key => ScreenTypes'
<1> SUFFICES ASSUME TypeOK, Key PROVE ScreenTypes'
  OBVIOUS
<1> USE CopyType DEF ScreenTypes, TypeOK, screenVars
<1>1. ASSUME NEW k \in Kinds, SelectTab(k) \/ toggleUIMode(k) PROVE ScreenTypes'
  BY <1>1 DEF SelectTab, toggleUIMode
<1>2. CASE Refresh \/ ShowApply \/ CloseApply \/ CloseDetail \/ ConfirmNo \/ CancelForm
  BY <1>2 DEF Refresh, ShowApply, CloseApply, CloseDetail, ConfirmNo, CancelForm
<1>3. ASSUME NEW o \in Objects, openDetailFromList(o) PROVE ScreenTypes'
  BY <1>3 DEF openDetailFromList, Copies
<1>4. ASSUME NEW o \in Objects, confirmDeleteFromList(o) \/ openPolicyEdit(o) PROVE ScreenTypes'
  BY <1>4 DEF confirmDeleteFromList, openPolicyEdit, Ask, OpenForm, Copies
<1>5. CASE confirmDeleteFromDetail
  BY <1>5, FirstDetailType DEF confirmDeleteFromDetail, Ask
<1>6. CASE openCreate \/ openEditFromDetail
  BY <1>6 DEF openCreate, openEditFromDetail, OpenForm, Copies
<1>7. CASE ConfirmYes
  BY <1>7 DEF ConfirmYes
<1>8. ASSUME NEW o \in Objects, ToggleListed(o) PROVE ScreenTypes'
  BY <1>8 DEF ToggleListed, Toggle
<1>9. CASE submitForm \/ ToggleDetail \/ StartSetting
  BY <1>9 DEF submitForm, ToggleDetail, Toggle, StartSetting
<1> QED BY <1>1, <1>2, <1>3, <1>4, <1>5, <1>6, <1>7, <1>8, <1>9 DEF Key

\* ... and start only calls of an object the screen has shown.
LEMMA KeyCalls == TypeOK /\ Key => CallTypes'
<1> SUFFICES ASSUME TypeOK, Key PROVE CallTypes'
  OBVIOUS
<1>1. CASE UNCHANGED callVars
  BY <1>1 DEF TypeOK, CallTypes, callVars
<1>2. ASSUME NEW k \in [obj : Objects, state : States], Toggle(k) PROVE CallTypes'
  <2>1. Call("toggle", k.obj, Opposite(k.state)) \in Calls
    BY DEF Call, Calls, Opposite, States
  <2> QED BY <1>2, <2>1, StartTypes DEF Toggle
<1>3. CASE ConfirmYes
  <2>1. Call("delete", confirm, "absent") \in Calls
    BY <1>3 DEF Call, Calls, States, TypeOK
  <2> QED BY <1>3, <2>1, StartTypes DEF ConfirmYes
<1>4. CASE submitForm
  <2>1. \A o \in Objects : Call("create", o, "on") \in Calls
    BY DEF Call, Calls, States
  <2>2. form # NoObject => \A t \in {"on", "off"} : Call("update", form.obj, t) \in Calls
    BY DEF Call, Calls, States, TypeOK, Copies
  <2> QED BY <1>4, <2>1, <2>2, StartTypes DEF submitForm
<1>5. CASE StartSetting
  <2>1. \A op \in {"apply", "setting"} : Call(op, NoObject, "on") \in Calls
    BY DEF Call, Calls, States
  <2> QED BY <1>5, <2>1, StartTypes DEF StartSetting
<1>6. ASSUME NEW o \in Objects, ToggleListed(o) PROVE CallTypes'
  BY <1>2, <1>6, CopyType DEF ToggleListed
<1>7. CASE ToggleDetail
  BY <1>2, <1>7, CopyType DEF ToggleDetail
<1>8. ASSUME NEW k \in Kinds, SelectTab(k) \/ toggleUIMode(k) PROVE UNCHANGED callVars
  BY <1>8 DEF SelectTab, toggleUIMode, Quietly
<1>9. ASSUME \/ Refresh \/ ShowApply \/ CloseApply \/ CloseDetail \/ ConfirmNo \/ CancelForm
             \/ confirmDeleteFromDetail \/ openCreate \/ openEditFromDetail
             \/ \E o \in Objects : openDetailFromList(o) \/ confirmDeleteFromList(o) \/ openPolicyEdit(o)
      PROVE  UNCHANGED callVars
  BY <1>9 DEF Refresh, ShowApply, CloseApply, CloseDetail, ConfirmNo, CancelForm, Quietly, Ask, OpenForm,
              confirmDeleteFromDetail, openCreate, openEditFromDetail, openDetailFromList,
              confirmDeleteFromList, openPolicyEdit
<1> QED BY <1>1, <1>3, <1>4, <1>5, <1>6, <1>7, <1>8, <1>9 DEF Key

\* Executing a call changes one object, and counts it.
LEMMA ExecuteTypes ==
  ASSUME TypeOK, NEW c \in Calls, Execute(c) \/ UNCHANGED <<server, version>>
  PROVE  server' \in [Objects -> States] /\ version' \in Nat /\ version' >= version
BY DEF TypeOK, Execute, Targets, Calls

\* The kind read next is one, and what the daemon has of it completes what was read.
LEMMA NextRead ==
  ASSUME TypeOK, NEW f \in Fetches, f.read < Len(DetailOrder), NEW objects \in [Objects -> States],
         NEW g, g = [f EXCEPT !.read = @ + 1, !.objects = objects,
                              !.version = [@ EXCEPT ![DetailOrder[f.read + 1]] = version]]
  PROVE  g \in Fetches /\ g.gen = f.gen /\ Reads(f, g)
<1>1. f.read \in Nat /\ Len(DetailOrder) \in Nat /\ f.read + 1 \in 0..Len(DetailOrder)
  BY OrderAssumption DEF Fetches
<1>2. DetailOrder[f.read + 1] \in Kinds
  BY <1>1, OrderAssumption
<1>3. [f.version EXCEPT ![DetailOrder[f.read + 1]] = version] \in [Kinds -> Nat]
  BY <1>2 DEF Fetches, TypeOK
<1> QED BY <1>1, <1>3 DEF Fetches, Reads

\* A step of a fetch goes on to its next list, or begins anew.
LEMMA FetchGoes ==
  ASSUME TypeOK, NEW f \in fetches, ReadList(f) \/ ListFails(f) \/ OverviewFails(f)
  PROVE  /\ \E g : Goes(f, g) /\ (Reads(f, g) \/ Restarts(g))
         /\ errors' \in 0..MaxErrors
<1>1. f \in Fetches
  BY DEF TypeOK
<1>2. CASE ReadList(f)
  <2>1. PICK k : k = DetailOrder[f.read + 1]
    OBVIOUS
  <2>2. PICK objects : objects = [o \in Objects |-> IF o.kind = k THEN server[o] ELSE f.objects[o]]
    OBVIOUS
  <2>3. objects \in [Objects -> States]
    BY <1>1, <2>2 DEF TypeOK, Fetches
  <2>4. PICK g : g = [f EXCEPT !.read = @ + 1, !.objects = objects, !.version = [@ EXCEPT ![k] = version]]
    OBVIOUS
  <2>5. Becomes(f, g) /\ UNCHANGED errors /\ f.read < Len(DetailOrder)
    BY <1>1, <1>2, <2>1, <2>2, <2>4 DEF ReadList, Fetches
  <2>6. g \in Fetches /\ g.gen = f.gen /\ Reads(f, g)
    BY <1>1, <2>1, <2>3, <2>4, <2>5, NextRead
  <2> QED BY <2>5, <2>6 DEF Becomes, Goes, TypeOK
<1>3. CASE ListFails(f)
  <2>1. PICK k : k = DetailOrder[f.read + 1]
    OBVIOUS
  <2>2. PICK g : g = [f EXCEPT !.read = @ + 1, !.objects = f.objects, !.version = [@ EXCEPT ![k] = version]]
    OBVIOUS
  <2>3. g = [f EXCEPT !.read = @ + 1, !.version = [@ EXCEPT ![k] = version]]
    BY <1>1, <2>2 DEF Fetches
  <2>4. Becomes(f, g) /\ UNCHANGED errors /\ f.read < Len(DetailOrder)
    BY <1>3, <2>1, <2>3 DEF ListFails
  <2>5. g \in Fetches /\ g.gen = f.gen /\ Reads(f, g)
    <3>1. f.objects \in [Objects -> States]
      BY <1>1 DEF Fetches
    <3> QED BY <1>1, <2>1, <2>2, <2>4, <3>1, NextRead
  <2> QED BY <2>4, <2>5 DEF Becomes, Goes, TypeOK
<1>4. CASE OverviewFails(f)
  <2>1. PICK next \in {"lists", "failed"} : Becomes(f, [NewFetch(f.gen) EXCEPT !.call = next])
    BY <1>4 DEF OverviewFails
  <2>2. f.gen \in 0..(Span - 1)
    BY <1>1 DEF Fetches
  <2>3. PICK g : g = [NewFetch(f.gen) EXCEPT !.call = next]
    OBVIOUS
  <2>4. g \in Fetches /\ g.gen = f.gen /\ Restarts(g)
    BY <2>2, <2>3, NewType DEF Fetches, NewFetch, Restarts
  <2>5. errors' \in 0..MaxErrors
    BY <1>4, BoundsAssumption DEF OverviewFails, TypeOK
  <2> QED BY <2>1, <2>3, <2>4, <2>5 DEF Becomes, Goes
<1> QED BY <1>2, <1>3, <1>4

LEMMA TypeStep == TypeOK /\ [Next]_vars => TypeOK'
<1> SUFFICES ASSUME TypeOK, [Next]_vars PROVE TypeOK'
  OBVIOUS
<1>a. DaemonTypes /\ ScreenTypes /\ CallTypes /\ FetchTypes /\ ShownTypes /\ errors \in 0..MaxErrors
  BY Parts DEF AllTypes
<1>1. CASE Key
  <2>1. DaemonTypes' /\ ShownTypes' /\ errors' \in 0..MaxErrors
    BY <1>1, <1>a, KeyFrame DEF DaemonTypes, ShownTypes, daemonVars
  <2>2. FetchTypes'
    BY <1>1, <1>a, KeyFrame, BeginTypes
  <2> QED BY <1>1, <2>1, <2>2, KeyScreen, KeyCalls, Parts DEF AllTypes
<1>2. ASSUME NEW c \in requests, Serve(c) PROVE TypeOK'
  <2>1. c \in Calls /\ [c EXCEPT !.done = TRUE] \in Calls
    BY <1>a DEF CallTypes, Calls
  <2>2. DaemonTypes'
    BY <1>2, <1>a, <2>1, ExecuteTypes DEF Serve, DaemonTypes
  <2>3. CallTypes' /\ ScreenTypes' /\ FetchTypes' /\ ShownTypes' /\ errors' \in 0..MaxErrors
    BY <1>2, <1>a, <2>1 DEF Serve, CallTypes, ScreenTypes, FetchTypes, ShownTypes, screenVars, fetchVars
  <2> QED BY <2>2, <2>3, Parts DEF AllTypes
<1>3. ASSUME NEW c \in late, ServeLate(c) PROVE TypeOK'
  <2>1. DaemonTypes'
    BY <1>3, <1>a, ExecuteTypes DEF ServeLate, DaemonTypes
  <2>2. CallTypes' /\ ScreenTypes' /\ FetchTypes' /\ ShownTypes' /\ errors' \in 0..MaxErrors
    BY <1>3, <1>a DEF ServeLate, CallTypes, ScreenTypes, FetchTypes, ShownTypes, screenVars, fetchVars, callVars
  <2> QED BY <2>1, <2>2, Parts DEF AllTypes
<1>4. ASSUME NEW o \in Shared, OtherClient(o) PROVE TypeOK'
  <2>1. DaemonTypes'
    <3>1. PICK st \in States : server' = [server EXCEPT ![o] = st]
      BY <1>4 DEF OtherClient
    <3>2. version' \in Nat /\ UNCHANGED late
      BY <1>4, <1>a DEF OtherClient, DaemonTypes
    <3> QED BY <1>a, <3>1, <3>2 DEF DaemonTypes
  <2>2. CallTypes' /\ ScreenTypes' /\ FetchTypes' /\ ShownTypes' /\ errors' \in 0..MaxErrors
    BY <1>4, <1>a DEF OtherClient, CallTypes, ScreenTypes, FetchTypes, ShownTypes, screenVars, fetchVars, callVars
  <2> QED BY <2>1, <2>2, Parts DEF AllTypes
<1>5. ASSUME NEW f \in fetches, ReadList(f) \/ ListFails(f) \/ OverviewFails(f) PROVE TypeOK'
  <2>1. PICK g : Goes(f, g)
    BY <1>5, FetchGoes
  <2>2. errors' \in 0..MaxErrors
    BY <1>5, FetchGoes
  <2>3. DaemonTypes' /\ CallTypes' /\ ScreenTypes' /\ FetchTypes' /\ ShownTypes'
    BY <1>a, <2>1 DEF Goes, DaemonTypes, CallTypes, ScreenTypes, FetchTypes, ShownTypes,
                      daemonVars, screenVars, callVars
  <2> QED BY <2>2, <2>3, Parts DEF AllTypes
<1>6. ASSUME NEW f \in fetches, dataMsg(f) PROVE TypeOK'
  <2>1. DaemonTypes' /\ CallTypes' /\ FetchTypes' /\ errors' \in 0..MaxErrors
    BY <1>6, <1>a DEF dataMsg, DaemonTypes, CallTypes, FetchTypes, daemonVars, callVars
  <2>2. CASE Accepted(f)
    <3>1. f.version \in [Kinds -> Nat] /\ f.objects \in [Objects -> States]
      BY <1>a DEF FetchTypes, Fetches
    <3>2. details' \in [Kinds -> Copies]
      BY <1>6, <2>2, <3>1, RefreshType DEF dataMsg
    <3>3. ShownTypes'
      <4>1. shown' = [version |-> f.version, objects |-> f.objects] /\ lastApply' \in {lastApply, TRUE}
        BY <1>6, <2>2 DEF dataMsg
      <4> QED BY <1>a, <3>1, <4>1 DEF Data, ShownTypes
    <3>4. ScreenTypes'
      BY <1>6, <1>a, <3>2 DEF dataMsg, ScreenTypes
    <3> QED BY <2>1, <3>3, <3>4, Parts DEF AllTypes
  <2>3. CASE ~Accepted(f)
    BY <1>6, <1>a, <2>1, <2>3, Parts DEF dataMsg, ScreenTypes, ShownTypes, AllTypes
  <2> QED BY <2>2, <2>3
<1>7. ASSUME NEW c \in requests, actionDoneMsg(c) \/ applyDoneMsg(c) PROVE TypeOK'
  <2>1. FetchTypes'
    BY <1>7, <1>a, BeginTypes DEF actionDoneMsg, applyDoneMsg, beginFetch, Begins
  <2>2. ScreenTypes'
    BY <1>7, <1>a, CopyType DEF actionDoneMsg, applyDoneMsg, ScreenTypes
  <2>3. DaemonTypes' /\ CallTypes' /\ ShownTypes' /\ errors' \in 0..MaxErrors
    BY <1>7, <1>a DEF actionDoneMsg, applyDoneMsg, DaemonTypes, CallTypes, ShownTypes, daemonVars
  <2> QED BY <2>1, <2>2, <2>3, Parts DEF AllTypes
<1>8. ASSUME NEW c \in requests, Refused(c) \/ CallFails(c) PROVE TypeOK'
  <2>1. DaemonTypes' /\ CallTypes'
    BY <1>8, <1>a DEF Refused, CallFails, DaemonTypes, CallTypes, daemonVars
  <2>2. errors' \in 0..MaxErrors
    BY <1>8, <1>a, BoundsAssumption DEF Refused, CallFails
  <2>3. ScreenTypes' /\ FetchTypes' /\ ShownTypes'
    BY <1>8, <1>a DEF Refused, CallFails, ScreenTypes, FetchTypes, ShownTypes, screenVars, fetchVars
  <2> QED BY <2>1, <2>2, <2>3, Parts DEF AllTypes
<1>9. CASE tickMsg
  <2>1. FetchTypes'
    BY <1>9, <1>a, BeginTypes DEF tickMsg, beginFetch, Begins
  <2>2. DaemonTypes' /\ CallTypes' /\ ScreenTypes' /\ ShownTypes' /\ errors' \in 0..MaxErrors
    BY <1>9, <1>a DEF tickMsg, DaemonTypes, CallTypes, ScreenTypes, ShownTypes, daemonVars, callVars, screenVars
  <2> QED BY <2>1, <2>2, Parts DEF AllTypes
<1>10. CASE UNCHANGED vars
  BY <1>10, <1>a, Parts DEF AllTypes, vars, daemonVars, callVars, screenVars, fetchVars, DaemonTypes, CallTypes,
                            ScreenTypes, FetchTypes, ShownTypes
<1> QED BY <1>1, <1>2, <1>3, <1>4, <1>5, <1>6, <1>7, <1>8, <1>9, <1>10 DEF Next, Daemon, Message

\* Every variable has its type.
THEOREM TypeCorrect == Spec => []TypeOK
<1>1. Init => TypeOK
  <2> SUFFICES ASSUME Init PROVE TypeOK
    OBVIOUS
  <2>1. DaemonTypes /\ ShownTypes
    BY DEF Init, DaemonTypes, ShownTypes, Data, States
  <2>2. ScreenTypes
    BY DEF Init, ScreenTypes, Copies, Nothing
  <2>3. CallTypes
    BY DEF Init, CallTypes
  <2>4. NewFetch(0) \in Fetches
    BY BoundsAssumption, NewType
  <2>5. FetchTypes
    <3>1. fetching = FALSE /\ fetchGen = 0 /\ fetches = {NewFetch(0)}
      BY DEF Init
    <3>2. 0 \in 0..(Span - 1)
      BY BoundsAssumption
    <3>3. fetches \subseteq Fetches
      BY <2>4, <3>1
    <3> QED BY <3>1, <3>2, <3>3 DEF FetchTypes
  <2>6. errors \in 0..MaxErrors
    BY BoundsAssumption DEF Init
  <2> QED BY <2>1, <2>2, <2>3, <2>5, <2>6, Parts DEF AllTypes
<1> QED BY <1>1, TypeStep, PTL DEF Spec

-----------------------------------------------------------------------------
(* Fetches *)

\* While fetching is set the newest fetch is in flight; generations are unique; what the
\* current fetch has read is not older than the screen.
FetchInv == FetchingMeansPending /\ GenUnique /\ CurrentIsNewer

\* The versions are numbers.
LEMMA Versions ==
  ASSUME TypeOK
  PROVE  /\ version \in Nat /\ fetches \subseteq Fetches
         /\ \A k \in Kinds : shown.version[k] \in Nat /\ \A f \in fetches : f.version[k] \in Nat
BY DEF TypeOK, Data, Fetches

\* A step that leaves fetches and screen alone, or begins a fetch.
LEMMA FetchBegins ==
  ASSUME TypeOK, FetchInv, UNCHANGED shown, version' \in Nat, version' >= version,
         UNCHANGED fetchVars \/ Begins
  PROVE  FetchInv'
<1>1. CASE UNCHANGED fetchVars
  <2>1. FetchingMeansPending' /\ GenUnique'
    BY <1>1 DEF FetchInv, FetchingMeansPending, GenUnique, fetchVars
  <2>2. CurrentIsNewer'
    BY <1>1, Versions DEF FetchInv, CurrentIsNewer, ReadBy, fetchVars
  <2> QED BY <2>1, <2>2 DEF FetchInv
<1>2. CASE Begins
  <2>1. PICK new : new = NewFetch(NextGen(fetchGen))
    OBVIOUS
  <2>2. /\ new.gen = fetchGen' /\ fetches' = fetches \cup {new} /\ ReadBy(new) = {}
        /\ \A k \in Kinds : new.version[k] = 0
    BY <1>2, <2>1 DEF Begins, NewFetch, ReadBy
  <2>3. \A f \in fetches : f.gen # new.gen
    BY <1>2, <2>1 DEF Begins, GenIsFree, NewFetch
  <2>4. FetchingMeansPending' /\ GenUnique'
    BY <2>2, <2>3 DEF FetchInv, FetchingMeansPending, GenUnique
  <2>5. CurrentIsNewer'
    <3>1. \A k \in Kinds : shown'.version[k] <= version'
      BY Versions DEF FetchInv, CurrentIsNewer
    <3>2. \A k \in Kinds : new.version[k] <= version' /\ k \notin ReadBy(new)
      BY <2>2
    <3>3. \A f \in fetches : f.gen # fetchGen' /\ \A k \in Kinds : f.version[k] <= version'
      BY <2>2, <2>3, Versions DEF FetchInv, CurrentIsNewer
    <3> QED BY <2>2, <3>1, <3>2, <3>3 DEF CurrentIsNewer, ReadBy
  <2> QED BY <2>4, <2>5 DEF FetchInv
<1> QED BY <1>1, <1>2

\* A fetch goes on: the list it reads is as new as the daemon.
LEMMA FetchOn ==
  ASSUME TypeOK, FetchInv, NEW f \in fetches, NEW g, Goes(f, g), Reads(f, g) \/ Restarts(g)
  PROVE  FetchInv' /\ UNCHANGED shown
<1>1. /\ fetches' = (fetches \ {f}) \cup {g} /\ g.gen = f.gen
      /\ UNCHANGED <<shown, version, fetching, fetchGen>>
  BY DEF Goes, daemonVars
<1>2. FetchingMeansPending' /\ GenUnique'
  BY <1>1 DEF FetchInv, FetchingMeansPending, GenUnique
<1>3. ASSUME NEW k \in Kinds
      PROVE  /\ g.version[k] <= version
             /\ k \in ReadBy(g) /\ g.gen = fetchGen => g.version[k] >= shown.version[k]
  <2>1. version \in Nat /\ f \in Fetches /\ f.version[k] \in Nat /\ shown.version[k] \in Nat
    BY Versions
  <2>2. CASE Restarts(g)
    <3>1. ReadBy(g) = {} /\ g.version[k] = 0
      BY <2>2 DEF Restarts, ReadBy
    <3> QED BY <2>1, <3>1
  <2>3. CASE Reads(f, g)
    <3>1. f.version \in [Kinds -> Nat] /\ f.read \in Nat
      BY <2>1, OrderAssumption DEF Fetches
    <3>2. CASE k = DetailOrder[f.read + 1]
      <4>1. g.version[k] = version
        BY <2>3, <3>1, <3>2 DEF Reads
      <4> QED BY <2>1, <4>1 DEF FetchInv, CurrentIsNewer
    <3>3. CASE k # DetailOrder[f.read + 1]
      <4>1. g.version[k] = f.version[k]
        BY <2>3, <3>1, <3>3 DEF Reads
      <4>2. k \in ReadBy(g) => k \in ReadBy(f)
        BY <2>3, <3>1, <3>3 DEF Reads, ReadBy
      <4> QED BY <1>1, <4>1, <4>2 DEF FetchInv, CurrentIsNewer
    <3> QED BY <3>2, <3>3
  <2> QED BY <2>2, <2>3
<1>4. CurrentIsNewer'
  BY <1>1, <1>3 DEF FetchInv, CurrentIsNewer, ReadBy
<1> QED BY <1>1, <1>2, <1>4 DEF FetchInv

\* A reply is handled: no list on the screen becomes older.
LEMMA FetchHandled ==
  ASSUME TypeOK, FetchInv, NEW f \in fetches, dataMsg(f)
  PROVE  FetchInv' /\ \A k \in Kinds : shown'.version[k] >= shown.version[k]
<1>1. fetches' = fetches \ {f} /\ fetching' = FALSE /\ UNCHANGED <<fetchGen, version>>
  BY DEF dataMsg, daemonVars
<1>2. FetchingMeansPending' /\ GenUnique'
  BY <1>1 DEF FetchInv, FetchingMeansPending, GenUnique
<1>3. CASE ~Accepted(f)
  <2>1. UNCHANGED shown
    BY <1>3 DEF dataMsg
  <2>2. CurrentIsNewer'
    BY <1>1, <2>1 DEF FetchInv, CurrentIsNewer, ReadBy
  <2> QED BY <1>2, <2>1, <2>2, Versions DEF FetchInv
<1>4. CASE Accepted(f)
  <2>1. f.gen = fetchGen /\ f.read = Len(DetailOrder) /\ shown' = [version |-> f.version, objects |-> f.objects]
    BY <1>4 DEF dataMsg, Accepted, Answered
  <2>2. \A k \in Kinds : k \in ReadBy(f)
    BY <2>1, OrderAssumption DEF ReadBy, Kinds
  <2>3. \A k \in Kinds : shown'.version[k] >= shown.version[k] /\ shown'.version[k] <= version
    BY <2>1, <2>2 DEF FetchInv, CurrentIsNewer
  <2>4. \A g \in fetches' : g.gen # fetchGen
    BY <1>1, <2>1 DEF FetchInv, GenUnique
  <2>5. CurrentIsNewer'
    BY <1>1, <2>3, <2>4 DEF FetchInv, CurrentIsNewer, ReadBy
  <2> QED BY <1>2, <2>3, <2>5 DEF FetchInv
<1> QED BY <1>3, <1>4

\* What a step does to the fetches and to the screen.
LEMMA FetchStep ==
  ASSUME TypeOK, FetchInv, [Next]_vars
  PROVE  FetchInv' /\ \A k \in Kinds : shown'.version[k] >= shown.version[k]
<1> DEFINE Goal == FetchInv' /\ \A k \in Kinds : shown'.version[k] >= shown.version[k]
<1>a. version \in Nat /\ version' \in Nat /\ \A k \in Kinds : shown.version[k] \in Nat
  BY TypeStep, Versions DEF TypeOK
<1>1. ASSUME UNCHANGED shown, version' >= version, UNCHANGED fetchVars \/ Begins PROVE Goal
  BY <1>1, <1>a, FetchBegins
<1>2. CASE Key
  <2>1. UNCHANGED <<shown, version>> /\ (UNCHANGED fetchVars \/ Begins)
    BY <1>2, KeyFrame DEF daemonVars
  <2> QED BY <1>1, <1>a, <2>1
<1>3. ASSUME NEW c \in requests, Serve(c) PROVE Goal
  <2>1. version' >= version
    BY <1>3, ExecuteTypes DEF Serve, TypeOK
  <2>2. UNCHANGED <<shown, fetchVars>>
    BY <1>3 DEF Serve
  <2> QED BY <1>1, <2>1, <2>2
<1>4. ASSUME NEW c \in late, ServeLate(c) PROVE Goal
  <2>1. version' >= version
    BY <1>4, ExecuteTypes DEF ServeLate, TypeOK
  <2>2. UNCHANGED <<shown, fetchVars>>
    BY <1>4 DEF ServeLate
  <2> QED BY <1>1, <2>1, <2>2
<1>5. ASSUME NEW o \in Shared, OtherClient(o) PROVE Goal
  <2>1. UNCHANGED <<shown, fetchVars>> /\ version' >= version
    BY <1>5, <1>a DEF OtherClient
  <2> QED BY <1>1, <2>1
<1>6. ASSUME NEW f \in fetches, ReadList(f) \/ ListFails(f) \/ OverviewFails(f) PROVE Goal
  <2>1. PICK g : Goes(f, g) /\ (Reads(f, g) \/ Restarts(g))
    BY <1>6, FetchGoes
  <2>2. FetchInv' /\ UNCHANGED shown
    BY <2>1, FetchOn
  <2> QED BY <1>a, <2>2
<1>7. ASSUME NEW f \in fetches, dataMsg(f) PROVE Goal
  BY <1>7, FetchHandled
<1>8. ASSUME NEW c \in requests, actionDoneMsg(c) \/ applyDoneMsg(c) \/ Refused(c) \/ CallFails(c)
      PROVE  Goal
  <2>1. UNCHANGED <<shown, version>>
    BY <1>8 DEF actionDoneMsg, applyDoneMsg, Refused, CallFails, daemonVars
  <2>2. UNCHANGED fetchVars \/ Begins
    BY <1>8 DEF actionDoneMsg, applyDoneMsg, Refused, CallFails, beginFetch, Begins
  <2> QED BY <1>1, <1>a, <2>1, <2>2
<1>9. CASE tickMsg
  <2>1. UNCHANGED <<shown, version>>
    BY <1>9 DEF tickMsg, daemonVars
  <2>2. UNCHANGED fetchVars \/ Begins
    BY <1>9 DEF tickMsg, beginFetch, Begins
  <2> QED BY <1>1, <1>a, <2>1, <2>2
<1>10. CASE UNCHANGED vars
  BY <1>1, <1>10, <1>a DEF vars, daemonVars
<1> QED BY <1>2, <1>3, <1>4, <1>5, <1>6, <1>7, <1>8, <1>9, <1>10 DEF Next, Daemon, Message

LEMMA InitFetches == Init => FetchInv
BY DEF Init, FetchInv, FetchingMeansPending, GenUnique, CurrentIsNewer, NewFetch, ReadBy

\* While fetching is set the newest fetch is still to be handled.
THEOREM Pending == Spec => []FetchingMeansPending
<1>1. TypeOK /\ FetchInv /\ [Next]_vars => FetchInv'
  BY FetchStep
<1>2. FetchInv => FetchingMeansPending
  BY DEF FetchInv
<1> QED BY <1>1, <1>2, InitFetches, TypeCorrect, PTL DEF Spec

\* No list on the screen is replaced by an older state of it.
THEOREM NeverOlder == Spec => NewestSnapshotWins
<1>1. TypeOK /\ FetchInv /\ [Next]_vars => FetchInv'
  BY FetchStep
<1>2. TypeOK /\ FetchInv /\ [Next]_vars => [\A k \in Kinds : shown'.version[k] >= shown.version[k]]_shown
  BY FetchStep
<1> QED BY <1>1, <1>2, InitFetches, TypeCorrect, PTL DEF Spec, NewestSnapshotWins
=============================================================================

--------------------------------- MODULE Tui ---------------------------------
(***************************************************************************)
(* The event loop of netpolicyctl's terminal UI (internal/tui/             *)
(* model_root.go, commands.go; the easy mode's keys are in easy.go).       *)
(* Update handles one message at a time; fetches and mutations are         *)
(* commands that run in goroutines of their own and come back as messages, *)
(* in any order, while the user goes on typing and other clients go on     *)
(* changing the daemon's objects.                                          *)
(*                                                                         *)
(* Data.  An object is a kind and an id; the daemon has it "on", "off"     *)
(* (enabled or not) or "absent".  The cursor may be on any listed object.  *)
(* Easy and advanced mode have the same state and the same handlers behind *)
(* their keys, so the mode itself is not kept.                             *)
(***************************************************************************)
EXTENDS Naturals, Sequences, FiniteSets

CONSTANTS
  Objects,       \* [kind, id]
  Shared,        \* those that other clients change, too
  NoObject,      \* nothing to confirm, edit or show
  DetailOrder,   \* kinds, in the order viewDetail and the detail keys look for one,
                 \* which is also the order their lists are read in
  Refreshed,     \* kinds refreshDetail refreshes
  Span,          \* fetch generations: uint64, of which Span are told apart
  MaxChanges,    \* bound: changes of the daemon's objects
  MaxErrors      \* bound: calls that fail or time out

Kinds == {DetailOrder[i] : i \in DOMAIN DetailOrder}

ASSUME ObjectsAssumption ==
  /\ \A o \in Objects : o.kind \in Kinds
  /\ NoObject \notin Objects
  /\ Shared \subseteq Objects
  /\ Refreshed \subseteq Kinds
ASSUME OrderAssumption == DetailOrder \in Seq(Kinds) /\ "policy" \in Kinds
ASSUME BoundsAssumption == Span \in Nat \ {0} /\ MaxChanges \in Nat /\ MaxErrors \in Nat

States == {"absent", "on", "off"}

VARIABLES
  server, version,   \* the daemon's objects, and how often they changed
  late,              \* calls the client gave up, still to reach the daemon
  shown,             \* rootModel's lists, and which version each one is of
  lastApply,         \* a result of an apply can be shown
  mode, tab,         \* modeList, modeForm, ...; the kind of object listed
  details,           \* detailPolicy, detailRoute, ...: copies or NoObject
  confirm,           \* the object to delete
  form,              \* in modeForm the copy that is edited, NoObject for a new object
  busy, requests,    \* mutations whose reply has not been handled
  fetching, fetchGen, fetches,  \* fetches whose reply has not been handled
  errors             \* counter

daemonVars == <<server, version, late>>
screenVars == <<mode, tab, details, confirm, form>>
fetchVars  == <<fetching, fetchGen, fetches>>
callVars   == <<busy, requests>>
vars == <<daemonVars, shown, lastApply, screenVars, fetchVars, callVars, errors>>

-----------------------------------------------------------------------------
Nothing == [k \in Kinds |-> NoObject]
Copy(o) == [obj |-> o, state |-> shown.objects[o]]
Listed(k) == {o \in Objects : o.kind = k /\ shown.objects[o] # "absent"}
Opposite(s) == IF s = "on" THEN "off" ELSE "on"

\* The first detail that is set: what viewDetail shows and 'D' deletes.
FirstDetail ==
  LET set == {i \in DOMAIN DetailOrder : details[DetailOrder[i]] # NoObject}
  IN  IF set = {} THEN NoObject
      ELSE details[DetailOrder[CHOOSE i \in set : \A j \in set : i <= j]]

(* Commands *)

NextGen(g) == (g + 1) % Span

\* A fetch asks for the overview, or after that failed for one list after the other; it
\* holds the lists read so far, each of the version the daemon had then.
NewFetch(g) == [gen |-> g, call |-> "overview", read |-> 0,
                version |-> [k \in Kinds |-> 0], objects |-> [o \in Objects |-> "absent"]]
Answered(f) == f.call # "failed" /\ f.read = Len(DetailOrder)

\* Span tells apart the generations of all fetches in flight and of the next.
GenIsFree == \A f \in fetches : f.gen # NextGen(fetchGen)

beginFetch ==
  IF fetching THEN UNCHANGED fetchVars
  ELSE /\ GenIsFree
       /\ fetching' = TRUE
       /\ fetchGen' = NextGen(fetchGen)
       /\ fetches' = fetches \cup {NewFetch(NextGen(fetchGen))}

Call(op, o, s) == [op |-> op, obj |-> o, to |-> s, done |-> FALSE]

\* Mutant of startMutate: a mutation starts while another is in flight.
startMutateBusy(call) ==
  /\ busy' = TRUE
  /\ requests' = requests \cup {call}
  /\ UNCHANGED <<daemonVars, shown, lastApply, fetchVars, errors>>

startMutate(call) ==
  /\ ~busy
  /\ busy' = TRUE
  /\ requests' = requests \cup {call}
  /\ UNCHANGED <<daemonVars, shown, lastApply, fetchVars, errors>>

-----------------------------------------------------------------------------
(* Keys: only the screen changes (KeyVars), or a command starts as well. *)

Quietly == UNCHANGED <<daemonVars, shown, lastApply, fetchVars, callVars, errors>>

SelectTab(k) ==
  /\ mode = "list"
  /\ tab' = k
  /\ Quietly
  /\ UNCHANGED <<mode, details, confirm, form>>

\* 'r', and the tabs that show live data.
Refresh ==
  /\ mode = "list"
  /\ beginFetch
  /\ UNCHANGED <<daemonVars, shown, lastApply, screenVars, callVars, errors>>

\* 'm'.
toggleUIMode(k) ==
  /\ mode = "list"
  /\ tab' = k
  /\ details' = Nothing
  /\ beginFetch
  /\ UNCHANGED <<daemonVars, shown, lastApply, mode, confirm, form, callVars, errors>>

\* enter on a listed object.
openDetailFromList(o) ==
  /\ mode = "list"
  /\ o \in Listed(tab)
  /\ details' = [details EXCEPT ![tab] = Copy(o)]
  /\ mode' = "detail"
  /\ Quietly
  /\ UNCHANGED <<tab, confirm, form>>

\* The last apply's result, from the status tab; esc leads back.
ShowApply ==
  /\ mode = "list"
  /\ lastApply
  /\ mode' = "apply"
  /\ Quietly
  /\ UNCHANGED <<tab, details, confirm, form>>

CloseApply ==
  /\ mode = "apply"
  /\ mode' = "list"
  /\ Quietly
  /\ UNCHANGED <<tab, details, confirm, form>>

CloseDetail ==
  /\ mode = "detail"
  /\ mode' = "list"
  /\ details' = Nothing
  /\ Quietly
  /\ UNCHANGED <<tab, confirm, form>>

Ask(o) ==
  /\ confirm' = o
  /\ mode' = "confirm"
  /\ Quietly
  /\ UNCHANGED <<tab, details, form>>

confirmDeleteFromList(o) == mode = "list" /\ o \in Listed(tab) /\ Ask(o)
\* Mutant of confirmDeleteFromDetail: the copy is kept, not what it is a copy of.
confirmDeleteCopy == mode = "detail" /\ FirstDetail # NoObject /\ Ask(FirstDetail)

confirmDeleteFromDetail  == mode = "detail" /\ FirstDetail # NoObject /\ Ask(FirstDetail.obj)

\* 'y': ignored while a mutation is in flight.
ConfirmYes ==
  /\ mode = "confirm"
  /\ confirm # NoObject
  /\ startMutate(Call("delete", confirm, "absent"))
  /\ confirm' = NoObject
  /\ mode' = "list"
  /\ UNCHANGED <<tab, details, form>>

\* 'n' and esc.
ConfirmNo ==
  /\ mode = "confirm"
  /\ confirm' = NoObject
  /\ mode' = "list"
  /\ Quietly
  /\ UNCHANGED <<tab, details, form>>

\* 'n': a form for a new object; 'e': one for a policy, the only kind that can be edited.
OpenForm(copy) ==
  /\ form' = copy
  /\ mode' = "form"
  /\ Quietly
  /\ UNCHANGED <<tab, details, confirm>>

openCreate == mode = "list" /\ OpenForm(NoObject)
openPolicyEdit(o) == mode = "list" /\ tab = "policy" /\ o \in Listed(tab) /\ OpenForm(Copy(o))
openEditFromDetail ==
  mode = "detail" /\ details["policy"] # NoObject /\ OpenForm(details["policy"])

\* esc in a form.
CancelForm ==
  /\ mode = "form"
  /\ mode' = "list"
  /\ form' = NoObject
  /\ Quietly
  /\ UNCHANGED <<tab, details, confirm>>

\* enter in a form whose fields are valid; the form stays until the reply.
submitForm ==
  /\ mode = "form"
  /\ \/ form = NoObject /\ \E o \in Objects : startMutate(Call("create", o, "on"))
     \/ form # NoObject /\ \E s \in {"on", "off"} : startMutate(Call("update", form.obj, s))
  /\ UNCHANGED screenVars

\* 't': sends the opposite of what is on the screen.
Toggle(c) == startMutate(Call("toggle", c.obj, Opposite(c.state))) /\ UNCHANGED screenVars
ToggleListed(o) == mode = "list" /\ tab = "policy" /\ o \in Listed(tab) /\ Toggle(Copy(o))
ToggleDetail == mode = "detail" /\ details["policy"] # NoObject /\ Toggle(details["policy"])

\* 'a' and 'A' apply; 'f' and 'p' change a setting, which is no listed object.
StartSetting ==
  /\ mode = "list"
  /\ \E op \in {"apply", "setting"} : startMutate(Call(op, NoObject, "on"))
  /\ UNCHANGED screenVars

Key ==
  \/ \E k \in Kinds : SelectTab(k) \/ toggleUIMode(k)
  \/ Refresh \/ ShowApply \/ CloseApply \/ CloseDetail
  \/ \E o \in Objects : \/ openDetailFromList(o) \/ confirmDeleteFromList(o)
                        \/ openPolicyEdit(o) \/ ToggleListed(o)
  \/ confirmDeleteFromDetail \/ ConfirmYes \/ ConfirmNo
  \/ openCreate \/ openEditFromDetail \/ CancelForm \/ submitForm
  \/ ToggleDetail \/ StartSetting

-----------------------------------------------------------------------------
(* The daemon *)

\* A created object is a new one; a call on an object that is gone is refused.
Targets(c) == IF c.op = "create" THEN {o \in Objects : server[o] = "absent"}
              ELSE {o \in Objects : o = c.obj /\ server[o] # "absent"}
IsSetting(c) == c.op \in {"apply", "setting"}
Possible(c)  == IsSetting(c) \/ Targets(c) # {}
Execute(c) ==
  IF IsSetting(c) THEN UNCHANGED <<server, version>>
  ELSE /\ version < MaxChanges
       /\ version' = version + 1
       /\ \E o \in Targets(c) : server' = [server EXCEPT ![o] = c.to]

Serve(c) ==
  /\ c \in requests
  /\ ~c.done
  /\ Possible(c)
  /\ Execute(c)
  /\ requests' = (requests \ {c}) \cup {[c EXCEPT !.done = TRUE]}
  /\ UNCHANGED <<late, shown, lastApply, screenVars, fetchVars, busy, errors>>

\* A call whose client has given up is executed all the same, or cancelled.
ServeLate(c) ==
  /\ c \in late
  /\ late' = late \ {c}
  /\ IF Possible(c) THEN Execute(c) \/ UNCHANGED <<server, version>>
                    ELSE UNCHANGED <<server, version>>
  /\ UNCHANGED <<shown, lastApply, screenVars, fetchVars, callVars, errors>>

OtherClient(o) ==
  /\ version < MaxChanges
  /\ version' = version + 1
  /\ \E s \in States \ {server[o]} : server' = [server EXCEPT ![o] = s]
  /\ UNCHANGED <<late, shown, lastApply, screenVars, fetchVars, callVars, errors>>

Becomes(f, g) ==
  /\ f \in fetches
  /\ fetches' = (fetches \ {f}) \cup {g}
  /\ UNCHANGED <<daemonVars, shown, lastApply, screenVars, fetching, fetchGen, callVars>>

\* The daemon locks its store for one list at a time, for the overview as well.
ReadList(f) ==
  /\ f.call # "failed"
  /\ f.read < Len(DetailOrder)
  /\ LET k == DetailOrder[f.read + 1]
     IN  Becomes(f, [f EXCEPT !.read = @ + 1, !.version = [@ EXCEPT ![k] = version],
                     !.objects = [o \in Objects |-> IF o.kind = k THEN server[o] ELSE @[o]]])
  /\ UNCHANGED errors

\* A single call that fails leaves its list empty, and is no error.
ListFails(f) ==
  /\ f.call = "lists"
  /\ f.read < Len(DetailOrder)
  /\ LET k == DetailOrder[f.read + 1]
     IN  Becomes(f, [f EXCEPT !.read = @ + 1, !.version = [@ EXCEPT ![k] = version]])
  /\ UNCHANGED errors

\* Mutant of OverviewFails: a fetch that fails sends no message.
FetchVanishes(f) ==
  /\ f \in fetches
  /\ f.call = "overview" /\ f.read = 0
  /\ errors < MaxErrors
  /\ errors' = errors + 1
  /\ fetches' = fetches \ {f}
  /\ UNCHANGED <<daemonVars, shown, lastApply, screenVars, fetching, fetchGen, callVars>>

\* The overview fails, at the latest when the twelve seconds are over: if the status
\* is answered the lists are asked for one by one, else the fetch has failed.  Reading
\* leaves no trace, so an overview that fails has read nothing.
OverviewFails(f) ==
  /\ f.call = "overview" /\ f.read = 0
  /\ errors < MaxErrors
  /\ errors' = errors + 1
  /\ \E next \in {"lists", "failed"} : Becomes(f, [NewFetch(f.gen) EXCEPT !.call = next])

Fetch(f) == ReadList(f) \/ ListFails(f) \/ OverviewFails(f)

-----------------------------------------------------------------------------
(* Update: messages *)

tickMsg ==
  /\ IF mode \in {"list", "detail"} THEN beginFetch ELSE UNCHANGED fetchVars
  /\ UNCHANGED <<daemonVars, shown, lastApply, screenVars, callVars, errors>>

\* refreshDetail: the first detail of a refreshed kind that is still listed.
Found(i, objects) ==
  /\ details[DetailOrder[i]] # NoObject
  /\ DetailOrder[i] \in Refreshed
  /\ objects[details[DetailOrder[i]].obj] # "absent"
refreshDetail(objects) ==
  LET found == {i \in DOMAIN DetailOrder : Found(i, objects)}
      k == DetailOrder[CHOOSE i \in found : \A j \in found : i <= j]
  IN  IF mode # "detail" \/ found = {} THEN details
      ELSE [details EXCEPT ![k] = [@ EXCEPT !.state = objects[details[k].obj]]]

\* Mutant of Accepted: the generation is not compared.
AcceptedAny(f) == Answered(f)

Accepted(f) == f.gen = fetchGen /\ Answered(f)

dataMsg(f) ==
  /\ f \in fetches
  /\ f.call = "failed" \/ Answered(f)
  /\ fetches' = fetches \ {f}
  /\ fetching' = FALSE
  /\ IF Accepted(f)
     THEN /\ shown' = [version |-> f.version, objects |-> f.objects]
          /\ lastApply' \in {lastApply, TRUE}
          /\ details' = refreshDetail(f.objects)
     ELSE UNCHANGED <<shown, lastApply, details>>
  /\ UNCHANGED <<daemonVars, mode, tab, confirm, form, fetchGen, callVars, errors>>

actionDoneMsg(c) ==
  /\ c \in requests
  /\ c.done
  /\ c.op # "apply"
  /\ requests' = requests \ {c}
  /\ busy' = FALSE
  /\ mode' = "list"
  /\ confirm' = NoObject
  /\ details' = Nothing
  /\ form' = NoObject
  /\ beginFetch
  /\ UNCHANGED <<daemonVars, shown, lastApply, tab, errors>>

applyDoneMsg(c) ==
  /\ c \in requests
  /\ c.done
  /\ c.op = "apply"
  /\ requests' = requests \ {c}
  /\ busy' = FALSE
  /\ mode' = "apply"
  /\ lastApply' = TRUE
  /\ form' = NoObject
  /\ beginFetch
  /\ UNCHANGED <<daemonVars, shown, tab, details, confirm, errors>>

\* The daemon refused ...
Refused(c) ==
  /\ c \in requests
  /\ ~c.done
  /\ ~Possible(c)
  /\ requests' = requests \ {c}
  /\ busy' = FALSE
  /\ UNCHANGED <<daemonVars, shown, lastApply, screenVars, fetchVars, errors>>

\* ... or the call failed or timed out, before, after or without its effect.
CallFails(c) ==
  /\ c \in requests
  /\ errors < MaxErrors
  /\ errors' = errors + 1
  /\ requests' = requests \ {c}
  /\ busy' = FALSE
  /\ late' = IF c.done \/ IsSetting(c) THEN late ELSE late \cup {c}
  /\ UNCHANGED <<server, version, shown, lastApply, screenVars, fetchVars>>

\* Init fetches with generation 0 and does not set fetching.
Init ==
  /\ server \in [Objects -> {"absent", "on"}]
  /\ version = 0
  /\ late = {}
  /\ shown = [version |-> [k \in Kinds |-> 0], objects |-> [o \in Objects |-> "absent"]]
  /\ lastApply = FALSE
  /\ mode = "list"
  /\ tab \in Kinds
  /\ details = Nothing
  /\ confirm = NoObject
  /\ form = NoObject
  /\ busy = FALSE
  /\ requests = {}
  /\ fetching = FALSE
  /\ fetchGen = 0
  /\ fetches = {NewFetch(0)}
  /\ errors = 0

Daemon == \/ \E c \in requests : Serve(c)
          \/ \E f \in fetches : ReadList(f)

Message == \/ \E f \in fetches : dataMsg(f)
           \/ \E c \in requests : actionDoneMsg(c) \/ applyDoneMsg(c) \/ Refused(c)

Next ==
  \/ Key
  \/ Daemon
  \/ Message
  \/ tickMsg
  \/ \E c \in late : ServeLate(c)
  \/ \E o \in Shared : OtherClient(o)
  \/ \E f \in fetches : ListFails(f) \/ OverviewFails(f)
  \/ \E c \in requests : CallFails(c)

Spec == Init /\ [][Next]_vars

(* Every fetch comes to an answer or to its time-out, and Bubble Tea delivers *)
(* its message.  Nothing else has to happen: the user may stop typing, and a  *)
(* mutation may hang.                                                         *)
Fairness ==
  \A g \in 0..(Span - 1) :
    /\ WF_vars(\E f \in fetches : f.gen = g /\ Fetch(f))
    /\ WF_vars(\E f \in fetches : f.gen = g /\ dataMsg(f))

FairSpec == Spec /\ Fairness
-----------------------------------------------------------------------------
(* Properties *)

Copies  == [obj : Objects, state : States] \cup {NoObject}
Data    == [version : [Kinds -> Nat], objects : [Objects -> States]]
Fetches == [gen : 0..(Span - 1), call : {"overview", "lists", "failed"}, read : 0..Len(DetailOrder),
            version : [Kinds -> Nat], objects : [Objects -> States]]
Calls   == [op : {"create", "update", "toggle", "delete", "apply", "setting"},
            obj : Objects \cup {NoObject}, to : States, done : BOOLEAN]

\* Every variable has its type.
TypeOK ==
  /\ server \in [Objects -> States] /\ version \in Nat
  /\ shown \in Data /\ lastApply \in BOOLEAN
  /\ mode \in {"list", "form", "detail", "confirm", "apply"} /\ tab \in Kinds
  /\ details \in [Kinds -> Copies] /\ form \in Copies
  /\ confirm \in Objects \cup {NoObject}
  /\ late \subseteq Calls
  /\ busy \in BOOLEAN /\ requests \subseteq Calls
  /\ fetching \in BOOLEAN /\ fetchGen \in 0..(Span - 1)
  /\ fetches \subseteq Fetches
  /\ errors \in 0..MaxErrors

\* At most one mutation awaits its reply, and busy says whether one does: no reply, not
\* even a failure or a time-out, is credited to another mutation (model_root.go:168-174).
OneMutation == Cardinality(requests) = (IF busy THEN 1 ELSE 0)

\* While fetching is set, the newest fetch is still to be handled: nothing but its own
\* reply, or an older one, can find the flag set (model_root.go:217).
FetchingMeansPending == fetching => \E f \in fetches : f.gen = fetchGen

\* No list on the screen is replaced by an older state of it, although the first fetch is
\* untracked, replies overtake each other and a reply is put together from lists read at
\* different times (model_root.go:218-220).  A list whose single call failed is replaced by
\* an empty one (commands.go:75-107), which counts as of the time of that call.
NewestSnapshotWins == [][\A k \in Kinds : shown'.version[k] >= shown.version[k]]_shown

\* The flag never sticks: some reply, a failure included, clears it (model_root.go:217).
FetchNeverSticks == fetching ~> ~fetching
=============================================================================

----------------------------- MODULE Reconciler -----------------------------
(***************************************************************************)
(* What netpolicyd promises about its reconciliation, without threads,     *)
(* locks or handlers: desired objects are written at any time; at most one *)
(* plan is in force; a plan is one snapshot of the desired objects; only   *)
(* the plan in force programs the kernel, collection by collection, and    *)
(* only with what the plan says; a restart forgets the plan and starts     *)
(* from an empty store.  ApplyServer is shown to implement this module.    *)
(*                                                                         *)
(* The content of a collection is identified by the number of the write    *)
(* that produced it, so "newer" is "greater".                              *)
(***************************************************************************)
EXTENDS Naturals

CONSTANT Collections  \* collections of desired objects

VARIABLES desired,  \* desired[c]: content of collection c in the store
          active,   \* an apply is in force
          plan,     \* the snapshot it applies (Nothing when there is none)
          kernel    \* kernel[c]: content of c last programmed on the host

vars == <<desired, active, plan, kernel>>

Content == [Collections -> Nat]
Nothing == [c \in Collections |-> 0]

Init ==
  /\ desired = Nothing
  /\ active  = FALSE
  /\ plan    = Nothing
  /\ kernel  = Nothing

\* A write replaces the content of a collection by a newer one.
Write(c) ==
  /\ desired' \in Content
  /\ desired'[c] > desired[c]
  /\ \A d \in Collections \ {c} : desired'[d] = desired[d]
  /\ UNCHANGED <<active, plan, kernel>>

\* An apply starts from the objects as they are now.
Begin ==
  /\ ~active
  /\ active' = TRUE
  /\ plan' = desired
  /\ UNCHANGED <<desired, kernel>>

\* The plan in force programs one collection.
Program(c) ==
  /\ active
  /\ kernel' = [kernel EXCEPT ![c] = plan[c]]
  /\ UNCHANGED <<desired, active, plan>>

End ==
  /\ active
  /\ active' = FALSE
  /\ plan' = Nothing
  /\ UNCHANGED <<desired, kernel>>

\* The daemon restarts with an empty store, which counts as a new content of
\* every collection; the kernel keeps what it had.
Restart ==
  /\ desired' \in Content
  /\ \A c, d \in Collections : desired'[c] > desired[d]
  /\ active' = FALSE
  /\ plan' = Nothing
  /\ UNCHANGED kernel

Next ==
  \/ \E c \in Collections : Write(c) \/ Program(c)
  \/ Begin
  \/ End
  \/ Restart

Spec == Init /\ [][Next]_vars
=============================================================================

---------------------------- MODULE ServiceLife ----------------------------
(***************************************************************************)
(* What the broker promises about one service instance and its bindings    *)
(* when requests come one at a time: an operation is asked for, a bundle   *)
(* works on it or fails, and at some time it is over.  A record is made    *)
(* before there is anything to undo and is forgotten only once everything  *)
(* has been undone.                                                        *)
(***************************************************************************)
CONSTANTS
  Instance,    \* the id of the service instance
  Bindings     \* the ids its bindings may have

Ids == {Instance} \union Bindings
Kinds == {"provision", "update", "deprovision", "bind", "unbind"}
Nothing == [op |-> "none", id |-> Instance]

VARIABLES
  exists,   \* the ids the broker has a record of
  task,     \* the operation under way, and what it is about
  work,     \* how its bundle fared
  bundled   \* whether bind and unbind run bundles

vars == <<exists, task, work, bundled>>

Init ==
  /\ exists \in SUBSET Ids
  /\ task = Nothing
  /\ work = "none"
  /\ bundled \in BOOLEAN

\* An operation is asked for: of an instance, or of a binding.
Ask ==
  /\ task = Nothing
  /\ \E op \in Kinds, id \in Ids :
       /\ id = Instance <=> op \in {"provision", "update", "deprovision"}
       /\ task' = [op |-> op, id |-> id]
  /\ work' = "none"
  /\ UNCHANGED <<exists, bundled>>

\* Its bundle has run.
Work ==
  /\ task # Nothing
  /\ work = "none"
  /\ work' \in {"succeeded", "failed"}
  /\ UNCHANGED <<exists, task, bundled>>

\* The record is made before the bundle runs.
Create ==
  /\ task.op \in {"provision", "bind"}
  /\ work = "none"
  /\ task.id \notin exists
  /\ exists' = exists \union {task.id}
  /\ UNCHANGED <<task, work, bundled>>

\* It is forgotten after the bundle has succeeded.
Forget ==
  /\ task.op \in {"deprovision", "unbind"}
  /\ work = "succeeded" \/ (task.op = "unbind" /\ ~bundled)
  /\ exists' = exists \ {task.id}
  /\ UNCHANGED <<task, work, bundled>>

End ==
  /\ task # Nothing
  /\ task' = Nothing
  /\ work' = "none"
  /\ UNCHANGED <<exists, bundled>>

Next == Ask \/ Work \/ Create \/ Forget \/ End

\* Whatever is asked for comes to an end.
Spec == Init /\ [][Next]_vars /\ ((task # Nothing) ~> (task = Nothing))
=============================================================================

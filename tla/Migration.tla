----------------------------- MODULE Migration -----------------------------
(***************************************************************************)
(* The migration from the etcd store to CRDs (cmd/migration/main.go).  One *)
(* run copies the kinds of records one after the other: specs, instances,  *)
(* bindings, job states, the credentials of instances, those of bindings.  *)
(* When a step fails it deletes what it has saved, the last kind first,    *)
(* and gives up; when that fails too it gives up at once.  It may die      *)
(* anywhere and may be run again, whatever the earlier runs left.          *)
(*                                                                         *)
(* Every call to the API server is a step.                                 *)
(***************************************************************************)
EXTENDS Naturals

CONSTANTS
  Specs,
  Instances,
  Bindings,
  SpecOf,      \* SpecOf[i]: the spec of instance i
  InstanceOf,  \* InstanceOf[b]: the instance binding b is of
  MaxFaults,   \* bound: how many calls fail that need not
  MaxCrashes,  \* bound: how often a run dies
  MaxRuns,     \* bound: how often the migration is run
  KeptJobs     \* the job states etcd may hold

Owners == Instances \union Bindings
BindMethods == {"bind", "unbind"}
Methods == {"provision", "update", "deprovision"} \union BindMethods

\* A job state is that of a job with the method, kept under the owner's id.
Jobs == {"job"} \X Owners \X Methods
Records ==
  ({"spec"} \X Specs) \union ({"instance"} \X Instances)
    \union ({"binding"} \X Bindings) \union ({"secret"} \X Owners)
    \union Jobs

ASSUME MigrationAssumption ==
  /\ Instances \intersect Bindings = {}
  /\ SpecOf \in [Instances -> Specs]
  /\ InstanceOf \in [Bindings -> Instances]
  /\ KeptJobs \subseteq Jobs
  /\ MaxFaults \in Nat /\ MaxCrashes \in Nat /\ MaxRuns \in Nat

Bundle(s) == <<"spec", s>>
Inst(i) == <<"instance", i>>
Bind(b) == <<"binding", b>>
Secret(o) == <<"secret", o>>
Of(kind, records) == {x \in records : x[1] = kind}

Steps == {"spec", "instance", "binding", "job", "instance secret", "binding secret"}
Undos == {"undo secret", "undo binding", "undo instance", "undo spec"}
Rests == {"idle", "done", "failed", "panicked", "died"}

VARIABLES
  etcd,     \* the records of the etcd store, which the migration only reads
  crd,      \* the objects and secrets of the API server
  phase,    \* the loop the run is in, or how the last one ended
  todo,     \* what the loop has still to copy
  saved,    \* what the run has saved
  clean,    \* the run began without any objects and no call of it took effect
            \* that was answered with an error
  excused,  \* a call failed in this run that need not
  faults, crashes, runs

bounds == <<faults, crashes, runs>>
vars == <<etcd, crd, phase, todo, saved, clean, excused, bounds>>

TypeOK ==
  /\ etcd \subseteq Records
  /\ crd \subseteq Records
  /\ phase \in Steps \union Undos \union Rests
  /\ todo \subseteq Records
  /\ saved \subseteq crd
  /\ clean \in BOOLEAN
  /\ excused \in BOOLEAN
  /\ faults \in 0 .. MaxFaults
  /\ crashes \in 0 .. MaxCrashes
  /\ runs \in 0 .. MaxRuns

\* etcd holds the job states and credentials of what it has records of.  Specs
\* may have left the catalogue, and instances been removed before bindings.
Init ==
  /\ \E S \in SUBSET Specs, I \in SUBSET Instances, B \in SUBSET Bindings :
     \E J \in SUBSET {x \in KeptJobs : x[2] \in I \union B}, C \in SUBSET (I \union B) :
       etcd = ({"spec"} \X S) \union ({"instance"} \X I) \union ({"binding"} \X B)
                \union J \union ({"secret"} \X C)
  /\ crd = {}
  /\ phase = "idle"
  /\ todo = {}
  /\ saved = {}
  /\ clean = TRUE
  /\ excused = FALSE
  /\ faults = 0 /\ crashes = 0 /\ runs = 0

-----------------------------------------------------------------------------
(* The loops.                                                              *)

Begin ==
  /\ phase \in Rests
  /\ runs < MaxRuns
  /\ runs' = runs + 1
  /\ phase' = "spec"
  /\ todo' = Of("spec", etcd)
  /\ saved' = {}
  /\ clean' = (crd = {})
  /\ excused' = FALSE
  /\ UNCHANGED <<etcd, crd, faults, crashes>>

\* A plausible slip: the credentials of bindings are left where they are.
WithoutBindingSecrets(p) ==
  CASE p = "spec" -> "instance"
    [] p = "instance" -> "binding"
    [] p = "binding" -> "job"
    [] p = "job" -> "instance secret"
    [] p \in {"instance secret", "binding secret"} -> "done"

After(p) ==
  CASE p = "spec" -> "instance"
    [] p = "instance" -> "binding"
    [] p = "binding" -> "job"
    [] p = "job" -> "instance secret"
    [] p = "instance secret" -> "binding secret"
    [] p = "binding secret" -> "done"

\* What a loop goes over: records of etcd, the states of the jobs of saved
\* instances (not those of bindings), the saved instances, the saved bindings.
Source(p) ==
  CASE p \in {"instance", "binding"} -> Of(p, etcd)
    [] p = "job" -> {x \in Of("job", etcd) : Inst(x[2]) \in saved}
    [] p = "instance secret" -> Of("instance", saved)
    [] p = "binding secret" -> Of("binding", saved)
    [] OTHER -> {}

NextLoop ==
  /\ phase \in Steps
  /\ todo = {}
  /\ phase' = After(phase)
  /\ todo' = Source(After(phase))
  /\ UNCHANGED <<etcd, crd, saved, clean, excused, bounds>>

Goes(x) == /\ todo' = todo \ {x}
           /\ UNCHANGED <<etcd, phase, clean, excused, bounds>>

Saves(x) == /\ crd' = crd \union {x}
            /\ saved' = saved \union {x}

\* The run reverts what it has saved.
Reverts ==
  /\ phase' = "undo secret"
  /\ todo' = {}
  /\ UNCHANGED <<etcd, saved, bounds>>

\* What the step that copies x would be refused for, each time.
\*   SetState of a bind or unbind looks for a BundleBinding: instances are none.
\*   A binding without credentials, its own or its instance's.
\*   A secret is created, which fails when it is there.
HasSecret(o) == Secret(o) \in etcd

NoSuchBinding(x) == phase = "job" /\ x[3] \in BindMethods

\* A plausible slip: a binding does without the credentials of its instance.
OwnCredentials(x) == phase = "binding secret" /\ ~HasSecret(x[2])

NoCredentials(x) == phase = "binding secret" /\ ~HasSecret(x[2]) /\ ~HasSecret(InstanceOf[x[2]])

\* An instance without credentials is passed over.
NothingToSave(x) == phase = "instance secret" /\ ~HasSecret(x[2])

SecretThere(x) ==
  /\ phase \in {"instance secret", "binding secret"}
  /\ ~NothingToSave(x)
  /\ Secret(x[2]) \in crd

Refused(x) == NoSuchBinding(x) \/ NoCredentials(x) \/ SecretThere(x)

\* What the step that copies x writes.
Written(x) == IF phase \in {"instance secret", "binding secret"} THEN Secret(x[2]) ELSE x

\* SetSpec, SetServiceInstance and SetBindInstance update what is there.
Copy(x) ==
  /\ phase \in {"spec", "instance", "binding"}
  /\ Saves(x)
  /\ Goes(x)

\* A plausible slip: job states are remembered as saved.
CopyJobToRevert(x) ==
  /\ phase = "job"
  /\ ~Refused(x)
  /\ Saves(x)
  /\ Goes(x)

\* No job state is remembered as saved: it goes with its instance.
CopyJob(x) ==
  /\ phase = "job"
  /\ ~Refused(x)
  /\ crd' = crd \union {x}
  /\ UNCHANGED saved
  /\ Goes(x)

PassOver(x) ==
  /\ NothingToSave(x)
  /\ UNCHANGED <<crd, saved>>
  /\ Goes(x)

CopySecret(x) ==
  /\ phase \in {"instance secret", "binding secret"}
  /\ ~NothingToSave(x)
  /\ ~Refused(x)
  /\ Saves(Written(x))
  /\ Goes(x)

CopyRefused(x) ==
  /\ Refused(x)
  /\ Reverts
  /\ UNCHANGED <<crd, clean, excused>>

\* A read or write fails that need not.  The write may have taken effect all the
\* same; it is not among what the run has saved.
CallFails ==
  /\ phase \in Steps
  /\ faults < MaxFaults
  /\ faults' = faults + 1
  /\ excused' = TRUE
  /\ \/ UNCHANGED <<crd, clean>>
     \/ /\ \E x \in todo :
             /\ ~Refused(x)
             /\ ~NothingToSave(x)
             /\ crd' = crd \union {Written(x)}
        /\ clean' = FALSE
  /\ phase' = "undo secret"
  /\ todo' = {}
  /\ UNCHANGED <<etcd, saved, crashes, runs>>

-----------------------------------------------------------------------------
(* The reverts.                                                            *)

\* A plausible slip: the reverts go in the order of the loops.
SameOrder(p) ==
  CASE p = "undo secret" -> "undo spec"
    [] p = "undo spec" -> "undo instance"
    [] p = "undo instance" -> "undo binding"
    [] p = "undo binding" -> "failed"

\* A plausible slip: bindings are not reverted.
ForgetsBindings(p) ==
  CASE p \in {"undo secret", "undo binding"} -> "undo instance"
    [] p = "undo instance" -> "undo spec"
    [] p = "undo spec" -> "failed"

AfterUndo(p) ==
  CASE p = "undo secret" -> "undo binding"
    [] p = "undo binding" -> "undo instance"
    [] p = "undo instance" -> "undo spec"
    [] p = "undo spec" -> "failed"

ToUndo ==
  CASE phase = "undo secret" -> Of("secret", saved)
    [] phase = "undo binding" -> Of("binding", saved)
    [] phase = "undo instance" -> Of("instance", saved)
    [] phase = "undo spec" -> Of("spec", saved)
    [] OTHER -> {}

\* The object and the job states in it.
Within(x) == {x} \union {y \in Of("job", crd) : x = Inst(y[2])}

Undo(x) ==
  /\ crd' = crd \ Within(x)
  /\ saved' = saved \ {x}
  /\ UNCHANGED <<etcd, phase, todo, clean, excused, bounds>>

NextUndo ==
  /\ phase \in Undos
  /\ ToUndo = {}
  /\ phase' = AfterUndo(phase)
  /\ UNCHANGED <<etcd, crd, todo, saved, clean, excused, bounds>>

\* "revert failed": the rest stays.
UndoFails ==
  /\ ToUndo # {}
  /\ faults < MaxFaults
  /\ faults' = faults + 1
  /\ phase' = "panicked"
  /\ UNCHANGED <<etcd, crd, todo, saved, clean, excused, crashes, runs>>

Die ==
  /\ phase \in Steps \union Undos
  /\ crashes < MaxCrashes
  /\ crashes' = crashes + 1
  /\ phase' = "died"
  /\ todo' = {}
  /\ UNCHANGED <<etcd, crd, saved, clean, excused, faults, runs>>

-----------------------------------------------------------------------------
Step ==
  \/ NextLoop \/ NextUndo
  \/ \E x \in todo : Copy(x) \/ CopyJob(x) \/ PassOver(x) \/ CopySecret(x) \/ CopyRefused(x)
  \/ \E x \in ToUndo : Undo(x)

Next == Begin \/ Step \/ CallFails \/ UndoFails \/ Die

\* A run that has begun goes on.  Nobody need run the migration, or run it again.
Spec == Init /\ [][Next]_vars /\ WF_vars(Step)

-----------------------------------------------------------------------------
(* Properties.                                                             *)

\* When a run reports success everything it set out to copy is there, also after
\* runs that died or could not revert: every spec, instance and binding, the job
\* states of the instances, and credentials for every binding and for every
\* instance that had some.
Complete ==
  phase = "done" =>
    /\ \A kind \in {"spec", "instance", "binding"} : Of(kind, etcd) \subseteq crd
    /\ \A x \in Of("job", etcd) : Inst(x[2]) \in etcd => x \in crd
    /\ \A x \in Of("binding", etcd) : Secret(x[2]) \in crd
    /\ \A x \in Of("instance", etcd) : HasSecret(x[2]) => Secret(x[2]) \in crd

\* A run that began on an empty store and reports that it has reverted leaves
\* nothing behind, unless a call took effect that was answered with an error.
NothingLeft == phase = "failed" /\ clean => crd = {}

\* In a run that began on an empty store, in its revert, and after it died in
\* the middle of either, there is at no time an instance without its spec or a
\* binding without its instance, if etcd has them, or a job state without its
\* instance.  (A run on what another left reverts a spec it found there, and
\* leaves the instances of it that it had not come to.)
NoOrphans ==
  clean =>
    /\ \A i \in Instances :
         Inst(i) \in crd /\ Bundle(SpecOf[i]) \in etcd => Bundle(SpecOf[i]) \in crd
    /\ \A b \in Bindings :
         Bind(b) \in crd /\ Inst(InstanceOf[b]) \in etcd => Inst(InstanceOf[b]) \in crd
    /\ \A x \in Of("job", crd) : Inst(x[2]) \in crd

\* etcd holds nothing the migration refuses.
Convertible ==
  /\ \A x \in Of("binding", etcd) : HasSecret(x[2]) \/ HasSecret(InstanceOf[x[2]])
  /\ \A x \in Of("job", etcd) : Inst(x[2]) \in etcd => x[3] \notin BindMethods

\* What earlier runs left behind does not stop the next, unless it is credentials:
\* a run that finds none, and whose calls go well, succeeds.
SucceedsAgain ==
  (phase = "spec" /\ Of("secret", crd) = {} /\ Convertible)
    ~> (phase = "done" \/ phase = "died" \/ excused)
-----------------------------------------------------------------------------
(* The inductive invariant.                                                *)

\* The phases from a loop on.
FromBindingSecrets == {"binding secret", "done"}
FromSecrets == {"instance secret"} \union FromBindingSecrets
FromJobs == {"job"} \union FromSecrets
FromBindings == {"binding"} \union FromJobs
FromInstances == {"instance"} \union FromBindings
FromSpecs == {"spec"} \union FromInstances

\* A loop has still to copy some of what it goes over.
InLoop ==
  /\ phase = "spec" => todo \subseteq Of("spec", etcd)
  /\ phase # "spec" => todo \subseteq Source(phase)

\* What is saved are records of etcd, except job states, and credentials.
SavedKinds == \A x \in saved : x[1] = "secret" \/ (x \in etcd /\ x[1] # "job")

\* What the loops have gone over is there.
Copied ==
  /\ phase \in FromSpecs => Of("spec", etcd) \subseteq saved \union todo
  /\ phase \in FromInstances => Of("instance", etcd) \subseteq saved \union todo
  /\ phase \in FromBindings => Of("binding", etcd) \subseteq saved \union todo
  /\ phase \in FromJobs =>
       \A x \in Of("job", etcd) : Inst(x[2]) \in saved => x \in crd \union todo
  /\ phase \in FromSecrets =>
       \A x \in Of("instance", saved) : HasSecret(x[2]) => Secret(x[2]) \in crd \/ x \in todo
  /\ phase \in FromBindingSecrets =>
       \A x \in Of("binding", saved) : Secret(x[2]) \in crd \/ x \in todo

\* No instance is saved before all specs are, no binding before all instances;
\* nor, in the reverts, after one is gone.
InOrder ==
  /\ phase = "spec" => Of("instance", saved) = {}
  /\ phase \in {"spec", "instance"} => Of("binding", saved) = {}
  /\ Of("instance", saved) = {} \/ Of("spec", etcd) \subseteq saved
  /\ Of("binding", saved) = {} \/ Of("instance", etcd) \subseteq saved

\* What the reverts have gone over is no longer among what is saved.
Reverted ==
  /\ phase \in {"undo binding", "undo instance", "undo spec", "failed"} => Of("secret", saved) = {}
  /\ phase \in {"undo instance", "undo spec", "failed"} => Of("binding", saved) = {}
  /\ phase \in {"undo spec", "failed"} => Of("instance", saved) = {}
  /\ phase = "failed" => Of("spec", saved) = {}

\* What is there was saved by this run, or is the state of a job of what was.
OnlySaved ==
  clean => \A x \in crd : x \in saved \/ (x[1] = "job" /\ Inst(x[2]) \in saved)

IInv ==
  /\ TypeOK /\ InLoop /\ SavedKinds
  /\ Copied /\ InOrder /\ Reverted /\ OnlySaved
=============================================================================

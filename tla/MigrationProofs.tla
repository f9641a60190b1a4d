-------------------------- MODULE MigrationProofs --------------------------
(***************************************************************************)
(* Theorems about the migration, for any records, any number of runs, of   *)
(* calls that fail and of deaths.                                          *)
(***************************************************************************)
EXTENDS Migration, TLAPS

USE MigrationAssumption

\* What a loop has still to copy has its kind, and is a record.
LEMMA KindOfTodo ==
  ASSUME TypeOK, InLoop, SavedKinds, NEW x \in todo
  PROVE  /\ x \in Records /\ x \in etcd
         /\ phase = "spec" => x[1] = "spec"
         /\ phase = "instance" => x[1] = "instance"
         /\ phase = "binding" => x[1] = "binding"
         /\ phase = "job" => x[1] = "job" /\ Inst(x[2]) \in saved
         /\ phase = "instance secret" => x[1] = "instance" /\ x \in saved
         /\ phase = "binding secret" => x[1] = "binding" /\ x \in saved
         /\ phase \in Steps
<1> USE DEF TypeOK, InLoop, SavedKinds, Source, Of, Steps
<1>1. CASE phase = "spec"
  BY <1>1
<1>2. CASE phase = "instance" \/ phase = "binding"
  BY <1>2
<1>3. CASE phase = "job"
  BY <1>3
<1>4. CASE phase = "instance secret" \/ phase = "binding secret"
  BY <1>4
<1>5. CASE phase \notin Steps
  BY <1>5
<1>6. QED
  BY <1>1, <1>2, <1>3, <1>4, <1>5

\* What a step writes is a record, credentials in the loops over credentials.
LEMMA TypeOfWritten ==
  ASSUME TypeOK, InLoop, SavedKinds, NEW x \in todo
  PROVE  Written(x) \in Records
<1>1. CASE phase \in {"instance secret", "binding secret"}
  <2>1. x[2] \in Owners
    BY <1>1, KindOfTodo DEF Records, Owners, Jobs
  <2>2. QED
    BY <1>1, <2>1 DEF Written, Secret, Records
<1>2. CASE phase \notin {"instance secret", "binding secret"}
  BY <1>2, KindOfTodo DEF Written
<1>3. QED
  BY <1>1, <1>2

\* What a revert has still to undo is saved, is no job state, and is of the kind.
LEMMA KindOfToUndo ==
  ASSUME TypeOK, SavedKinds, NEW x \in ToUndo
  PROVE  /\ x \in saved /\ x[1] # "job"
         /\ phase = "undo secret" => x[1] = "secret"
         /\ phase = "undo binding" => x[1] = "binding"
         /\ phase = "undo instance" => x[1] = "instance"
         /\ phase = "undo spec" => x[1] = "spec"
         /\ phase \in Undos
<1> USE DEF SavedKinds, ToUndo, Of, Undos
<1>1. CASE phase = "undo secret"
  BY <1>1
<1>2. CASE phase = "undo binding"
  BY <1>2
<1>3. CASE phase = "undo instance"
  BY <1>3
<1>4. CASE phase = "undo spec"
  BY <1>4
<1>5. CASE phase \notin Undos
  BY <1>5
<1>6. QED
  BY <1>1, <1>2, <1>3, <1>4, <1>5
\* A revert that has gone over its kind leaves none of it saved.
LEMMA NothingToUndo ==
  ASSUME ToUndo = {}, phase \in Undos
  PROVE  /\ phase = "undo secret" => Of("secret", saved) = {}
         /\ phase = "undo binding" => Of("binding", saved) = {}
         /\ phase = "undo instance" => Of("instance", saved) = {}
         /\ phase = "undo spec" => Of("spec", saved) = {}
BY DEF ToUndo

\* Where the loops and the reverts go next.
LEMMA Sequence ==
  /\ phase \in Steps =>
       /\ After(phase) \in Steps \union {"done"} /\ After(phase) # "spec"
       /\ After(phase) = "instance" <=> phase = "spec"
       /\ After(phase) = "binding" <=> phase = "instance"
       /\ After(phase) = "job" <=> phase = "binding"
       /\ After(phase) = "instance secret" <=> phase = "job"
       /\ After(phase) = "binding secret" <=> phase = "instance secret"
       /\ After(phase) = "done" <=> phase = "binding secret"
  /\ phase \in Undos =>
       /\ AfterUndo(phase) \in Undos \union {"failed"} /\ AfterUndo(phase) # "undo secret"
       /\ AfterUndo(phase) = "undo binding" <=> phase = "undo secret"
       /\ AfterUndo(phase) = "undo instance" <=> phase = "undo binding"
       /\ AfterUndo(phase) = "undo spec" <=> phase = "undo instance"
       /\ AfterUndo(phase) = "failed" <=> phase = "undo spec"
BY DEF After, AfterUndo, Steps, Undos

\* What any step of a run is.
LEMMA Cases ==
  ASSUME [Next]_vars
  PROVE  \/ Begin \/ NextLoop \/ NextUndo \/ CallFails \/ UndoFails \/ Die \/ UNCHANGED vars
         \/ \E x \in todo : Copy(x) \/ CopyJob(x) \/ PassOver(x) \/ CopySecret(x) \/ CopyRefused(x)
         \/ \E x \in ToUndo : Undo(x)
BY DEF Next, Step

\* The counters stay within their bounds.
LEMMA CounterStep ==
  ASSUME TypeOK, [Next]_vars
  PROVE  faults' \in 0 .. MaxFaults /\ crashes' \in 0 .. MaxCrashes /\ runs' \in 0 .. MaxRuns
<1>1. /\ faults' = faults \/ (faults < MaxFaults /\ faults' = faults + 1)
      /\ crashes' = crashes \/ (crashes < MaxCrashes /\ crashes' = crashes + 1)
      /\ runs' = runs \/ (runs < MaxRuns /\ runs' = runs + 1)
  BY Cases DEF Begin, NextLoop, NextUndo, CallFails, UndoFails, Die, Copy, CopyJob, PassOver,
               CopySecret, CopyRefused, Reverts, Goes, Undo, vars, bounds
<1>2. QED
  BY <1>1 DEF TypeOK

\* Every step keeps the types.
LEMMA TypeStep ==
  ASSUME TypeOK, InLoop, SavedKinds, [Next]_vars
  PROVE  TypeOK'
<1> USE DEF TypeOK, bounds
<1>0. /\ Steps \subseteq Steps \union Undos \union Rests
      /\ {"undo secret", "panicked", "died", "spec", "done", "failed"}
           \subseteq Steps \union Undos \union Rests
  BY DEF Steps, Undos, Rests
<1>1. CASE Begin
  BY <1>0, <1>1, CounterStep, Zenon DEF Begin, Of
<1>2. CASE NextLoop
  <2>1. Source(After(phase)) \subseteq etcd \union saved
    BY DEF Source, Of
  <2>2. QED
    BY <1>0, <1>2, <2>1, Sequence DEF NextLoop
<1>3. CASE NextUndo
  BY <1>0, <1>3, Sequence DEF NextUndo
<1>4. CASE CallFails
  <2>1. crd' \subseteq Records /\ saved' \subseteq crd' /\ clean' \in BOOLEAN
    BY <1>4, TypeOfWritten DEF CallFails
  <2>2. QED
    BY <1>0, <1>4, <2>1, CounterStep, Zenon DEF CallFails
<1>5. CASE UndoFails
  BY <1>0, <1>5, CounterStep, Zenon DEF UndoFails
<1>6. CASE Die
  BY <1>0, <1>6, CounterStep, Zenon DEF Die
<1>7. ASSUME NEW x \in todo, Copy(x)
      PROVE  TypeOK'
  BY <1>7 DEF Copy, Saves, Goes
<1>8. ASSUME NEW x \in todo, CopyJob(x)
      PROVE  TypeOK'
  BY <1>8 DEF CopyJob, Goes
<1>9. ASSUME NEW x \in todo, PassOver(x)
      PROVE  TypeOK'
  BY <1>9 DEF PassOver, Goes
<1>10. ASSUME NEW x \in todo, CopySecret(x)
       PROVE  TypeOK'
  BY <1>10, TypeOfWritten DEF CopySecret, Saves, Goes
<1>11. ASSUME NEW x \in todo, CopyRefused(x)
       PROVE  TypeOK'
  BY <1>0, <1>11 DEF CopyRefused, Reverts
<1>12. ASSUME NEW x \in ToUndo, Undo(x)
       PROVE  TypeOK'
  <2>1. saved' \subseteq crd'
    BY <1>12, KindOfToUndo DEF Undo, Within, SavedKinds, Of
  <2>2. QED
    BY <1>12, <2>1 DEF Undo
<1>13. CASE UNCHANGED vars
  BY <1>13 DEF vars
<1>14. QED
  BY <1>1, <1>2, <1>3, <1>4, <1>5, <1>6, <1>7, <1>8, <1>9, <1>10, <1>11, <1>12, <1>13, Cases

\* A loop goes on with what is left of what it goes over, the next begins with all of it.
LEMMA InLoopStep ==
  ASSUME TypeOK, InLoop, SavedKinds, [Next]_vars
  PROVE  InLoop'
<1> USE DEF InLoop
<1>1. CASE Begin
  BY <1>1 DEF Begin, Of
<1>2. CASE NextLoop
  BY <1>2, Sequence DEF NextLoop, Source, Of
<1>3. CASE NextUndo
  <2>1. phase \notin {"instance", "binding", "job", "instance secret", "binding secret", "spec"}
    BY <1>3 DEF NextUndo, Undos
  <2>2. todo = {}
    BY <2>1 DEF Source
  <2>3. QED
    BY <1>3, <2>2, Sequence DEF NextUndo, Undos
<1>4. CASE CallFails \/ Die
  BY <1>4 DEF CallFails, Die
<1>5. CASE UndoFails
  <2>1. phase \in Undos
    BY <1>5, KindOfToUndo DEF UndoFails
  <2>2. todo = {}
    BY <2>1 DEF Source, Undos
  <2>3. QED
    BY <1>5, <2>2 DEF UndoFails
<1>6. ASSUME NEW x \in todo, Copy(x) \/ CopyJob(x) \/ PassOver(x) \/ CopySecret(x)
      PROVE  InLoop'
  <2>1. todo' \subseteq todo /\ UNCHANGED <<phase, etcd>> /\ saved \subseteq saved'
    BY <1>6 DEF Copy, CopyJob, PassOver, CopySecret, Saves, Goes
  <2>2. Source(phase) \subseteq Source(phase)'
    BY <2>1 DEF Source, Of
  <2>3. QED
    BY <2>1, <2>2
<1>7. ASSUME NEW x \in todo, CopyRefused(x)
      PROVE  InLoop'
  BY <1>7 DEF CopyRefused, Reverts
<1>8. ASSUME NEW x \in ToUndo, Undo(x)
      PROVE  InLoop'
  <2>1. phase \in Undos
    BY <1>8, KindOfToUndo
  <2>2. todo = {}
    BY <2>1 DEF Source, Undos
  <2>3. QED
    BY <1>8, <2>1, <2>2 DEF Undo, Undos
<1>9. CASE UNCHANGED vars
  BY <1>9 DEF vars, Source
<1>10. QED
  BY <1>1, <1>2, <1>3, <1>4, <1>5, <1>6, <1>7, <1>8, <1>9, Cases
\* Credentials are no other kind, and an instance or a binding is none.
LEMMA Kinds ==
  /\ \A o : Secret(o)[1] = "secret" /\ Inst(o)[1] = "instance"
  /\ \A o, p : Secret(o) = Secret(p) => o = p
  /\ \A i : Bundle(i)[1] = "spec" /\ Bind(i)[1] = "binding"
BY DEF Secret, Inst, Bundle, Bind

\* What a step of a loop does with the record it copies: it goes on with the others,
\* removes nothing, and what it saves is the record or its credentials.
LEMMA Copying ==
  ASSUME TypeOK, InLoop, SavedKinds, NEW x \in todo,
         Copy(x) \/ CopyJob(x) \/ PassOver(x) \/ CopySecret(x)
  PROVE  /\ UNCHANGED <<etcd, phase, clean>>
         /\ todo' = todo \ {x}
         /\ crd' = crd \/ crd' = crd \union {Written(x)}
         /\ saved' = saved \/ saved' = saved \union {Written(x)}
         /\ phase \in {"spec", "instance", "binding"} =>
              Written(x) = x /\ saved' = saved \union {x} /\ crd' = crd \union {x}
         /\ phase = "job" => saved' = saved /\ crd' = crd \union {x}
         /\ phase \in {"instance secret", "binding secret"} =>
              /\ Written(x) = Secret(x[2])
              /\ ~NothingToSave(x) =>
                   saved' = saved \union {Secret(x[2])} /\ crd' = crd \union {Secret(x[2])}
         /\ phase = "binding secret" => ~NothingToSave(x)
BY DEF Copy, CopyJob, PassOver, CopySecret, Saves, Goes, Written, NothingToSave

\* What is saved stays records of etcd and credentials.
LEMMA SavedKindsStep ==
  ASSUME TypeOK, InLoop, SavedKinds, [Next]_vars
  PROVE  SavedKinds'
<1> USE DEF SavedKinds
<1>1. CASE Begin
  BY <1>1 DEF Begin
<1>2. CASE NextLoop \/ NextUndo \/ CallFails \/ UndoFails \/ Die
  BY <1>2 DEF NextLoop, NextUndo, CallFails, UndoFails, Die
<1>3. ASSUME NEW x \in todo, Copy(x) \/ CopyJob(x) \/ PassOver(x) \/ CopySecret(x)
      PROVE  SavedKinds'
  <2>1. Written(x)[1] = "secret" \/ (Written(x) \in etcd /\ Written(x)[1] # "job") \/ phase = "job"
    <3>1. CASE phase \in {"instance secret", "binding secret"}
      BY <1>3, <3>1, Copying, Kinds
    <3>2. CASE phase \in {"spec", "instance", "binding"}
      BY <1>3, <3>2, Copying, KindOfTodo
    <3>3. QED
      BY <3>1, <3>2, KindOfTodo DEF Steps
  <2>2. /\ saved' = saved \/ (saved' = saved \union {Written(x)} /\ phase # "job")
        /\ UNCHANGED etcd
    BY <1>3, Copying
  <2>3. QED
    BY <2>1, <2>2
<1>4. ASSUME NEW x \in todo, CopyRefused(x)
      PROVE  SavedKinds'
  BY <1>4 DEF CopyRefused, Reverts
<1>5. ASSUME NEW x \in ToUndo, Undo(x)
      PROVE  SavedKinds'
  BY <1>5 DEF Undo
<1>6. CASE UNCHANGED vars
  BY <1>6 DEF vars
<1>7. QED
  BY <1>1, <1>2, <1>3, <1>4, <1>5, <1>6, Cases

\* The reverts leave nothing saved of the kinds they have gone over.
LEMMA RevertedStep ==
  ASSUME TypeOK, InLoop, SavedKinds, Reverted, [Next]_vars
  PROVE  Reverted'
<1> USE DEF Reverted
<1>1. CASE Begin
  BY <1>1 DEF Begin
<1>2. CASE NextLoop
  BY <1>2, Sequence DEF NextLoop, Steps
<1>3. CASE NextUndo
  BY <1>3, Sequence, NothingToUndo DEF NextUndo, Undos, Of
<1>4. CASE CallFails \/ UndoFails \/ Die
  BY <1>4 DEF CallFails, UndoFails, Die
<1>5. ASSUME NEW x \in todo, Copy(x) \/ CopyJob(x) \/ PassOver(x) \/ CopySecret(x)
      PROVE  Reverted'
  BY <1>5, Copying, KindOfTodo DEF Steps
<1>6. ASSUME NEW x \in todo, CopyRefused(x)
      PROVE  Reverted'
  BY <1>6 DEF CopyRefused, Reverts
<1>7. ASSUME NEW x \in ToUndo, Undo(x)
      PROVE  Reverted'
  BY <1>7 DEF Undo, Of
<1>8. CASE UNCHANGED vars
  BY <1>8 DEF vars, Of
<1>9. QED
  BY <1>1, <1>2, <1>3, <1>4, <1>5, <1>6, <1>7, <1>8, Cases

\* What is there was saved by the run, or is the state of a job of what was.
LEMMA OnlySavedStep ==
  ASSUME TypeOK, InLoop, SavedKinds, OnlySaved, [Next]_vars
  PROVE  OnlySaved'
<1> USE DEF OnlySaved
<1>1. CASE Begin
  BY <1>1 DEF Begin
<1>2. CASE NextLoop \/ NextUndo \/ UndoFails \/ Die
  BY <1>2 DEF NextLoop, NextUndo, UndoFails, Die
<1>3. CASE CallFails
  BY <1>3 DEF CallFails
<1>4. ASSUME NEW x \in todo, Copy(x) \/ CopyJob(x) \/ PassOver(x) \/ CopySecret(x)
      PROVE  OnlySaved'
  <2>1. CASE phase = "job"
    <3>1. /\ x[1] = "job" /\ Inst(x[2]) \in saved
          /\ saved' = saved /\ crd' = crd \union {x} /\ UNCHANGED clean
      BY <1>4, <2>1, Copying, KindOfTodo
    <3>2. QED
      BY <3>1
  <2>2. CASE phase \in {"spec", "instance", "binding"}
    BY <1>4, <2>2, Copying
  <2>3. CASE phase \in {"instance secret", "binding secret"}
    <3>1. CASE NothingToSave(x)
      BY <1>4, <2>3, <3>1, Copying DEF PassOver, CopySecret, Copy, CopyJob
    <3>2. CASE ~NothingToSave(x)
      BY <1>4, <2>3, <3>2, Copying
    <3>3. QED
      BY <3>1, <3>2
  <2>4. QED
    BY <2>1, <2>2, <2>3, KindOfTodo DEF Steps
<1>5. ASSUME NEW x \in todo, CopyRefused(x)
      PROVE  OnlySaved'
  BY <1>5 DEF CopyRefused, Reverts
<1>6. ASSUME NEW x \in ToUndo, Undo(x)
      PROVE  OnlySaved'
  BY <1>6 DEF Undo, Within, Of
<1>7. CASE UNCHANGED vars
  BY <1>7 DEF vars
<1>8. QED
  BY <1>1, <1>2, <1>3, <1>4, <1>5, <1>6, <1>7, Cases
\* The phases from a loop on, and how the next loop or the end is reached.
LEMMA Progress ==
  ASSUME phase \in Steps, NEW q, q = After(phase)
  PROVE  /\ q \in FromSpecs
         /\ q \in FromInstances => phase \in FromSpecs
         /\ q \in FromBindings => phase \in FromInstances
         /\ q \in FromJobs => phase \in FromBindings
         /\ q \in FromSecrets => phase \in FromJobs
         /\ q \in FromBindingSecrets => phase \in FromSecrets
         /\ q \in FromInstances => q = "instance" \/ phase \in FromInstances
         /\ q \in FromBindings => q = "binding" \/ phase \in FromBindings
         /\ q \in FromJobs => q = "job" \/ phase \in FromJobs
         /\ q \in FromSecrets => q = "instance secret" \/ phase \in FromSecrets
         /\ q \in FromBindingSecrets => q = "binding secret" \/ phase \in FromBindingSecrets
BY DEF After, Steps, FromSpecs, FromInstances, FromBindings,
   FromJobs, FromSecrets, FromBindingSecrets

\* No phase of a revert, and none that ends in failure, is from a loop on.
LEMMA NotFrom ==
  \A q \in Undos \union {"failed", "panicked", "died", "idle"} :
    q \notin FromSpecs /\ q \notin FromInstances /\ q \notin FromBindings
      /\ q \notin FromJobs /\ q \notin FromSecrets /\ q \notin FromBindingSecrets
BY DEF Undos, FromSpecs, FromInstances, FromBindings, FromJobs, FromSecrets, FromBindingSecrets

\* A step that copies a record loses none of what the loops have gone over.
LEMMA CopiedByCopying ==
  ASSUME TypeOK, InLoop, SavedKinds, Copied, NEW x \in todo,
         Copy(x) \/ CopyJob(x) \/ PassOver(x) \/ CopySecret(x)
  PROVE  Copied'
<1> USE DEF Copied, Of
<1>1. /\ UNCHANGED <<etcd, phase>> /\ todo' = todo \ {x}
      /\ crd \subseteq crd' /\ saved \subseteq saved'
  BY Copying
<1>2. CASE phase = "spec"
  <2>1. x[1] = "spec" /\ saved' = saved \union {x}
    BY <1>2, Copying, KindOfTodo
  <2>2. QED
    BY <1>1, <1>2, <2>1 DEF FromSpecs, FromInstances, FromBindings,
       FromJobs, FromSecrets, FromBindingSecrets
<1>3. CASE phase = "instance"
  <2>1. x[1] = "instance" /\ saved' = saved \union {x}
    BY <1>3, Copying, KindOfTodo
  <2>2. QED
    BY <1>1, <1>3, <2>1 DEF FromSpecs, FromInstances, FromBindings,
       FromJobs, FromSecrets, FromBindingSecrets
<1>4. CASE phase = "binding"
  <2>1. x[1] = "binding" /\ saved' = saved \union {x}
    BY <1>4, Copying, KindOfTodo
  <2>2. QED
    BY <1>1, <1>4, <2>1 DEF FromSpecs, FromInstances, FromBindings,
       FromJobs, FromSecrets, FromBindingSecrets
<1>5. CASE phase = "job"
  <2>1. x[1] = "job" /\ saved' = saved /\ crd' = crd \union {x}
    BY <1>5, Copying, KindOfTodo
  <2>2. QED
    BY <1>1, <1>5, <2>1 DEF FromSpecs, FromInstances, FromBindings,
       FromJobs, FromSecrets, FromBindingSecrets
<1>6. CASE phase \in {"instance secret", "binding secret"}
  <2>1. /\ x \in saved
        /\ x[1] \in {"instance", "binding"}
        /\ phase = "instance secret" <=> x[1] = "instance"
    BY <1>6, KindOfTodo
  <2>2. \A y \in saved' : y \in saved \/ y[1] = "secret"
    <3>1. saved' = saved \/ saved' = saved \union {Secret(x[2])}
      BY <1>6, Copying
    <3>2. QED
      BY <3>1, Kinds
  <2>3. HasSecret(x[2]) \/ phase = "binding secret" => Secret(x[2]) \in crd'
    BY <1>6, Copying DEF NothingToSave
  <2>4. \A o : HasSecret(o)' <=> HasSecret(o)
    BY <1>1 DEF HasSecret
  <2>5. /\ phase \in FromSpecs => Of("spec", etcd') \subseteq saved' \union todo'
        /\ phase \in FromInstances => Of("instance", etcd') \subseteq saved' \union todo'
        /\ phase \in FromBindings => Of("binding", etcd') \subseteq saved' \union todo'
    BY <1>1, <2>1
  <2>6. ASSUME phase \in FromJobs, NEW y \in Of("job", etcd'), Inst(y[2]) \in saved'
        PROVE  y \in crd' \union todo'
    <3>1. Inst(y[2]) \in saved
      BY <2>2, <2>6, Kinds
    <3>2. y \in crd \union todo /\ y # x
      BY <1>1, <2>1, <2>6, <3>1
    <3>3. QED
      BY <1>1, <3>2
  <2>7. ASSUME phase \in FromSecrets, NEW y \in Of("instance", saved'), HasSecret(y[2])'
        PROVE  Secret(y[2]) \in crd' \/ y \in todo'
    <3>1. y \in Of("instance", saved) /\ HasSecret(y[2])
      BY <2>2, <2>4, <2>7
    <3>2. QED
      BY <1>1, <2>3, <2>7, <3>1
  <2>8. ASSUME phase \in FromBindingSecrets, NEW y \in Of("binding", saved')
        PROVE  Secret(y[2]) \in crd' \/ y \in todo'
    <3>1. y \in Of("binding", saved)
      BY <2>2, <2>8
    <3>2. phase = "binding secret"
      BY <1>6, <2>8 DEF FromBindingSecrets
    <3>3. QED
      BY <1>1, <2>3, <2>8, <3>1, <3>2
  <2>9. QED
    BY <1>1, <2>5, <2>6, <2>7, <2>8
<1>7. QED
  BY <1>2, <1>3, <1>4, <1>5, <1>6, KindOfTodo DEF Steps

\* What the loops have gone over stays there.
LEMMA CopiedStep ==
  ASSUME TypeOK, InLoop, SavedKinds, Copied, [Next]_vars
  PROVE  Copied'
<1>1. CASE Begin
  BY <1>1 DEF Begin, Copied, FromSpecs, FromInstances, FromBindings,
     FromJobs, FromSecrets, FromBindingSecrets
<1>2. CASE NextLoop
  <2>1. /\ phase \in Steps /\ todo = {} /\ phase' = After(phase) /\ todo' = Source(phase')
        /\ UNCHANGED <<etcd, crd, saved>>
    BY <1>2, Sequence DEF NextLoop
  <2>2. Source("instance") = Of("instance", etcd) /\ Source("binding") = Of("binding", etcd)
        /\ Source("job") = {x \in Of("job", etcd) : Inst(x[2]) \in saved}
        /\ Source("instance secret") = Of("instance", saved)
        /\ Source("binding secret") = Of("binding", saved)
    BY DEF Source
  <2>3. \A p : Of(p, etcd') = Of(p, etcd) /\ Of(p, saved') = Of(p, saved)
    BY <2>1 DEF Of
  <2>6. /\ phase' \in FromSpecs => Of("spec", etcd') \subseteq saved' \union todo'
        /\ phase' \in FromInstances => Of("instance", etcd') \subseteq saved' \union todo'
        /\ phase' \in FromBindings => Of("binding", etcd') \subseteq saved' \union todo'
    BY <2>1, <2>2, <2>3, Progress DEF Copied, FromSpecs, FromInstances, FromBindings,
       FromJobs, FromSecrets, FromBindingSecrets, Steps
  <2>7. ASSUME phase' \in FromJobs, NEW x \in Of("job", etcd), Inst(x[2]) \in saved
        PROVE  x \in crd \union todo'
    BY <2>1, <2>2, <2>7, Progress DEF Copied
  <2>8. ASSUME phase' \in FromSecrets, NEW x \in Of("instance", saved), HasSecret(x[2])
        PROVE  Secret(x[2]) \in crd \/ x \in todo'
    <3>1. CASE phase' = "instance secret"
      BY <2>1, <2>2, <2>8, <3>1
    <3>2. CASE phase \in FromSecrets
      BY <2>1, <2>8, <3>2 DEF Copied
    <3>3. QED
      BY <2>1, <2>8, <3>1, <3>2, Progress
  <2>9. ASSUME phase' \in FromBindingSecrets, NEW x \in Of("binding", saved)
        PROVE  Secret(x[2]) \in crd \/ x \in todo'
    <3>1. CASE phase' = "binding secret"
      BY <2>1, <2>2, <2>9, <3>1
    <3>2. CASE phase \in FromBindingSecrets
      BY <2>1, <2>9, <3>2 DEF Copied
    <3>3. QED
      BY <2>1, <2>9, <3>1, <3>2, Progress
  <2>10. QED
    BY <2>1, <2>3, <2>6, <2>7, <2>8, <2>9 DEF Copied, HasSecret
<1>3. CASE NextUndo
  BY <1>3, Sequence, NotFrom DEF NextUndo, Copied
<1>4. CASE CallFails \/ UndoFails \/ Die
  BY <1>4, NotFrom DEF CallFails, UndoFails, Die, Copied, Undos
<1>5. ASSUME NEW x \in todo, Copy(x) \/ CopyJob(x) \/ PassOver(x) \/ CopySecret(x)
      PROVE  Copied'
  BY <1>5, CopiedByCopying
<1>6. ASSUME NEW x \in todo, CopyRefused(x)
      PROVE  Copied'
  BY <1>6, NotFrom DEF CopyRefused, Reverts, Copied, Undos
<1>7. ASSUME NEW x \in ToUndo, Undo(x)
      PROVE  Copied'
  BY <1>7, NotFrom, KindOfToUndo DEF Undo, Copied
<1>8. CASE UNCHANGED vars
  BY <1>8 DEF vars, Copied, Of, HasSecret
<1>9. QED
  BY <1>1, <1>2, <1>3, <1>4, <1>5, <1>6, <1>7, <1>8, Cases

\* No kind is saved before, or kept after, what it refers to.
LEMMA InOrderStep ==
  ASSUME TypeOK, InLoop, SavedKinds, Copied, InOrder, Reverted, [Next]_vars
  PROVE  InOrder'
<1> USE DEF InOrder
<1>1. CASE Begin
  BY <1>1 DEF Begin, Of
<1>2. CASE NextLoop
  BY <1>2, Sequence DEF NextLoop, Of
<1>3. CASE NextUndo
  BY <1>3, Sequence DEF NextUndo, Undos, Of
<1>4. CASE CallFails \/ UndoFails \/ Die
  BY <1>4 DEF CallFails, UndoFails, Die, Of
<1>5. ASSUME NEW x \in todo, Copy(x) \/ CopyJob(x) \/ PassOver(x) \/ CopySecret(x)
      PROVE  InOrder'
  <2>1. UNCHANGED <<etcd, phase>> /\ saved \subseteq saved'
    BY <1>5, Copying
  <2>2. CASE phase = "spec"
    <3>1. saved' = saved \union {x} /\ x[1] = "spec"
      BY <1>5, <2>2, Copying, KindOfTodo
    <3>2. QED
      BY <2>1, <2>2, <3>1 DEF Of
  <2>3. CASE phase = "instance"
    <3>1. saved' = saved \union {x} /\ x[1] = "instance"
      BY <1>5, <2>3, Copying, KindOfTodo
    <3>2. \A y \in todo : y[1] = "instance"
      BY <2>3, KindOfTodo
    <3>3. Of("spec", etcd) \subseteq saved
      BY <2>3, <3>2 DEF Copied, Of, FromSpecs, FromInstances
    <3>4. QED
      BY <2>1, <2>3, <3>1, <3>3 DEF Of
  <2>4. CASE phase = "binding"
    <3>1. saved' = saved \union {x} /\ x[1] = "binding"
      BY <1>5, <2>4, Copying, KindOfTodo
    <3>2. \A y \in todo : y[1] = "binding"
      BY <2>4, KindOfTodo
    <3>3. Of("instance", etcd) \subseteq saved
      BY <2>4, <3>2 DEF Copied, Of, FromInstances, FromBindings
    <3>4. QED
      BY <2>1, <2>4, <3>1, <3>3 DEF Of
  <2>5. CASE phase \in {"job", "instance secret", "binding secret"}
    <3>1. saved' = saved \/ saved' = saved \union {Secret(x[2])}
      BY <1>5, <2>5, Copying
    <3>2. QED
      BY <2>1, <2>5, <3>1, Kinds DEF Of
  <2>6. QED
    BY <2>2, <2>3, <2>4, <2>5, KindOfTodo DEF Steps
<1>6. ASSUME NEW x \in todo, CopyRefused(x)
      PROVE  InOrder'
  BY <1>6 DEF CopyRefused, Reverts, Of
<1>7. ASSUME NEW x \in ToUndo, Undo(x)
      PROVE  InOrder'
  <2>1. x[1] = "spec" => Of("instance", saved) = {}
    BY <1>7, KindOfToUndo DEF Reverted, Undos
  <2>2. x[1] = "instance" => Of("binding", saved) = {}
    BY <1>7, KindOfToUndo DEF Reverted, Undos
  <2>3. UNCHANGED <<etcd, phase>> /\ saved' = saved \ {x}
    BY <1>7 DEF Undo
  <2>4. QED
    BY <2>1, <2>2, <2>3 DEF Of
<1>8. CASE UNCHANGED vars
  BY <1>8 DEF vars, Of
<1>9. QED
  BY <1>1, <1>2, <1>3, <1>4, <1>5, <1>6, <1>7, <1>8, Cases
-----------------------------------------------------------------------------
\* Before the first run the invariant holds: nothing has been written.
LEMMA InitInvariant == Init => IInv
<1> SUFFICES ASSUME Init PROVE IInv
  OBVIOUS
<1>1. etcd \subseteq Records
  <2>1. PICK S \in SUBSET Specs, I \in SUBSET Instances, B \in SUBSET Bindings :
        \E J \in SUBSET {x \in KeptJobs : x[2] \in I \union B}, C \in SUBSET (I \union B) :
          etcd = ({"spec"} \X S) \union ({"instance"} \X I) \union ({"binding"} \X B)
                   \union J \union ({"secret"} \X C)
    BY DEF Init
  <2>2. PICK J \in SUBSET {x \in KeptJobs : x[2] \in I \union B}, C \in SUBSET (I \union B) :
          etcd = ({"spec"} \X S) \union ({"instance"} \X I) \union ({"binding"} \X B)
                   \union J \union ({"secret"} \X C)
    BY <2>1
  <2>3. J \subseteq Jobs /\ C \subseteq Owners
    BY DEF Owners
  <2>4. QED
    BY <2>2, <2>3 DEF Records
<1>2. TypeOK
  <2>1. faults \in 0 .. MaxFaults /\ crashes \in 0 .. MaxCrashes /\ runs \in 0 .. MaxRuns
    BY DEF Init
  <2>2. QED
    BY <1>1, <2>1, Zenon DEF Init, TypeOK, Rests
<1>3. InLoop /\ SavedKinds /\ Reverted /\ OnlySaved
  BY DEF Init, InLoop, SavedKinds, Reverted, OnlySaved, Of
<1>4. Copied /\ InOrder
  BY NotFrom DEF Init, Copied, InOrder, Of
<1>5. QED
  BY <1>2, <1>3, <1>4 DEF IInv

\* The inductive invariant of the migration.
THEOREM Invariant == Spec => []IInv
<1>1. Init => IInv
  BY InitInvariant
<1>2. IInv /\ [Next]_vars => IInv'
  BY TypeStep, InLoopStep, SavedKindsStep, CopiedStep, InOrderStep, RevertedStep,
     OnlySavedStep DEF IInv
<1>3. QED
  BY <1>1, <1>2, PTL DEF Spec

\* Type correctness: also that a run never believes saved what is not there, so that no
\* revert deletes what was never written.
THEOREM TypeCorrect == Spec => []TypeOK
<1>1. IInv => TypeOK
  BY DEF IInv
<1>2. QED
  BY <1>1, Invariant, PTL

\* A run that reports success has copied everything, whatever earlier runs left, for any
\* records in etcd and any number of failures and deaths.
THEOREM AllCopied == Spec => []Complete
<1>1. IInv => Complete
  <2> SUFFICES ASSUME IInv, phase = "done"
               PROVE  Complete
    BY DEF Complete
  <2>1. todo = {}
    BY DEF IInv, InLoop, Source
  <2>2. phase \in FromSpecs /\ phase \in FromInstances /\ phase \in FromBindings
        /\ phase \in FromJobs /\ phase \in FromSecrets /\ phase \in FromBindingSecrets
    BY DEF FromSpecs, FromInstances, FromBindings, FromJobs, FromSecrets, FromBindingSecrets
  <2>3. saved \subseteq crd
    BY DEF IInv, TypeOK
  <2>4. \A kind \in {"spec", "instance", "binding"} : Of(kind, etcd) \subseteq saved
    BY <2>1, <2>2 DEF IInv, Copied
  <2>5. \A x \in Of("job", etcd) : Inst(x[2]) \in etcd => x \in crd
    <3>1. \A x : Inst(x[2]) \in etcd => Inst(x[2]) \in saved
      BY <2>4, Kinds DEF Of
    <3>2. QED
      BY <2>1, <2>2, <3>1 DEF IInv, Copied
  <2>6. \A x \in Of("binding", etcd) : Secret(x[2]) \in crd
    <3>1. Of("binding", etcd) \subseteq Of("binding", saved)
      BY <2>4 DEF Of
    <3>2. QED
      BY <2>1, <2>2, <3>1 DEF IInv, Copied
  <2>7. \A x \in Of("instance", etcd) : HasSecret(x[2]) => Secret(x[2]) \in crd
    <3>1. Of("instance", etcd) \subseteq Of("instance", saved)
      BY <2>4 DEF Of
    <3>2. QED
      BY <2>1, <2>2, <3>1 DEF IInv, Copied
  <2>8. QED
    BY <2>3, <2>4, <2>5, <2>6, <2>7 DEF Complete
<1>2. QED
  BY <1>1, Invariant, PTL

\* A run that began on an empty store and reports that it has reverted has deleted
\* everything, credentials and job states included.
THEOREM AllReverted == Spec => []NothingLeft
<1>1. IInv => NothingLeft
  <2> SUFFICES ASSUME IInv, phase = "failed", clean, NEW x \in crd
               PROVE  FALSE
    BY DEF NothingLeft
  <2>1. ASSUME NEW y \in saved
        PROVE  FALSE
    <3>1. y \in Records /\ y[1] # "job"
      BY DEF IInv, TypeOK, SavedKinds
    <3>2. y[1] \in {"spec", "instance", "binding", "secret"}
      BY <3>1 DEF Records, Jobs
    <3>3. QED
      BY <3>2 DEF IInv, Reverted, Of
  <2>2. QED
    BY <2>1 DEF IInv, OnlySaved
<1>2. QED
  BY <1>1, Invariant, PTL

\* At no time of a run that began on an empty store, be it copying, reverting or dead,
\* is there an object whose spec or instance etcd has and the API server has not.
THEOREM NeverOrphaned == Spec => []NoOrphans
<1>1. IInv => NoOrphans
  <2> SUFFICES ASSUME IInv, clean
               PROVE  NoOrphans
    BY DEF NoOrphans
  <2>1. saved \subseteq crd /\ \A x \in crd : x[1] # "job" => x \in saved
    BY DEF IInv, TypeOK, OnlySaved
  <2>2. ASSUME NEW i \in Instances, Inst(i) \in crd, Bundle(SpecOf[i]) \in etcd
        PROVE  Bundle(SpecOf[i]) \in crd
    BY <2>1, <2>2, Kinds DEF IInv, InOrder, Of
  <2>3. ASSUME NEW b \in Bindings, Bind(b) \in crd, Inst(InstanceOf[b]) \in etcd
        PROVE  Inst(InstanceOf[b]) \in crd
    BY <2>1, <2>3, Kinds DEF IInv, InOrder, Of
  <2>4. \A x \in Of("job", crd) : Inst(x[2]) \in crd
    BY <2>1 DEF IInv, OnlySaved, SavedKinds, Of
  <2>5. QED
    BY <2>2, <2>3, <2>4 DEF NoOrphans
<1>2. QED
  BY <1>1, Invariant, PTL
=============================================================================

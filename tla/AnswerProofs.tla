---------------------------- MODULE AnswerProofs ----------------------------
(***************************************************************************)
(* What a client is told of a binding is so: one that polling tells as     *)
(* made can be fetched, with whatever else is going on and however often   *)
(* the broker dies; and over etcd, where a binding names the job that      *)
(* makes it, none is told as existing while its only job has yet to end.   *)
(***************************************************************************)
EXTENDS BrokerProofs

USE StoreAssumption, BrokerAssumption

-----------------------------------------------------------------------------
(* What steps of handlers, runners and the subscriber leave alone.         *)

\* A request is new, and changes nothing but itself.
LEMMA RequestAdvances ==
  ASSUME IInv, NEW r \in Tokens, Request(r)
  PROVE  /\ Apart(r) /\ UNCHANGED <<storeVars, run, outcome, note, pending, launch>>
         /\ pc[r] = "idle" /\ run[r] = "none" /\ pc'[r] \in HandlerPC \ {"idle", "restart", "setup", "setup skipped"}
         /\ UNCHANGED stale /\ phase' = phase
<1>1. TypeOK /\ JobInv(r) /\ Asked(r)
  BY RequestFrame DEF IInv
<1>2. PICK call \in {"save", "check", "find", "done"} : pc' = [pc EXCEPT ![r] = call]
  BY <1>1 DEF Asked, Goes, Answers, AnswersFor
<1>3. /\ pc'[r] = call /\ \A t \in Tokens \ {r} : pc'[t] = pc[t] /\ req'[t] = req[t]
  BY <1>1, <1>2 DEF Asked, TypeOK
<1>4. pc[r] = "idle" /\ run[r] = "none"
  BY <1>1 DEF Asked, JobInv, Started, Unstarted
<1>5. UNCHANGED <<storeVars, run, outcome, note, pending, launch, stale, phase>>
  BY <1>1 DEF Asked, jobVars, processVars
<1>6. Apart(r)
  BY <1>1, <1>3, <1>5 DEF Apart, TypeOK, storeVars
<1>7. QED
  BY <1>3, <1>4, <1>5, <1>6 DEF HandlerPC

\* A handler goes on, or records its job and starts it.
LEMMA HandlerAdvances ==
  ASSUME IInv, NEW r \in Tokens, HandlerStep(r)
  PROVE  /\ Apart(r) /\ UNCHANGED <<req, outcome, pending, launch, phase>>
         /\ pc[r] \notin {"idle", "done", "restart"} /\ pc'[r] \notin {"idle", "restart"}
         /\ pc'[r] \in Unstarted => pc[r] \in Unstarted
         /\ pc'[r] = "drop" => Op(r) = "unbind" /\ ~launch
         /\ \/ UNCHANGED <<run, note>> /\ JobsKept
            \/ RecordsJob(r)
<1> USE DEF HandlerMoves, processVars
<1>1. TypeOK /\ Fits(r)
  BY DEF IInv, JobInv
<1>2. /\ HandlerMoves(r)
      /\ \/ UNCHANGED <<run, note>> /\ JobsKept
         \/ RecordsJob(r)
  BY <1>1, ReadingMoves, WritingMoves, SetupMoves DEF HandlerStep, RecordsJob
<1>3. /\ \A t \in Tokens \ {r} : pc'[t] = pc[t]
      /\ pc'[r] \notin {"idle", "restart"}
      /\ pc'[r] \in Unstarted => pc[r] \in Unstarted
      /\ pc'[r] = "drop" => Op(r) = "unbind" /\ ~launch
  BY <1>1, <1>2 DEF PcMoves, TypeOK
<1>4. CASE UNCHANGED <<run, note>> /\ JobsKept
  BY <1>1, <1>2, <1>3, <1>4 DEF Apart, JobsKept, Stored, TypeOK
<1>5. CASE RecordsJob(r)
  <2>1. \A t \in Tokens \ {r} : run'[t] = run[t] /\ note'[t] = note[t]
    BY <1>1, <1>5 DEF RecordsJob, TypeOK
  <2>2. Target(r) \in Ids /\ \A t \in Tokens \ {r}, id \in Ids : jobs'[id][t] = jobs[id][t]
    BY <1>1, <1>5, Contents DEF RecordsJob, StateWritten
  <2>3. Apart(r)
    BY <1>1, <1>2, <1>3, <2>1, <2>2 DEF Apart, Stored, TypeOK
  <2>4. QED
    BY <1>2, <1>3, <1>5, <2>3
<1>6. QED
  BY <1>2, <1>4, <1>5

\* The runner returns, with or without the credentials changed.
LEMMA RunnerAdvances ==
  ASSUME IInv, NEW r \in Tokens, RunnerStep(r)
  PROVE  /\ Apart(r) /\ UNCHANGED <<req, pc, answer, note, pending, launch, phase, stale, jobs, objects, keys>>
         /\ run[r] \in {"running", "skipping"} /\ run'[r] = "returned"
<1> USE DEF RunnerSteps, requestVars, processVars
<1>1. TypeOK /\ StoreTypeOK /\ Target(r) \in Ids
  BY Contents DEF IInv, TypeOK
<1>2. /\ run[r] \in {"running", "skipping"} /\ UNCHANGED stale /\ RunnerSteps(r)
      /\ \E o \in {"failed", "action not found", "succeeded"} : Returns(r, o)
      /\ UNCHANGED storeVars \/ CreateSecret(Target(r)) \/ DeleteSecret(Target(r))
  BY DEF RunnerStep, RunnerEnds, RunnerSkips
<1>3. UNCHANGED <<store, jobs, objects, keys>>
  BY <1>1, <1>2 DEF storeVars, CreateSecret, DeleteSecret
<1>4. run'[r] = "returned" /\ \A t \in Tokens \ {r} : run'[t] = run[t] /\ outcome'[t] = outcome[t]
  BY <1>1, <1>2 DEF Returns, TypeOK
<1>5. Apart(r)
  BY <1>2, <1>3, <1>4 DEF Apart
<1>6. QED
  BY <1>2, <1>3, <1>4, <1>5

\* The subscriber goes on: once it has come to the end it records nothing but the
\* failure of a cleanup.
LEMMA SubscriberAdvances ==
  ASSUME IInv, NEW r \in Tokens, SubscriberStep(r)
  PROVE  /\ Apart(r) /\ UNCHANGED <<req, pc, answer, run, outcome, pending, launch, phase>>
         /\ run[r] # "none"
         /\ note[r] \notin {"progress", "final"} =>
              /\ note'[r] \notin {"progress", "final"}
              /\ \A id \in Ids : jobs'[id][r] \in {jobs[id][r], "none", "failed"}
<1> USE DEF SubscriberSteps, requestVars, processVars
<1>1. /\ TypeOK /\ StoreTypeOK /\ Fits(r) /\ Target(r) \in Ids /\ Instance \in Ids
      /\ Op(r) \in Methods \union {"none"}
  BY Contents DEF IInv, JobInv, TypeOK, Ids
<1>2. run[r] # "none"
  BY DEF IInv, JobInv, Started, SubscriberStep, NotifyProgress, NotifyFinal, DeleteInstance,
         DeleteInstanceSecret, RecordCleanupFailure, ReadInstance, ReadBinding, DeleteBinding,
         UnlistAfterUnbind, ReadForDashboard, SaveDashboard
<1>3. CASE CleansUp(r)
  <2>1. PICK call \in {"secret", "done", "failed", "binding", "drop", "unlist", "url"} :
          SubscriberMoves(r, call) /\ JobsKept
    BY <1>3 DEF CleansUp
  <2>2. note'[r] = call /\ \A t \in Tokens \ {r} : note'[t] = note[t]
    BY <1>1, <2>1 DEF SubscriberMoves, Notes, TypeOK
  <2>3. Apart(r)
    BY <1>1, <2>1, <2>2 DEF Apart, SubscriberMoves, JobsKept, Stored
  <2>4. QED
    BY <1>2, <2>1, <2>2, <2>3 DEF SubscriberMoves, JobsKept
<1>4. ASSUME NEW id \in Ids, NEW s \in JobStates, RecordsState(r, id, s)
      PROVE  store' = store /\ StateWritten(id, r, s)
  BY <1>1, <1>4, StateRecorded DEF RecordsState
<1>5. ASSUME NEW id, StateLost(r, id)
      PROVE  store' = store /\ jobs' = jobs
  BY <1>5 DEF StateLost, storeVars
<1>6. CASE NotifyProgress(r) \/ NotifyFinal(r) \/ RecordCleanupFailure(r)
  <2>1. SubscriberSteps(r) /\ \E call : Notes(r, call)
    BY <1>6 DEF NotifyProgress, NotifyFinal, RecordCleanupFailure
  <2>2. \A t \in Tokens \ {r} : note'[t] = note[t]
    BY <1>1, <2>1 DEF Notes, TypeOK
  <2>3. /\ store' = store
        /\ jobs' = jobs \/ \E id \in Ids, s \in JobStates : StateWritten(id, r, s)
    BY <1>1, <1>4, <1>5, <1>6
       DEF NotifyProgress, NotifyFinal, RecordCleanupFailure, FinalState, JobStates
  <2>4. Apart(r)
    BY <2>1, <2>2, <2>3 DEF Apart, StateWritten
  <2>5. CASE RecordCleanupFailure(r)
    <3>1. note'[r] = "done"
      BY <1>1, <2>5 DEF RecordCleanupFailure, Notes, TypeOK
    <3>2. jobs' = jobs \/ StateWritten(Instance, r, "failed")
      BY <1>1, <1>4, <1>5, <2>5 DEF RecordCleanupFailure, JobStates
    <3>3. \A id \in Ids : jobs'[id][r] \in {jobs[id][r], "failed"}
      BY <3>2 DEF StateWritten
    <3>4. QED
      BY <1>2, <2>1, <2>4, <3>1, <3>3
  <2>6. CASE NotifyProgress(r) \/ NotifyFinal(r)
    BY <1>2, <2>1, <2>4, <2>6 DEF NotifyProgress, NotifyFinal
  <2>7. QED
    BY <1>6, <2>5, <2>6
<1>7. QED
  BY <1>1, <1>3, <1>6, CleanupMoves DEF SubscriberStep

-----------------------------------------------------------------------------
(* What keeps a binding fetchable, for any interleaving and any crashes.   *)

\* Job t has run, and is not about to run (again).
Over(t) == pc[t] \notin Unstarted \union {"restart"} /\ run[t] \notin {"running", "skipping"}

\* A bundle has deprovisioned the instance, and recovery will not run it again: what
\* is recorded of it is its end, or went with the instance.
Deprovisioned ==
  \E t \in Tokens :
    /\ Op(t) = "deprovision" /\ outcome[t] = "succeeded"
    /\ Over(t) /\ t \notin pending
    /\ note[t] \notin {"progress", "final"}
    /\ jobs[Instance][t] \notin {"not yet started", "in progress"}

\* A bundle has undone binding b, or somebody unbinds it without one.
Unbound(b) ==
  \E t \in Tokens :
    /\ Op(t) = "unbind" /\ Target(t) = b
    /\ ~launch \/ (outcome[t] \in {"succeeded", "action not found"} /\ Over(t))

\* Why a binding that was made may have lost its record, its instance or its credentials.
Undone(b) == Deprovisioned \/ Unbound(b)

\* The ways that requests, and recovery, take.
Courses(r) ==
  /\ pc[r] = "idle" => Op(r) = "none"
  /\ pc[r] = "restart" => Target(r) = Instance
  /\ pc[r] = "setup skipped" \/ run[r] = "skipping" => Op(r) \in {"deprovision", "unbind"}
  /\ Op(r) = "unbind" /\ pc[r] \in {"unlist", "secret"} => ~launch
  /\ pc[r] \in Unstarted => outcome[r] = "none"

\* A bind finds its instance, its job its binding, and its success leaves the
\* credentials, until they are undone.
Kept(r) ==
  Op(r) = "bind" =>
    /\ pc[r] \notin {"idle", "done"} \/ run[r] # "none" \/ outcome[r] = "succeeded"
         => Instance \in objects \/ Undone(Target(r))
    /\ (store = "etcd" /\ pc[r] = "setup") \/ run[r] # "none" \/ outcome[r] = "succeeded"
         => Target(r) \in objects \/ Undone(Target(r))
    /\ outcome[r] = "succeeded" => Target(r) \in secrets \/ Undone(Target(r))

FetchInv == \A r \in Tokens : Courses(r) /\ Kept(r)

\* What is undone stays so, whatever a thread does.
LEMMA ThreadLeavesUndone ==
  ASSUME IInv, FetchInv, NEW r \in Tokens,
         Request(r) \/ HandlerStep(r) \/ RunnerStep(r) \/ SubscriberStep(r)
  PROVE  /\ Deprovisioned => Deprovisioned'
         /\ \A b \in Bindings : Unbound(b) => Unbound(b)'
<1>1. Apart(r) /\ Instance \in Ids /\ launch' = launch
  BY RequestAdvances, HandlerAdvances, RunnerAdvances, SubscriberAdvances DEF Ids
<1>2. pending' \subseteq pending
  BY <1>1 DEF Apart
<1>3. ASSUME NEW t \in Tokens, Op(t) # "none"
      PROVE  Op(t)' = Op(t) /\ Target(t)' = Target(t)
  <2>1. pc[t] # "idle"
    BY <1>3 DEF FetchInv, Courses
  <2>2. req'[t] = req[t]
    <3>1. CASE t = r
      BY <2>1, <3>1, RequestAdvances, HandlerAdvances, RunnerAdvances, SubscriberAdvances
    <3>2. CASE t # r
      BY <1>1, <3>2 DEF Apart
    <3>3. QED
      BY <3>1, <3>2
  <2>3. QED
    BY <2>2 DEF Op, Target
<1>4. ASSUME NEW t \in Tokens, Over(t)
      PROVE  Over(t)' /\ outcome'[t] = outcome[t]
  <2>1. CASE t # r
    BY <1>1, <1>4, <2>1 DEF Apart, Over
  <2>2. CASE t = r
    <3>1. ~Request(r) /\ ~RunnerStep(r)
      BY <1>4, <2>2, RequestAdvances, RunnerAdvances DEF Over, Unstarted
    <3>2. CASE HandlerStep(r)
      BY <1>4, <2>2, <3>2, HandlerAdvances DEF Over, RecordsJob
    <3>3. CASE SubscriberStep(r)
      BY <1>4, <2>2, <3>3, SubscriberAdvances DEF Over
    <3>4. QED
      BY <3>1, <3>2, <3>3
  <2>3. QED
    BY <2>1, <2>2
<1>5. ASSUME Deprovisioned
      PROVE  Deprovisioned'
  <2>1. PICK t \in Tokens : /\ Op(t) = "deprovision" /\ outcome[t] = "succeeded"
                            /\ Over(t) /\ t \notin pending
                            /\ note[t] \notin {"progress", "final"}
                            /\ jobs[Instance][t] \notin {"not yet started", "in progress"}
    BY <1>5 DEF Deprovisioned
  <2>2. /\ Op(t)' = "deprovision" /\ outcome'[t] = "succeeded"
        /\ Over(t)' /\ t \notin pending'
    BY <1>2, <1>3, <1>4, <2>1
  <2>3. /\ note'[t] \notin {"progress", "final"}
        /\ jobs'[Instance][t] \notin {"not yet started", "in progress"}
    <3>1. CASE t # r
      BY <1>1, <2>1, <3>1 DEF Apart
    <3>2. CASE t = r
      <4>1. ~Request(r) /\ ~RunnerStep(r)
        BY <2>1, <3>2, RequestAdvances, RunnerAdvances DEF Over, Unstarted
      <4>2. CASE HandlerStep(r)
        BY <1>1, <2>1, <3>2, <4>2, HandlerAdvances DEF Over, RecordsJob, JobsKept
      <4>3. CASE SubscriberStep(r)
        BY <1>1, <2>1, <3>2, <4>3, SubscriberAdvances
      <4>4. QED
        BY <4>1, <4>2, <4>3
    <3>3. QED
      BY <3>1, <3>2
  <2>4. QED
    BY <2>2, <2>3 DEF Deprovisioned
<1>6. ASSUME NEW b \in Bindings, Unbound(b)
      PROVE  Unbound(b)'
  <2>1. PICK t \in Tokens :
          /\ Op(t) = "unbind" /\ Target(t) = b
          /\ ~launch \/ (outcome[t] \in {"succeeded", "action not found"} /\ Over(t))
    BY <1>6 DEF Unbound
  <2>2. Op(t)' = "unbind" /\ Target(t)' = b
    BY <1>3, <2>1
  <2>3. QED
    BY <1>1, <1>4, <2>1, <2>2 DEF Unbound
<1>7. QED
  BY <1>5, <1>6

\* What a thread takes away it has undone: the instance and what it holds.
Takes ==
  /\ Instance \in objects \ objects' => Deprovisioned'
  /\ \A b \in Bindings : b \in (objects \ objects') \union (secrets \ secrets') => Unbound(b)'

\* A handler takes away a binding only without a bundle.
LEMMA HandlerTakes ==
  ASSUME IInv, FetchInv, NEW r \in Tokens, HandlerStep(r)
  PROVE  Takes
<1>1. TypeOK /\ Fits(r) /\ Courses(r) /\ Target(r) \in Ids /\ StoreTypeOK
  BY Contents DEF IInv, JobInv, FetchInv, TypeOK
<1>2. /\ UNCHANGED <<req, launch>>
      /\ \A id \in objects \ objects' : pc[r] = "drop" /\ id = Target(r)
  BY HandlerAdvances, <1>1, ReadingMoves, WritingMoves, SetupMoves
     DEF HandlerStep, RecordsJob, HandlerMoves
<1>3. \A b \in Bindings : b \in secrets \ secrets' => pc[r] = "secret" /\ Op(r) = "unbind" /\ b = Target(r)
  <2> USE DEF storeVars, Reading, HandlerWrites
  <2>1. CASE DropBindingSecret(r) \/ DropProvisionSecret(r)
    BY <2>1 DEF DropBindingSecret, DropProvisionSecret, At, DeleteSecret
  <2>2. CASE CopySecret(r)
    BY <2>2 DEF CopySecret, CreateSecret
  <2>3. CASE SetupJob(r)
    BY <2>3 DEF SetupJob, SetState, Crd!SetState, Etcd!SetState
  <2>4. CASE SaveInstance(r) \/ ListBinding(r) \/ UnlistBinding(r)
    BY <2>4 DEF SaveInstance, ListBinding, UnlistBinding, Refused, SetServiceInstance,
                Crd!SetServiceInstance, Etcd!SetServiceInstance
  <2>5. CASE SaveBinding(r) \/ SaveKey(r)
    BY <2>5 DEF SaveBinding, SaveKey, StoresBinding, SetBindInstance,
                Crd!SetBindInstance, Etcd!SetBindInstance
  <2>6. CASE DropBinding(r)
    BY <2>6 DEF DropBinding, DeleteObject, Crd!DeleteObject, Etcd!DeleteObject
  <2>7. CASE \/ CheckProvision(r) \/ CheckUpdate(r) \/ CheckDeprovision(r) \/ FindBind(r)
             \/ FindUnbind(r) \/ CheckUnbind(r) \/ RereadUnbind(r) \/ JobReturned(r)
    BY <2>7 DEF CheckProvision, CheckUpdate, CheckDeprovision, FindBind, FindUnbind, CheckUnbind,
                RereadUnbind, JobReturned
  <2>8. QED
    BY <2>1, <2>2, <2>3, <2>4, <2>5, <2>6, <2>7 DEF HandlerStep
<1>4. ASSUME NEW b \in Bindings, b \in (objects \ objects') \union (secrets \ secrets')
      PROVE  Unbound(b)'
  <2>1. Op(r) = "unbind" /\ b = Target(r) /\ ~launch
    BY <1>1, <1>2, <1>3, <1>4 DEF Fits, Courses
  <2>2. QED
    BY <1>2, <2>1 DEF Unbound, Op, Target
<1>5. Instance \notin objects \ objects'
  BY <1>1, <1>2 DEF Fits, BindMethods
<1>6. QED
  BY <1>4, <1>5 DEF Takes

\* A bundle takes away credentials only when it succeeds in undoing them.
LEMMA RunnerTakes ==
  ASSUME IInv, FetchInv, NEW r \in Tokens, RunnerStep(r)
  PROVE  Takes
<1>1. /\ TypeOK /\ Fits(r) /\ UNCHANGED <<req, pc, objects>> /\ run'[r] = "returned"
      /\ run[r] \in {"running", "skipping"} /\ pc[r] \notin Unstarted \union {"restart"}
  BY RunnerAdvances, Underway DEF IInv, JobInv
<1>2. ASSUME NEW b \in Bindings, b \in secrets \ secrets'
      PROVE  Op(r) = "unbind" /\ b = Target(r) /\ outcome'[r] = "succeeded"
  <2>1. /\ Op(r) \in {"deprovision", "unbind"} /\ Returns(r, "succeeded")
        /\ secrets' = secrets \ {Target(r)}
    BY <1>2 DEF RunnerStep, RunnerEnds, RunnerSkips, storeVars, CreateSecret, DeleteSecret
  <2>2. outcome'[r] = "succeeded"
    BY <1>1, <2>1 DEF Returns, TypeOK
  <2>3. QED
    BY <1>1, <1>2, <2>1, <2>2 DEF Fits, BindMethods
<1>3. Over(r)'
  BY <1>1 DEF Over
<1>4. Op(r)' = Op(r) /\ Target(r)' = Target(r)
  BY <1>1 DEF Op, Target
<1>5. QED
  BY <1>1, <1>2, <1>3, <1>4 DEF Takes, Unbound

\* The subscriber deletes what a bundle has undone.
LEMMA SubscriberTakes ==
  ASSUME IInv, FetchInv, NEW r \in Tokens, SubscriberStep(r)
  PROVE  Takes
<1>1. /\ TypeOK /\ StoreTypeOK /\ JobInv(r) /\ UNCHANGED <<req, pc, run, outcome, pending, launch>>
      /\ run[r] # "none" /\ Target(r) \in Ids /\ Instance \in Ids
      /\ r \notin pending /\ pc[r] \notin Unstarted \union {"restart"}
      /\ run[r] \in {"running", "skipping"} => note[r] \in {"progress", "final"}
  BY SubscriberAdvances, Underway DEF TypeOK, Ids
<1>2. Op(r)' = Op(r) /\ Target(r)' = Target(r)
  BY <1>1 DEF Op, Target
<1>3. CASE DeleteInstance(r) /\ DeleteObject(Instance)
  <2>1. /\ objects' = objects \ {Instance} /\ secrets' = secrets
        /\ jobs'[Instance][r] = jobs[Instance][r] \/ jobs'[Instance][r] = "none"
        /\ store = "etcd" => jobs' = jobs
    BY <1>1, <1>3, ObjectDeleted
  <2>2. store \in {"crd", "etcd"} /\ Op(r) = "deprovision" /\ Target(r) = Instance
    BY <1>1, <1>3 DEF DeleteInstance, JobInv, Fits, StoreTypeOK, BindMethods
  <2>3. outcome'[r] = "succeeded"
    BY <1>1, <1>3, <2>2 DEF DeleteInstance, JobInv, Truthful, FinalState
  <2>4. Over(r)'
    BY <1>1, <1>3 DEF DeleteInstance, Over
  <2>5. note'[r] = "secret"
    BY <1>1, <1>3 DEF DeleteInstance, DeleteObject, Crd!DeleteObject, Etcd!DeleteObject, Notes, TypeOK
  <2>6. jobs'[Instance][r] \notin {"not yet started", "in progress"}
    <3>1. CASE store = "etcd"
      BY <1>1, <1>3, <2>1, <2>2, <3>1 DEF DeleteInstance, JobInv, Recorded, Unended, Final
    <3>2. CASE store = "crd"
      <4>1. jobs' = [jobs EXCEPT ![Instance] = NoJobs]
        BY <1>3, <3>2 DEF DeleteObject, Crd!DeleteObject, Crd!NoJobs, NoJobs
      <4>2. QED
        BY <1>1, <4>1 DEF NoJobs, StoreTypeOK
    <3>3. QED
      BY <2>2, <3>1, <3>2
  <2>7. Deprovisioned'
    BY <1>1, <1>2, <2>2, <2>3, <2>4, <2>5, <2>6 DEF Deprovisioned
  <2>8. QED
    BY <2>1, <2>7 DEF Takes, Ids
<1>4. CASE DeleteBinding(r) /\ DeleteObject(Target(r))
  <2>1. objects' = objects \ {Target(r)} /\ secrets' = secrets
    BY <1>1, <1>4, ObjectDeleted
  <2>2. /\ Op(r) = "unbind" /\ Target(r) \in Bindings
        /\ outcome[r] \in {"succeeded", "action not found"}
    BY <1>1, <1>4 DEF DeleteBinding, JobInv, Fits, Truthful, FinalState, BindMethods
  <2>3. Over(r)'
    BY <1>1, <1>4 DEF DeleteBinding, Over
  <2>4. \A b \in Bindings : b = Target(r) => Unbound(b)'
    BY <1>1, <1>2, <2>2, <2>3 DEF Unbound
  <2>5. QED
    BY <2>1, <2>2, <2>4 DEF Takes
<1>5. ASSUME objects \subseteq objects', secrets \ {Instance} \subseteq secrets'
      PROVE  Takes
  BY <1>5 DEF Takes
<1>6. CASE UNCHANGED storeVars
  BY <1>5, <1>6 DEF storeVars
<1>7. CASE DeleteInstanceSecret(r)
  BY <1>5, <1>7 DEF DeleteInstanceSecret, DeleteSecret
<1>8. CASE NotifyProgress(r) \/ NotifyFinal(r) \/ RecordCleanupFailure(r)
  <2>1. UNCHANGED <<objects, secrets>>
    BY <1>8 DEF NotifyProgress, NotifyFinal, RecordCleanupFailure, RecordsState, StateLost, SetState,
                Crd!SetState, Etcd!SetState, storeVars
  <2>2. QED
    BY <1>5, <2>1
<1>9. CASE UnlistAfterUnbind(r) \/ SaveDashboard(r)
  <2>1. objects \subseteq objects' /\ secrets' = secrets
    BY <1>9 DEF UnlistAfterUnbind, SaveDashboard, NoteRefused, SetServiceInstance,
                Crd!SetServiceInstance, Etcd!SetServiceInstance, storeVars
  <2>2. QED
    BY <1>5, <2>1
<1>10. CASE \/ DeleteInstance(r) /\ ~DeleteObject(Instance)
            \/ DeleteBinding(r) /\ ~DeleteObject(Target(r))
            \/ ReadInstance(r) \/ ReadBinding(r) \/ ReadForDashboard(r)
  BY <1>6, <1>10 DEF DeleteInstance, DeleteBinding, ReadInstance, ReadBinding, ReadForDashboard, storeVars
<1>11. QED
  BY <1>3, <1>4, <1>7, <1>8, <1>9, <1>10 DEF SubscriberStep

\* So it is for every thread.
LEMMA ThreadTakes ==
  ASSUME IInv, FetchInv, NEW r \in Tokens,
         Request(r) \/ HandlerStep(r) \/ RunnerStep(r) \/ SubscriberStep(r)
  PROVE  Takes
<1>1. CASE Request(r)
  BY <1>1, RequestAdvances DEF Takes, storeVars
<1>2. QED
  BY <1>1, HandlerTakes, RunnerTakes, SubscriberTakes

\* What another thread does leaves the courses and the binding of request t as they were.
LEMMA OthersFetchable ==
  ASSUME IInv, FetchInv, NEW r \in Tokens,
         Request(r) \/ HandlerStep(r) \/ RunnerStep(r) \/ SubscriberStep(r),
         NEW t \in Tokens \ {r}
  PROVE  Courses(t)' /\ Kept(t)'
<1>1. Apart(r)
  BY RequestAdvances, HandlerAdvances, RunnerAdvances, SubscriberAdvances
<1>2. Courses(t) /\ Kept(t) /\ Fits(t)
  BY DEF FetchInv, IInv, JobInv
<1>3. Takes /\ (Deprovisioned => Deprovisioned') /\ \A b \in Bindings : Unbound(b) => Unbound(b)'
  BY ThreadTakes, ThreadLeavesUndone
<1>4. Op(t)' = Op(t) /\ Target(t)' = Target(t)
  BY <1>1 DEF Apart, Op, Target
<1>5. Courses(t)'
  BY <1>1, <1>2, <1>4 DEF Apart, Courses
<1>6. ASSUME Op(t) = "bind"
      PROVE  /\ Undone(Target(t)) => Undone(Target(t))'
             /\ Instance \in objects => Instance \in objects' \/ Undone(Target(t))'
             /\ Target(t) \in objects => Target(t) \in objects' \/ Undone(Target(t))'
             /\ Target(t) \in secrets => Target(t) \in secrets' \/ Undone(Target(t))'
  BY <1>2, <1>3, <1>4, <1>6 DEF Takes, Undone, Fits, BindMethods
<1>7. Kept(t)'
  BY <1>1, <1>2, <1>4, <1>6 DEF Apart, Kept
<1>8. QED
  BY <1>5, <1>7

\* A request that arrives is about an instance that is there, or is answered.
LEMMA RequestFetchable ==
  ASSUME IInv, FetchInv, NEW r \in Tokens, Request(r)
  PROVE  Courses(r)' /\ Kept(r)'
<1>1. /\ TypeOK /\ UNCHANGED <<storeVars, run, outcome, note, pending, launch>>
      /\ run[r] = "none" /\ outcome[r] = "none"
      /\ pc'[r] \in HandlerPC \ {"idle", "restart", "setup", "setup skipped"}
  BY RequestAdvances DEF IInv, FetchInv, Courses, Unstarted
<1>2. Op(r)' = "bind" /\ pc'[r] \notin {"idle", "done"} => Instance \in objects
  <2>1. ASSUME NEW b \in Bindings, Bind(r, b), pc'[r] # "done"
        PROVE  Instance \in objects
    BY <1>1, <2>1 DEF Bind, HoldsInstance, Answers, AnswersFor, TypeOK
  <2>2. CASE Provision(r) \/ Update(r) \/ Deprovision(r) \/ \E b \in Bindings : Unbind(r, b)
    <3>1. ASSUME NEW op \in {"provision", "update", "deprovision", "unbind"}, NEW id \in Ids,
                 NEW p \in Params \union {NoParams}, Arrives(r, op, id, p)
          PROVE  Op(r)' # "bind"
      BY <1>1, <3>1 DEF Arrives, Op, TypeOK
    <3>2. QED
      BY <2>2, <3>1 DEF Provision, Update, Deprovision, Unbind, Ids
  <2>3. QED
    BY <2>1, <2>2 DEF Request
<1>3. Op(r)' = "unbind" => pc'[r] \notin {"unlist", "secret"}
  <2>1. pc'[r] \in {"save", "check", "find", "done"}
    BY <1>1, RequestFrame DEF Asked, Goes, Answers, AnswersFor, TypeOK
  <2>2. QED
    BY <2>1
<1>4. Courses(r)'
  BY <1>1, <1>3 DEF Courses
<1>5. Kept(r)'
  BY <1>1, <1>2 DEF Kept, storeVars
<1>6. QED
  BY <1>4, <1>5

\* The ways of a handler: over etcd it comes to record the job of a bind with the
\* binding stored, and over CRDs it can record it only then.
LEMMA HandlerCourses ==
  ASSUME TypeOK, NothingStale, NEW r \in Tokens, Fits(r), Courses(r), JobInv(r), HandlerStep(r)
  PROVE  /\ pc'[r] = "setup skipped" => Op(r) \in {"deprovision", "unbind"}
         /\ Op(r) = "unbind" /\ pc'[r] \in {"unlist", "secret"} => ~launch
         /\ Op(r) = "bind" /\ pc'[r] = "setup" /\ store = "etcd" => Target(r) \in objects'
         /\ run'[r] \in {"skipping"} => run[r] = "skipping" \/ pc[r] = "setup skipped"
         /\ Op(r) = "bind" /\ run'[r] # "none" /\ run[r] = "none"
              => IF store = "etcd" THEN pc[r] = "setup" ELSE Target(r) \in objects'
<1> USE DEF At, Reading, HandlerWrites, jobVars, Goes, Answers, AnswersFor
<1>1. Target(r) \in Ids /\ StoreTypeOK /\ store \in {"crd", "etcd"}
  BY Contents DEF TypeOK, StoreTypeOK
<1>2. \A call : pc' = [pc EXCEPT ![r] = call] => pc'[r] = call
  BY DEF TypeOK
<1>3. CASE CheckProvision(r) \/ CheckUpdate(r) \/ CheckUnbind(r) \/ FindUnbind(r) \/ JobReturned(r)
  <2>1. UNCHANGED run
    BY <1>3 DEF CheckProvision, CheckUpdate, CheckUnbind, FindUnbind, JobReturned
  <2>2. \/ \E call \in {"save", "reread", "check", "done", "list"} : pc' = [pc EXCEPT ![r] = call]
        \/ pc' = [pc EXCEPT ![r] = "secret"] /\ Op(r) = "deprovision"
    <3>1. CASE CheckProvision(r) \/ CheckUpdate(r) \/ CheckUnbind(r)
      BY <3>1 DEF CheckProvision, CheckUpdate, CheckUnbind, AnswersInProgress
    <3>2. CASE FindUnbind(r) \/ JobReturned(r)
      BY <3>2 DEF FindUnbind, JobReturned
    <3>3. QED
      BY <1>3, <3>1, <3>2
  <2>3. QED
    BY <1>2, <2>1, <2>2
<1>4. CASE CheckDeprovision(r) \/ FindBind(r)
  <2>1. /\ UNCHANGED run
        /\ Op(r) = "bind" => \E call \in {"save", "done"} : pc' = [pc EXCEPT ![r] = call]
        /\ Op(r) \in {"bind", "deprovision"}
    BY <1>4 DEF CheckDeprovision, FindBind
  <2>2. QED
    BY <1>2, <2>1
<1>5. CASE RereadUnbind(r)
  <2>1. /\ UNCHANGED run /\ Op(r) = "unbind"
        /\ \E call \in {"setup", "setup skipped", "done", "drop"} : pc' = [pc EXCEPT ![r] = call]
    BY <1>5 DEF RereadUnbind
  <2>2. QED
    BY <1>2, <2>1
<1>6. CASE SaveBinding(r)
  <2>1. store = "etcd" => Handler(r) \notin stale
    BY DEF NothingStale
  <2>2. store = "etcd" => Target(r) \in objects'
    BY <1>1, <1>6, <2>1 DEF SaveBinding, StoresBinding, SetBindInstance, Etcd!SetBindInstance
  <2>3. UNCHANGED run /\ Op(r) = "bind"
    BY <1>6 DEF SaveBinding
  <2>4. \E call \in {"setup", "secret", "done"} : pc' = [pc EXCEPT ![r] = call]
    BY <1>6 DEF SaveBinding, StoresBinding
  <2>5. QED
    BY <1>2, <2>2, <2>3, <2>4
<1>7. CASE SaveInstance(r) \/ SaveKey(r) \/ DropProvisionSecret(r) \/ CopySecret(r)
           \/ ListBinding(r) \/ DropBindingSecret(r)
  <2>1. /\ UNCHANGED run
        /\ \/ Op(r) # "bind" /\ pc' = [pc EXCEPT ![r] = "setup"]
           \/ \E call \in {"done", "list"} : pc' = [pc EXCEPT ![r] = call]
    BY <1>7 DEF SaveInstance, SaveKey, StoresBinding, DropProvisionSecret, CopySecret, ListBinding,
                DropBindingSecret, Refused
  <2>2. QED
    BY <1>2, <2>1
<1>8. CASE DropBinding(r) \/ UnlistBinding(r)
  <2>1. UNCHANGED run /\ Op(r) = "unbind" /\ ~launch
    BY <1>8 DEF DropBinding, UnlistBinding, Fits, Courses
  <2>2. \E call \in {"unlist", "secret", "done"} : pc' = [pc EXCEPT ![r] = call]
    BY <1>8 DEF DropBinding, UnlistBinding, Refused
  <2>3. QED
    BY <1>2, <2>1, <2>2
<1>9. CASE SetupJob(r)
  <2>1. /\ \E call \in {"key", "wait", "done"} : pc' = [pc EXCEPT ![r] = call]
        /\ pc[r] \in {"setup", "setup skipped"}
    BY <1>9 DEF SetupJob
  <2>2. UNCHANGED run \/ (/\ SetState(Target(r), r, "not yet started", Op(r))
                           /\ run' = [run EXCEPT ![r] = IF pc[r] = "setup" THEN "running" ELSE "skipping"])
    BY <1>9 DEF SetupJob, JobStarts
  <2>3. ASSUME run'[r] # "none", run[r] = "none"
        PROVE  store = "crd" => Target(r) \in objects'
    BY <2>2, <2>3 DEF SetState, Crd!SetState, Crd!HoldsJobsOf
  <2>4. run'[r] = "skipping" => run[r] = "skipping" \/ pc[r] = "setup skipped"
    BY <2>1, <2>2 DEF TypeOK
  <2>5. QED
    BY <1>1, <1>2, <2>1, <2>3, <2>4 DEF Courses
<1>10. QED
  BY <1>3, <1>4, <1>5, <1>6, <1>7, <1>8, <1>9 DEF HandlerStep

\* What the handler of a bind goes on to.
LEMMA HandlerFetchable ==
  ASSUME IInv, FetchInv, NEW r \in Tokens, HandlerStep(r)
  PROVE  Courses(r)' /\ Kept(r)'
<1>1. /\ TypeOK /\ StoreTypeOK /\ Fits(r) /\ Courses(r) /\ Kept(r) /\ JobInv(r)
      /\ Target(r) \in Ids /\ NothingStale
  BY Contents DEF IInv, JobInv, FetchInv, TypeOK
<1>2. /\ UNCHANGED <<req, outcome, pending, launch>>
      /\ pc[r] \notin {"idle", "done", "restart"} /\ pc'[r] \notin {"idle", "restart"}
      /\ pc'[r] \in Unstarted => pc[r] \in Unstarted
      /\ \/ UNCHANGED <<run, note>> /\ JobsKept
         \/ RecordsJob(r)
      /\ store' = store
  BY HandlerAdvances DEF Apart
<1>3. /\ Takes
      /\ (Deprovisioned => Deprovisioned') /\ \A b \in Bindings : Unbound(b) => Unbound(b)'
  BY ThreadTakes, ThreadLeavesUndone
<1>4. Op(r)' = Op(r) /\ Target(r)' = Target(r)
  BY <1>2 DEF Op, Target
<1>5. /\ pc'[r] = "setup skipped" => Op(r) \in {"deprovision", "unbind"}
      /\ Op(r) = "unbind" /\ pc'[r] \in {"unlist", "secret"} => ~launch
      /\ Op(r) = "bind" /\ pc'[r] = "setup" /\ store = "etcd" => Target(r) \in objects'
      /\ run'[r] \in {"skipping"} => run[r] = "skipping" \/ pc[r] = "setup skipped"
      /\ Op(r) = "bind" /\ run'[r] # "none" /\ run[r] = "none"
           => IF store = "etcd" THEN pc[r] = "setup" ELSE Target(r) \in objects'
  BY <1>1, HandlerCourses DEF IInv
<1>6. Courses(r)'
  BY <1>1, <1>2, <1>4, <1>5 DEF Courses
<1>7. ASSUME Op(r) = "bind"
      PROVE  /\ Undone(Target(r)) => Undone(Target(r))'
             /\ Instance \in objects => Instance \in objects' \/ Undone(Target(r))'
             /\ Target(r) \in objects => Target(r) \in objects' \/ Undone(Target(r))'
             /\ Target(r) \in secrets => Target(r) \in secrets' \/ Undone(Target(r))'
  BY <1>1, <1>3, <1>4, <1>7 DEF Takes, Undone, Fits, BindMethods
<1>8. Kept(r)'
  BY <1>1, <1>2, <1>4, <1>5, <1>7 DEF Kept, StoreTypeOK, RecordsJob
<1>9. QED
  BY <1>6, <1>8

\* A bundle that has bound has left credentials; the subscriber only takes away.
LEMMA JobFetchable ==
  ASSUME IInv, FetchInv, NEW r \in Tokens, RunnerStep(r) \/ SubscriberStep(r)
  PROVE  Courses(r)' /\ Kept(r)'
<1>1. /\ TypeOK /\ StoreTypeOK /\ Fits(r) /\ Courses(r) /\ Kept(r)
      /\ UNCHANGED <<req, pc, store, launch>> /\ run[r] # "none" /\ run'[r] \in {"returned", run[r]}
      /\ pc[r] \notin Unstarted
  BY RunnerAdvances, SubscriberAdvances, Underway DEF Apart, IInv, JobInv, FetchInv, TypeOK
<1>2. /\ Takes
      /\ (Deprovisioned => Deprovisioned') /\ \A b \in Bindings : Unbound(b) => Unbound(b)'
  BY ThreadTakes, ThreadLeavesUndone
<1>3. Op(r)' = Op(r) /\ Target(r)' = Target(r)
  BY <1>1 DEF Op, Target
<1>4. Op(r) = "bind" /\ outcome'[r] = "succeeded" => outcome[r] = "succeeded" \/ Target(r) \in secrets'
  <2>1. CASE RunnerEnds(r)
    <3>1. ASSUME NEW o, o # "succeeded", Returns(r, o)
          PROVE  outcome'[r] # "succeeded"
      BY <1>1, <3>1 DEF Returns, TypeOK
    <3>2. QED
      BY <2>1, <3>1 DEF RunnerEnds, CreateSecret
  <2>2. CASE RunnerSkips(r)
    BY <1>1, <2>2 DEF RunnerSkips, Courses
  <2>3. CASE SubscriberStep(r)
    BY <2>3, SubscriberAdvances
  <2>4. QED
    BY <2>1, <2>2, <2>3 DEF RunnerStep
<1>5. Courses(r)'
  BY <1>1, <1>3 DEF Courses
<1>6. ASSUME Op(r) = "bind"
      PROVE  /\ Undone(Target(r)) => Undone(Target(r))'
             /\ Instance \in objects => Instance \in objects' \/ Undone(Target(r))'
             /\ Target(r) \in objects => Target(r) \in objects' \/ Undone(Target(r))'
             /\ Target(r) \in secrets => Target(r) \in secrets' \/ Undone(Target(r))'
  BY <1>1, <1>2, <1>3, <1>6 DEF Takes, Undone, Fits, BindMethods
<1>7. Kept(r)'
  BY <1>1, <1>3, <1>4, <1>6 DEF Kept
<1>8. QED
  BY <1>5, <1>7

\* Every step of a thread.
LEMMA ThreadFetchable ==
  ASSUME IInv, FetchInv, NEW r \in Tokens,
         Request(r) \/ HandlerStep(r) \/ RunnerStep(r) \/ SubscriberStep(r)
  PROVE  FetchInv'
<1>1. SUFFICES ASSUME NEW t \in Tokens
               PROVE  Courses(t)' /\ Kept(t)'
  BY DEF FetchInv
<1>2. CASE t = r
  BY <1>2, RequestFetchable, HandlerFetchable, JobFetchable
<1>3. CASE t # r
  BY <1>3, OthersFetchable
<1>4. QED
  BY <1>2, <1>3

\* The process dies, or looks for jobs to restart: nothing is taken away, what is
\* undone is not run again.
LEMMA ProcessFetchable ==
  ASSUME IInv, FetchInv, UNCHANGED <<launch, req, outcome, store, objects, secrets>>,
         \A id \in Ids, t \in Tokens : jobs'[id][t] # jobs[id][t] => pc[t] = "restart",
         \A t \in Tokens :
           /\ pc'[t] \in {pc[t], "done"} \/ (t \in pending /\ pc'[t] = "restart" /\ Target(t) = Instance)
           /\ pc[t] = "idle" <=> pc'[t] = "idle"
           /\ run'[t] \in {run[t], "none"} \/ (pc[t] = "restart" /\ run'[t] = "running")
           /\ note'[t] \in {note[t], "none"} \/ pc[t] = "restart"
           /\ t \in pending' => t \in pending \/ jobs[Target(t)][t] = "in progress"
  PROVE  FetchInv'
<1>1. \A t \in Tokens : Op(t)' = Op(t) /\ Target(t)' = Target(t) /\ Fits(t) /\ JobInv(t)
  BY DEF Op, Target, IInv, JobInv
<1>2. \A t \in Tokens : t \in pending => pc[t] = "done" /\ Target(t) \in Ids
  BY <1>1, Contents DEF IInv, JobInv, Recoverable
<1>3. ASSUME NEW t \in Tokens, Over(t), t \notin pending
      PROVE  Over(t)'
  BY <1>3 DEF Over, Unstarted
<1>4. Deprovisioned => Deprovisioned'
  <2>1. ASSUME NEW t \in Tokens, Op(t) = "deprovision", outcome[t] = "succeeded",
               Over(t), t \notin pending, note[t] \notin {"progress", "final"},
               jobs[Instance][t] \notin {"not yet started", "in progress"}
        PROVE  Deprovisioned'
    <3>1. pc[t] # "restart" /\ Target(t) = Instance /\ Instance \in Ids
      BY <1>1, <2>1 DEF Over, Fits, BindMethods, Ids
    <3>2. /\ Over(t)' /\ t \notin pending' /\ note'[t] \notin {"progress", "final"}
          /\ jobs'[Instance][t] \notin {"not yet started", "in progress"}
      BY <1>3, <2>1, <3>1
    <3>3. Op(t)' = "deprovision" /\ outcome'[t] = "succeeded"
      BY <1>1, <2>1
    <3>4. QED
      BY <3>2, <3>3 DEF Deprovisioned
  <2>2. QED
    BY <2>1 DEF Deprovisioned
<1>5. ASSUME NEW b \in Bindings, Unbound(b)
      PROVE  Unbound(b)'
  <2>1. PICK t \in Tokens :
          /\ Op(t) = "unbind" /\ Target(t) = b
          /\ ~launch \/ (outcome[t] \in {"succeeded", "action not found"} /\ Over(t))
    BY <1>5 DEF Unbound
  <2>2. Target(t) # Instance
    BY <2>1
  <2>3. Over(t) => Over(t)'
    BY <2>2 DEF Over, Unstarted
  <2>4. QED
    BY <1>1, <2>1, <2>3 DEF Unbound
<1>6. ASSUME NEW t \in Tokens
      PROVE  Courses(t)' /\ Kept(t)'
  <2>1. Courses(t) /\ Kept(t) /\ Fits(t)
    BY <1>1 DEF FetchInv
  <2>2. Courses(t)'
    BY <1>1, <1>2, <2>1 DEF Courses, Unstarted
  <2>3. Op(t) = "bind" => Target(t) \in Bindings /\ pc[t] # "restart" /\ pc'[t] # "restart"
    BY <2>1, <2>2, <1>1 DEF Fits, BindMethods, Courses
  <2>4. Op(t) = "bind" /\ Undone(Target(t)) => Undone(Target(t))'
    BY <1>1, <1>4, <1>5, <2>3 DEF Undone
  <2>5. Kept(t)'
    BY <1>1, <2>1, <2>3, <2>4 DEF Kept
  <2>6. QED
    BY <2>2, <2>5
<1>7. QED
  BY <1>6 DEF FetchInv

\* So it is for Crash and Recover.
LEMMA ProcessKeepsFetchable ==
  ASSUME IInv, FetchInv, Crash \/ Recover
  PROVE  FetchInv'
<1> USE DEF requestVars, storeVars, jobVars, processVars
<1>1. TypeOK /\ StoreTypeOK /\ \A t \in Tokens : JobInv(t) /\ Target(t) \in Ids
  BY Contents DEF IInv, TypeOK
<1>2. CASE Crash
  BY <1>1, <1>2, ProcessFetchable DEF Crash
<1>3. CASE Restart
  <2>1. \A t \in Tokens : t \in pending' => jobs[Target(t)][t] = "in progress"
    <3>1. SUFFICES ASSUME NEW t \in Tokens, t \in pending'
                   PROVE  jobs[Target(t)][t] = "in progress"
      OBVIOUS
    <3>2. PICK id \in Ids : jobs[id][t] = "in progress"
      BY <1>1, <1>3, <3>1 DEF Restart, FindJobStateByState, Crd!FindJobStateByState,
                            Etcd!FindJobStateByState, Etcd!Ids, Ids, StoreTypeOK
    <3>3. id = Target(t)
      BY <1>1, <3>2 DEF JobInv, Recorded
    <3>4. QED
      BY <3>2, <3>3
  <2>2. QED
    BY <1>1, <1>3, <2>1, ProcessFetchable DEF Restart
<1>4. CASE RecoveryStops \/ RecoveryEnds
  BY <1>1, <1>4, ProcessFetchable DEF RecoveryStops, RecoveryEnds, Serves
<1>5. ASSUME NEW r \in Tokens, RecoverJob(r)
      PROVE  FetchInv'
  <2>1. /\ UNCHANGED <<launch, req, outcome, store, objects, secrets, jobs, run, note>>
        /\ pending' \subseteq pending /\ r \in pending /\ Target(r) = Instance
        /\ UNCHANGED pc \/ pc' = [pc EXCEPT ![r] = "restart"]
    BY <1>5 DEF RecoverJob, Comes, Goes, Serves
  <2>2. pc[r] = "done"
    BY <1>1, <2>1 DEF JobInv, Recoverable
  <2>3. \A t \in Tokens : \/ pc'[t] = pc[t]
                          \/ t = r /\ pc'[t] = "restart"
    BY <1>1, <2>1 DEF TypeOK
  <2>4. QED
    BY <2>1, <2>2, <2>3, ProcessFetchable
<1>6. ASSUME NEW r \in Tokens, RestartJob(r)
      PROVE  FetchInv'
  <2>1. /\ UNCHANGED <<launch, req, outcome, store, objects, secrets>>
        /\ pc[r] = "restart" /\ pending' \subseteq pending
    BY <1>6 DEF RestartJob, SetState, Crd!SetState, Etcd!SetState, JobStarts, Serves
  <2>2. /\ pc'[r] = "done" /\ run'[r] \in {run[r], "running"}
        /\ \A t \in Tokens \ {r} : pc'[t] = pc[t] /\ run'[t] = run[t] /\ note'[t] = note[t]
    BY <1>1, <1>6 DEF RestartJob, JobStarts, Notes, TypeOK
  <2>3. \A id \in Ids, t \in Tokens : jobs'[id][t] # jobs[id][t] => t = r
    <3>1. UNCHANGED jobs \/ SetState(Target(r), r, "not yet started", Op(r))
      BY <1>6 DEF RestartJob
    <3>2. "not yet started" \in JobStates /\ Op(r) \in Methods \union {"none"}
      BY <1>1, Contents DEF JobStates
    <3>3. SetState(Target(r), r, "not yet started", Op(r)) => StateWritten(Target(r), r, "not yet started")
      BY <1>1, <3>2, StateRecorded
    <3>4. QED
      BY <3>1, <3>3 DEF StateWritten
  <2>4. QED
    BY <2>1, <2>2, <2>3, ProcessFetchable
<1>7. QED
  BY <1>2, <1>3, <1>4, <1>5, <1>6 DEF Recover

\* A binding whose job is told as succeeded can be fetched, over either store, for
\* any requests at the same time and any crashes, until something has undone it.
THEOREM BoundFetchable == Spec => []FetchableWhenBound
<1>1. Init => FetchInv
  BY DEF Init, FetchInv, Courses, Kept, Op, NoRequest
<1>2. IInv /\ FetchInv /\ [Next]_vars => FetchInv'
  <2>1. ASSUME IInv, FetchInv, Next
        PROVE  FetchInv'
    BY <2>1, ThreadFetchable, ProcessKeepsFetchable DEF Next
  <2>2. ASSUME FetchInv, UNCHANGED vars
        PROVE  FetchInv'
    <3>1. UNCHANGED <<launch, req, outcome, store, objects, secrets, jobs, pc, run, note, pending>>
      BY <2>2 DEF vars, storeVars, requestVars, jobVars, processVars
    <3>2. Deprovisioned' = Deprovisioned /\ \A t \in Tokens : Unbound(Target(t))' = Unbound(Target(t))
      BY <3>1 DEF Deprovisioned, Unbound, Over, Op, Target
    <3>3. QED
      BY <2>2, <3>1, <3>2 DEF FetchInv, Courses, Kept, Undone, Op, Target
  <2>3. QED
    BY <2>1, <2>2
<1>3. IInv /\ FetchInv => FetchableWhenBound
  <2>1. SUFFICES ASSUME IInv, FetchInv, NEW r \in Tokens, Op(r) = "bind", outcome[r] = "succeeded",
                        GetBind(Target(r)) # "found"
                 PROVE  \E t \in Tokens :
                          \/ Op(t) = "deprovision" /\ outcome[t] = "succeeded"
                          \/ /\ Op(t) = "unbind" /\ Target(t) = Target(r)
                             /\ ~launch \/ outcome[t] \in {"succeeded", "action not found"}
    BY DEF FetchableWhenBound
  <2>2. Undone(Target(r))
    BY <2>1 DEF FetchInv, Kept, GetBind
  <2>3. QED
    BY <2>2 DEF Undone, Deprovisioned, Unbound
<1>4. QED
  BY <1>1, <1>2, <1>3, Invariant, PTL DEF Spec

-----------------------------------------------------------------------------
(* What keeps a binding naming its job, over etcd, when no handler runs    *)
(* beside another and the broker lives on.                                 *)

Handling(r) == pc[r] \notin {"idle", "done"}

\* A bind of b: answered with the name of its job; made with its client waiting; or
\* under way, with the binding stored and not yet naming the job.
Accepted(t, b) == Op(t) = "bind" /\ Target(t) = b /\ answer[t].code = "accepted"
Awaited(t, b) ==
  /\ Op(t) = "bind" /\ Target(t) = b
  /\ answer[t].code \in {"done", "error"} /\ run[t] = "returned"
Making(t, b) == Op(t) = "bind" /\ Target(t) = b /\ pc[t] \in {"setup", "key", "wait", "list"}

\* A handler has no answer before it has come to its end; a bind is accepted with a
\* job that is recorded, and answered after one that has returned.
BindCourses(r) ==
  /\ pc[r] = "idle" => Op(r) = "none"
  /\ pc[r] # "done" => answer[r].code = "none"
  /\ pc[r] # "restart"
  /\ Op(r) = "bind" =>
       /\ pc[r] # "setup skipped"
       /\ pc[r] \in {"setup", "key", "wait"} => launch
       /\ pc[r] = "secret" => ~launch
       /\ pc[r] = "list" /\ launch => run[r] = "returned"
       /\ answer[r].code = "accepted" => launch
       /\ pc[r] = "key" \/ answer[r].code = "accepted" => jobs[Target(r)][r] # "none"

\* A binding names a job that was accepted to make it.  One that names none, though
\* a job was once accepted for it, was made anew with its client waiting, or is
\* being made.
Named(b) ==
  /\ keys[b] # NoToken => keys[b] \in Tokens /\ Accepted(keys[b], b)
  /\ b \in objects /\ keys[b] = NoToken /\ (\E t \in Tokens : Accepted(t, b))
       => \E t \in Tokens : Awaited(t, b) \/ Making(t, b)

NameInv ==
  /\ store = "etcd" /\ phase = "serving"
  /\ \A r, t \in Tokens : Handling(r) /\ Handling(t) => r = t
  /\ \A r \in Tokens : BindCourses(r)
  /\ \A b \in Bindings : Named(b)

\* A binding is not stored: while it stays it names the job it did.
BindingKept(b) ==
  /\ b \in objects' => b \in objects /\ keys'[b] = keys[b]
  /\ keys'[b] \in {keys[b], NoToken}

BindingsKept == \A b \in Bindings : BindingKept(b)

\* etcd forgets no job.
JobsStay == \A id \in Ids, t \in Tokens : jobs[id][t] # "none" => jobs'[id][t] # "none"

\* What an operation of the etcd store does to the bindings and the jobs.
LEMMA EtcdKeeps ==
  ASSUME StoreTypeOK, store = "etcd", NEW r \in Tokens,
         \/ UNCHANGED storeVars
         \/ \E copy, p : SetServiceInstance(copy, p)
         \/ \E id \in Ids : DeleteObject(id) \/ CreateSecret(id) \/ DeleteSecret(id)
         \/ \E id \in Ids, s \in JobStates : \E m : SetState(id, r, s, m)
  PROVE  BindingsKept /\ JobsStay /\ store' = store
<1> USE DEF BindingsKept, BindingKept, JobsStay, storeVars
<1>1. CASE UNCHANGED storeVars
  BY <1>1
<1>2. ASSUME NEW copy, NEW p, SetServiceInstance(copy, p)
      PROVE  BindingsKept /\ JobsStay /\ store' = store
  BY <1>2 DEF SetServiceInstance, Etcd!SetServiceInstance
<1>3. ASSUME NEW id \in Ids, DeleteObject(id)
      PROVE  BindingsKept /\ JobsStay /\ store' = store
  <2>1. /\ objects' = objects \ {id} /\ jobs' = jobs /\ store' = store
        /\ \A b \in Bindings : keys'[b] = IF b = id THEN NoToken ELSE keys[b]
    BY <1>3 DEF DeleteObject, Etcd!DeleteObject, StoreTypeOK
  <2>2. QED
    BY <2>1
<1>4. ASSUME NEW id \in Ids, CreateSecret(id) \/ DeleteSecret(id)
      PROVE  BindingsKept /\ JobsStay /\ store' = store
  BY <1>4 DEF CreateSecret, DeleteSecret
<1>5. ASSUME NEW id \in Ids, NEW s \in JobStates, NEW m, SetState(id, r, s, m)
      PROVE  BindingsKept /\ JobsStay /\ store' = store
  <2>1. jobs' = [jobs EXCEPT ![id][r] = s] /\ UNCHANGED <<store, objects, keys>> /\ s # "none"
    BY <1>5 DEF SetState, Etcd!SetState, JobStates
  <2>2. \A i \in Ids, t \in Tokens : jobs'[i][t] = jobs[i][t] \/ jobs'[i][t] = s
    BY <2>1 DEF StoreTypeOK
  <2>3. QED
    BY <2>1, <2>2
<1>6. QED
  BY <1>1, <1>2, <1>3, <1>4, <1>5

\* The invariant of a binding, when no bind of it is accepted nor one that made it lost.
LEMMA NamedStays ==
  ASSUME NEW b \in Bindings, Named(b), BindingKept(b),
         \A t \in Tokens : Accepted(t, b) => launch,
         \A t \in Tokens : Accepted(t, b)' <=> Accepted(t, b),
         launch => \A t \in Tokens : Awaited(t, b) \/ Making(t, b) => (Awaited(t, b) \/ Making(t, b))'
  PROVE  Named(b)'
<1>1. keys'[b] # NoToken => keys'[b] = keys[b]
  BY DEF BindingKept
<1>2. ASSUME keys'[b] # NoToken
      PROVE  keys'[b] \in Tokens /\ Accepted(keys[b], b)'
  BY <1>1, <1>2 DEF Named
<1>3. (keys[b] # NoToken => keys[b] \in Tokens /\ Accepted(keys[b], b))'
  BY <1>1, <1>2 DEF Accepted
<1>4. ASSUME b \in objects', keys'[b] = NoToken, NEW u \in Tokens, Accepted(u, b)'
      PROVE  (\E t \in Tokens : Awaited(t, b) \/ Making(t, b))'
  <2>1. PICK t \in Tokens : Awaited(t, b) \/ Making(t, b)
    BY <1>4 DEF BindingKept, Named
  <2>2. launch
    BY <1>4
  <2>3. QED
    BY <2>1, <2>2
<1>5. QED
  BY <1>3, <1>4 DEF Named

\* A handler goes on, without an answer, or answers and is done.
LEMMA AnswersAtTheEnd ==
  ASSUME TypeOK, NEW r \in Tokens, HandlerStep(r)
  PROVE  /\ \A t \in Tokens \ {r} : answer'[t] = answer[t]
         /\ answer'[r] = answer[r] \/ pc'[r] = "done"
<1> USE DEF Goes, Answers, AnswersFor
<1>1. \/ UNCHANGED answer
      \/ /\ pc' = [pc EXCEPT ![r] = "done"]
         /\ \E a : answer' = [answer EXCEPT ![r] = a]
  <2>1. CASE CheckProvision(r) \/ CheckUpdate(r) \/ CheckDeprovision(r) \/ CheckUnbind(r)
    BY <2>1 DEF CheckProvision, CheckUpdate, CheckDeprovision, CheckUnbind, AnswersInProgress
  <2>2. CASE FindBind(r) \/ FindUnbind(r) \/ RereadUnbind(r) \/ JobReturned(r)
    BY <2>2 DEF FindBind, FindUnbind, RereadUnbind, JobReturned
  <2>3. CASE SaveInstance(r) \/ SaveBinding(r) \/ SetupJob(r) \/ SaveKey(r)
    BY <2>3 DEF SaveInstance, SaveBinding, SetupJob, SaveKey, StoresBinding, Refused
  <2>4. CASE \/ DropProvisionSecret(r) \/ CopySecret(r) \/ ListBinding(r) \/ DropBinding(r)
             \/ UnlistBinding(r) \/ DropBindingSecret(r)
    BY <2>4 DEF DropProvisionSecret, CopySecret, ListBinding, DropBinding, UnlistBinding,
                DropBindingSecret, Refused
  <2>5. QED
    BY <2>1, <2>2, <2>3, <2>4 DEF HandlerStep
<1>2. QED
  BY <1>1 DEF TypeOK

\* No handler but that of a bind stores bindings.
LEMMA OnlyBindsStore ==
  ASSUME IInv, NEW r \in Tokens, HandlerStep(r), Op(r) # "bind", store = "etcd"
  PROVE  BindingsKept /\ JobsStay
<1>1. StoreTypeOK /\ Target(r) \in Ids /\ Instance \in Ids
  BY Contents DEF IInv, TypeOK, Ids
<1>2. \/ UNCHANGED storeVars
      \/ \E copy, p : SetServiceInstance(copy, p)
      \/ \E id \in Ids : DeleteObject(id) \/ CreateSecret(id) \/ DeleteSecret(id)
      \/ \E id \in Ids, s \in JobStates : \E m : SetState(id, r, s, m)
  <2>1. CASE \/ CheckProvision(r) \/ CheckUpdate(r) \/ CheckDeprovision(r) \/ CheckUnbind(r)
             \/ FindUnbind(r) \/ RereadUnbind(r) \/ JobReturned(r)
    BY <2>1 DEF CheckProvision, CheckUpdate, CheckDeprovision, CheckUnbind, FindUnbind,
                RereadUnbind, JobReturned, Reading
  <2>2. CASE SaveInstance(r) \/ UnlistBinding(r)
    BY <2>2 DEF SaveInstance, UnlistBinding, Refused
  <2>3. CASE DropProvisionSecret(r) \/ DropBinding(r) \/ DropBindingSecret(r)
    BY <1>1, <2>3 DEF DropProvisionSecret, DropBinding, DropBindingSecret
  <2>4. CASE SetupJob(r)
    BY <1>1, <2>4 DEF SetupJob, JobStates
  <2>5. ~FindBind(r) /\ ~SaveBinding(r) /\ ~SaveKey(r) /\ ~CopySecret(r) /\ ~ListBinding(r)
    BY DEF FindBind, SaveBinding, SaveKey, CopySecret, ListBinding, At
  <2>6. QED
    BY <2>1, <2>2, <2>3, <2>4, <2>5 DEF HandlerStep
<1>3. QED
  BY <1>1, <1>2, EtcdKeeps

\* Over etcd the handler of a bind stores a binding that names no job, and again when
\* its job is recorded and the answer names it; else it stores none.
LEMMA BindWays ==
  ASSUME IInv, NEW r \in Tokens, HandlerStep(r), Op(r) = "bind", store = "etcd", BindCourses(r)
  PROVE  /\ JobsStay /\ UNCHANGED <<launch, req>>
         /\ \/ /\ BindingsKept /\ answer'[r].code # "accepted" /\ ~Making(r, Target(r))
               /\ pc'[r] \in {"save", "done"} \/ (~launch /\ pc'[r] = "list")
            \/ /\ BindingsKept /\ launch /\ answer'[r].code # "accepted"
               /\ pc'[r] \in {"key", "wait", "list"} \/ (pc'[r] = "done" /\ Awaited(r, Target(r))')
               /\ pc'[r] = "list" => run'[r] = "returned"
               /\ pc'[r] = "key" => jobs'[Target(r)][r] # "none"
            \/ BindingsKept /\ ~launch /\ answer'[r].code # "accepted" /\ pc'[r] = "done"
            \/ /\ Etcd!SetBindInstance(Target(r), req[r].params, NoToken)
               /\ answer'[r] = answer[r] /\ pc'[r] = IF launch THEN "setup" ELSE "secret"
            \/ /\ Etcd!SetBindInstance(Target(r), req[r].params, r)
               /\ pc[r] = "key" /\ pc'[r] = "done" /\ answer'[r].code = "accepted"
<1>1. /\ TypeOK /\ StoreTypeOK /\ Target(r) \in Ids /\ Instance \in Ids /\ stale = {}
      /\ UNCHANGED <<req, launch>> /\ Op(r)' = "bind" /\ Target(r)' = Target(r)
  BY Contents, HandlerAdvances DEF IInv, NothingStale, TypeOK, Ids, Op, Target
<1>2. /\ \A call : Goes(r, call) => pc'[r] = call /\ answer'[r] = answer[r]
      /\ \A code, t : AnswersFor(r, code, t) => pc'[r] = "done" /\ answer'[r].code = code
      /\ pc[r] # "done" => answer[r].code = "none"
  <2>1. ASSUME NEW call, Goes(r, call)
        PROVE  pc'[r] = call /\ answer'[r] = answer[r]
    BY <1>1, <2>1 DEF TypeOK, Goes
  <2>2. ASSUME NEW code, NEW t, AnswersFor(r, code, t)
        PROVE  pc'[r] = "done" /\ answer'[r].code = code
    BY <1>1, <2>2 DEF TypeOK, AnswersFor
  <2>3. QED
    BY <2>1, <2>2, Zenon DEF BindCourses
<1>3. UNCHANGED storeVars => BindingsKept /\ JobsStay
  BY <1>1, EtcdKeeps
<1>4. CASE FindBind(r)
  <2>1. BindingsKept /\ JobsStay /\ ~Making(r, Target(r))
    BY <1>3, <1>4 DEF FindBind, At, Making
  <2>2. pc'[r] \in {"save", "done"} /\ answer'[r].code # "accepted"
    <3>1. pc[r] = "find"
      BY <1>4 DEF FindBind, At
    <3>2. Goes(r, "save") \/ \E code \in Codes \ {"accepted"} : \E t : AnswersFor(r, code, t)
      BY <1>4 DEF FindBind, Answers, Codes
    <3>3. QED
      BY <1>2, <3>1, <3>2
  <2>3. QED
    BY <1>1, <2>1, <2>2
<1>5. CASE SaveBinding(r)
  <2>1. /\ Etcd!SetBindInstance(Target(r), req[r].params, NoToken)
        /\ Goes(r, IF launch THEN "setup" ELSE "secret")
    BY <1>1, <1>5 DEF SaveBinding, StoresBinding, SetBindInstance
  <2>2. JobsStay
    BY <2>1 DEF Etcd!SetBindInstance, JobsStay
  <2>3. QED
    BY <1>1, <1>2, <2>1, <2>2
<1>6. CASE SaveKey(r)
  <2>1. /\ Etcd!SetBindInstance(Target(r), req[r].params, r)
        /\ AnswersFor(r, "accepted", r) /\ pc[r] = "key"
    BY <1>1, <1>6 DEF SaveKey, StoresBinding, SetBindInstance, At
  <2>2. JobsStay
    BY <2>1 DEF Etcd!SetBindInstance, JobsStay
  <2>3. QED
    BY <1>1, <1>2, <2>1, <2>2
<1>7. CASE SetupJob(r)
  <2>1. /\ SetState(Target(r), r, "not yet started", "bind")
        /\ pc[r] = "setup" /\ launch
        /\ Goes(r, "key") \/ Goes(r, "wait")
    BY <1>1, <1>7 DEF SetupJob, SetStateFails, BindCourses
  <2>2. BindingsKept /\ JobsStay
    BY <1>1, <2>1, EtcdKeeps DEF JobStates
  <2>3. jobs'[Target(r)][r] # "none"
    <3>1. "not yet started" \in JobStates /\ "bind" \in Methods
      BY DEF JobStates, Methods
    <3>2. QED
      BY ONLY <1>1, <2>1, <3>1, r \in Tokens, StateRecorded DEF StateWritten
  <2>4. pc'[r] \in {"key", "wait"} /\ answer'[r].code # "accepted"
    BY <1>2, <2>1
  <2>5. launch
    BY <2>1
  <2>6. QED
    BY <1>1, <2>2, <2>3, <2>4, <2>5
<1>8. CASE JobReturned(r)
  <2>1. /\ UNCHANGED storeVars /\ Goes(r, "list") /\ run' = run /\ run[r] = "returned"
    BY <1>8 DEF JobReturned, Reading, jobVars
  <2>2. BindingsKept /\ JobsStay /\ pc'[r] = "list" /\ answer'[r].code # "accepted" /\ run'[r] = "returned"
    BY <1>2, <1>3, <1>8, <2>1 DEF JobReturned
  <2>3. launch
    BY <1>8 DEF JobReturned, BindCourses
  <2>4. QED
    BY <1>1, <2>2, <2>3
<1>9. CASE CopySecret(r)
  <2>1. ~launch /\ ~Making(r, Target(r))
    BY <1>9 DEF CopySecret, At, BindCourses, Making
  <2>2. UNCHANGED storeVars \/ CreateSecret(Target(r))
    BY <1>9 DEF CopySecret
  <2>3. BindingsKept /\ JobsStay
    BY <1>1, <2>2, EtcdKeeps
  <2>4. pc'[r] \in {"done", "list"} /\ answer'[r].code # "accepted"
    BY <1>2, <1>9 DEF CopySecret, At, Answers
  <2>5. QED
    BY <1>1, <2>1, <2>3, <2>4
<1>10. CASE ListBinding(r)
  <2>1. /\ SetServiceInstance(AddBinding(held[r], Target(r)), held[r].params)
        /\ Answers(r, IF held[r].creds THEN "done" ELSE "error") /\ UNCHANGED run /\ pc[r] = "list"
    BY <1>1, <1>10 DEF ListBinding, Refused, HandlerWrites, jobVars, At
  <2>2. BindingsKept /\ JobsStay
    BY <1>1, <2>1, EtcdKeeps
  <2>3. pc'[r] = "done" /\ answer'[r].code \in {"done", "error"}
    BY <1>2, <2>1 DEF Answers
  <2>4. launch => Awaited(r, Target(r))'
    BY <1>1, <2>1, <2>3 DEF BindCourses, Awaited
  <2>5. QED
    BY <1>1, <2>2, <2>3, <2>4
<1>11. ~(CheckProvision(r) \/ CheckUpdate(r) \/ CheckDeprovision(r) \/ CheckUnbind(r)
           \/ FindUnbind(r) \/ RereadUnbind(r) \/ SaveInstance(r) \/ DropProvisionSecret(r)
           \/ DropBinding(r) \/ UnlistBinding(r) \/ DropBindingSecret(r))
  BY DEF CheckProvision, CheckUpdate, CheckDeprovision, CheckUnbind, FindUnbind, RereadUnbind,
         SaveInstance, DropProvisionSecret, DropBinding, UnlistBinding, DropBindingSecret, At
<1>12. QED
  BY <1>4, <1>5, <1>6, <1>7, <1>8, <1>9, <1>10, <1>11 DEF HandlerStep

\* A handler that runs alone.
LEMMA HandlerNames ==
  ASSUME IInv, NameInv, NEW r \in Tokens, HandlerStep(r)
  PROVE  JobsStay /\ BindCourses(r)' /\ \A b \in Bindings : Named(b)'
<1>1. /\ TypeOK /\ StoreTypeOK /\ store = "etcd" /\ BindCourses(r) /\ Fits(r)
      /\ UNCHANGED <<req, launch>> /\ Op(r)' = Op(r) /\ Target(r)' = Target(r)
      /\ pc[r] \notin {"idle", "done", "restart"} /\ pc'[r] \notin {"idle", "restart"}
      /\ answer[r].code = "none"
  BY HandlerAdvances DEF IInv, JobInv, TypeOK, NameInv, Op, Target, BindCourses
<1>2. answer'[r] = answer[r] \/ pc'[r] = "done"
  BY <1>1, AnswersAtTheEnd
<1>3. ASSUME NEW t \in Tokens \ {r}, NEW b \in Bindings
      PROVE  /\ Accepted(t, b)' <=> Accepted(t, b)
             /\ Awaited(t, b) \/ Making(t, b) => (Awaited(t, b) \/ Making(t, b))'
  <2>1. UNCHANGED <<answer[t], pc[t], run[t], req[t]>>
    BY <1>1, AnswersAtTheEnd, HandlerAdvances DEF Apart
  <2>2. QED
    BY <2>1 DEF Accepted, Awaited, Making, Op, Target
<1>4. ASSUME NEW t \in Tokens, NEW b \in Bindings, Accepted(t, b)
      PROVE  launch
  BY <1>4 DEF NameInv, BindCourses, Accepted
<1>5. ASSUME NEW b \in Bindings, BindingKept(b), Accepted(r, b)' <=> Accepted(r, b),
             launch => (Awaited(r, b) \/ Making(r, b) => (Awaited(r, b) \/ Making(r, b))')
      PROVE  Named(b)'
  <2>1. \A t \in Tokens : Accepted(t, b)' <=> Accepted(t, b)
    BY <1>3, <1>5
  <2>2. launch => \A t \in Tokens : Awaited(t, b) \/ Making(t, b) => (Awaited(t, b) \/ Making(t, b))'
    BY <1>3, <1>5
  <2>3. QED
    BY <1>4, <1>5, <2>1, <2>2, NamedStays DEF NameInv
<1>6. ~Accepted(r, Target(r)) /\ ~Awaited(r, Target(r))
  BY <1>1 DEF Accepted, Awaited
<1>7. ASSUME NEW b \in Bindings, Op(r) # "bind" \/ b # Target(r)
      PROVE  /\ Accepted(r, b)' <=> Accepted(r, b)
             /\ ~Awaited(r, b) /\ ~Making(r, b)
  BY <1>1, <1>7 DEF Accepted, Awaited, Making
<1>8. CASE Op(r) # "bind"
  <2>1. BindingsKept /\ JobsStay
    BY <1>1, <1>8, OnlyBindsStore
  <2>2. BindCourses(r)'
    BY <1>1, <1>2, <1>8 DEF BindCourses
  <2>3. QED
    BY <1>5, <1>7, <1>8, <2>1, <2>2 DEF BindingsKept
<1>9. CASE Op(r) = "bind"
  <2>0. PICK b \in Bindings : b = Target(r)
    BY <1>1, <1>9 DEF Fits, BindMethods
  <2>1. b \in Bindings /\ b = Target(r) /\ JobsStay
    BY <1>1, <1>9, <2>0, BindWays
  <2>2. ASSUME BindingsKept, answer'[r].code # "accepted",
               launch => ~Making(r, b) \/ (Awaited(r, b) \/ Making(r, b))'
        PROVE  \A c \in Bindings : Named(c)'
    <3>1. ~Accepted(r, b)'
      BY <2>2 DEF Accepted
    <3>2. Named(b)'
      BY <1>5, <1>6, <2>1, <2>2, <3>1 DEF BindingsKept
    <3>3. \A c \in Bindings \ {b} : Named(c)'
      BY <1>5, <1>7, <2>1, <2>2 DEF BindingsKept
    <3>4. QED
      BY <2>1, <3>2, <3>3
  <2>3. ASSUME NEW key \in {NoToken, r}, Etcd!SetBindInstance(b, req[r].params, key)
        PROVE  /\ keys'[b] = key
               /\ \A c \in Bindings \ {b} : Named(c)'
    <3>1. \A c \in Bindings \ {b} : BindingKept(c)
      BY <1>1, <2>3 DEF Etcd!SetBindInstance, StoreTypeOK, BindingKept
    <3>2. keys'[b] = key
      BY <1>1, <2>1, <2>3 DEF Etcd!SetBindInstance, StoreTypeOK
    <3>3. QED
      BY <1>5, <1>7, <2>1, <3>1, <3>2
  <2>4. CASE /\ BindingsKept /\ answer'[r].code # "accepted" /\ ~Making(r, b)
             /\ pc'[r] \in {"save", "done"} \/ (~launch /\ pc'[r] = "list")
    <3>1. BindCourses(r)'
      BY <1>1, <1>2, <2>4 DEF BindCourses
    <3>2. QED
      BY <2>1, <2>2, <2>4, <3>1
  <2>5. CASE /\ BindingsKept /\ launch /\ answer'[r].code # "accepted"
             /\ pc'[r] \in {"key", "wait", "list"} \/ (pc'[r] = "done" /\ Awaited(r, b)')
             /\ pc'[r] = "list" => run'[r] = "returned"
             /\ pc'[r] = "key" => jobs'[b][r] # "none"
    <3>1. BindCourses(r)'
      BY <1>1, <1>2, <2>1, <2>5 DEF BindCourses
    <3>2. (Awaited(r, b) \/ Making(r, b))'
      BY <1>1, <1>9, <2>1, <2>5 DEF Making
    <3>3. QED
      BY <2>1, <2>2, <2>5, <3>1, <3>2
  <2>6. CASE BindingsKept /\ ~launch /\ answer'[r].code # "accepted" /\ pc'[r] = "done"
    <3>1. BindCourses(r)'
      BY <1>1, <2>6 DEF BindCourses
    <3>2. QED
      BY <2>1, <2>2, <2>6, <3>1
  <2>7. CASE /\ Etcd!SetBindInstance(b, req[r].params, NoToken)
             /\ answer'[r] = answer[r] /\ pc'[r] = IF launch THEN "setup" ELSE "secret"
    <3>1. BindCourses(r)'
      BY <1>1, <2>7 DEF BindCourses
    <3>2. keys'[b] = NoToken /\ \A c \in Bindings \ {b} : Named(c)'
      BY <2>3, <2>7
    <3>3. ASSUME NEW t \in Tokens, Accepted(t, b)'
          PROVE  Making(r, b)'
      <4>1. t # r
        BY <1>1, <2>7, <3>3 DEF Accepted
      <4>2. launch
        BY <1>3, <1>4, <2>1, <3>3, <4>1
      <4>3. QED
        BY <1>1, <1>9, <2>1, <2>7, <4>2 DEF Making
    <3>4. Named(b)'
      BY <1>1, <3>2, <3>3 DEF Named
    <3>5. QED
      BY <2>1, <3>1, <3>2, <3>4
  <2>8. CASE /\ Etcd!SetBindInstance(b, req[r].params, r)
             /\ pc[r] = "key" /\ pc'[r] = "done" /\ answer'[r].code = "accepted"
    <3>1. BindCourses(r)'
      <4>1. jobs'[b][r] # "none" /\ launch
        BY <1>1, <1>9, <2>1, <2>8 DEF BindCourses, JobsStay, Ids
      <4>2. QED
        BY <1>1, <2>1, <2>8, <4>1 DEF BindCourses
    <3>2. keys'[b] = r /\ \A c \in Bindings \ {b} : Named(c)'
      BY <2>3, <2>8
    <3>3. Accepted(r, b)'
      BY <1>1, <1>9, <2>1, <2>8 DEF Accepted
    <3>4. Named(b)'
      BY <3>2, <3>3 DEF Named, Accepted
    <3>5. QED
      BY <2>1, <3>1, <3>2, <3>4
  <2>9. QED
    BY <1>1, <1>9, <2>1, <2>4, <2>5, <2>6, <2>7, <2>8, BindWays DEF Awaited
<1>10. QED
  BY <1>8, <1>9

\* Every step of a thread: jobs and cleanups store no binding.
LEMMA ThreadNames ==
  ASSUME IInv, NameInv, Overlap # "all", NEW r \in Tokens,
         Request(r) \/ HandlerStep(r) \/ RunnerStep(r) \/ SubscriberStep(r)
  PROVE  NameInv'
<1>1. TypeOK /\ StoreTypeOK /\ store = "etcd" /\ phase = "serving" /\ Target(r) \in Ids /\ Instance \in Ids
  BY Contents DEF IInv, TypeOK, NameInv, Ids
<1>2. /\ store' = store /\ phase' = phase /\ launch' = launch
      /\ \A t \in Tokens \ {r} : UNCHANGED <<req[t], pc[t], run[t]>>
  BY RequestAdvances, HandlerAdvances, RunnerAdvances, SubscriberAdvances DEF Apart
<1>3. ASSUME NEW t \in Tokens \ {r}, JobsStay, answer'[t] = answer[t]
      PROVE  BindCourses(t)'
  <2>1. BindCourses(t) /\ Op(t)' = Op(t) /\ Target(t)' = Target(t) /\ Target(t) \in Ids
    BY <1>1, <1>2, Contents DEF NameInv, Op, Target
  <2>2. QED
    BY <1>2, <1>3, <2>1 DEF BindCourses, JobsStay
<1>4. CASE HandlerStep(r)
  <2>1. Handling(r) /\ \A t \in Tokens \ {r} : ~Handling(t) /\ ~Handling(t)'
    BY <1>2, <1>4, HandlerAdvances DEF NameInv, Handling
  <2>2. \A t \in Tokens : BindCourses(t)'
    BY <1>1, <1>3, <1>4, HandlerNames, AnswersAtTheEnd
  <2>3. \A t, u \in Tokens : Handling(t)' /\ Handling(u)' => t = u
    BY <2>1
  <2>4. QED
    BY <1>1, <1>2, <1>4, <2>2, <2>3, HandlerNames DEF NameInv
<1>5. CASE Request(r)
  <2>1. Asked(r) /\ JobsStay /\ BindingsKept
    BY <1>1, <1>5, RequestFrame, EtcdKeeps DEF Asked
  <2>2. /\ pc[r] = "idle" /\ pc'[r] \in {"save", "check", "find", "done"}
        /\ \A t \in Tokens \ {r} : answer'[t] = answer[t]
        /\ answer'[r] = answer[r] \/ (pc'[r] = "done" /\ answer'[r].code \in {"conflict", "gone"})
    BY <1>1, <2>1 DEF Asked, Goes, Answers, AnswersFor, TypeOK
  <2>3. BindCourses(r)'
    BY <2>2 DEF NameInv, BindCourses
  <2>4. \A t \in Tokens : ~Handling(t)
    <3>1. PICK op, id, p : Arrives(r, op, id, p)
      BY <1>5 DEF Request, Provision, Update, Deprovision, Bind, Unbind
    <3>2. \A t \in Tokens : pc[t] \in {"idle", "done"}
      BY <3>1 DEF Arrives, Resting
    <3>3. QED
      BY <3>2 DEF Handling
  <2>5. \A t, u \in Tokens : Handling(t)' /\ Handling(u)' => t = u
    BY <1>2, <2>4 DEF Handling
  <2>6. ASSUME NEW b \in Bindings
        PROVE  Named(b)'
    <3>1. Op(r) = "none"
      BY <2>2 DEF NameInv, BindCourses
    <3>2. \A t \in Tokens \ {r} : Op(t)' = Op(t) /\ Target(t)' = Target(t)
      BY <1>2 DEF Op, Target
    <3>3. ~Accepted(r, b) /\ ~Accepted(r, b)' /\ ~Awaited(r, b) /\ ~Making(r, b)
      <4>1. answer[r].code = "none"
        BY <2>2 DEF NameInv, BindCourses
      <4>2. QED
        BY <2>2, <3>1, <4>1 DEF Accepted, Awaited, Making
    <3>4. \A t \in Tokens : Accepted(t, b)' <=> Accepted(t, b)
      BY <2>2, <3>2, <3>3 DEF Accepted
    <3>5. \A t \in Tokens : Awaited(t, b) \/ Making(t, b) => (Awaited(t, b) \/ Making(t, b))'
      BY <1>2, <2>2, <3>2, <3>3 DEF Awaited, Making
    <3>6. \A t \in Tokens : Accepted(t, b) => launch
      BY DEF NameInv, BindCourses, Accepted
    <3>7. QED
      BY <2>1, <3>4, <3>5, <3>6, NamedStays DEF NameInv, BindingsKept
  <2>7. QED
    BY <1>1, <1>2, <1>3, <2>1, <2>2, <2>3, <2>5, <2>6 DEF NameInv
<1>6. CASE RunnerStep(r) \/ SubscriberStep(r)
  <2>1. /\ UNCHANGED <<req, pc, answer, launch>>
        /\ \A t \in Tokens : run'[t] = run[t] \/ (run[t] # "returned" /\ run'[t] = "returned")
    BY <1>2, <1>6, RunnerAdvances, SubscriberAdvances
  <2>2. JobsStay /\ BindingsKept
    <3>1. CASE RunnerStep(r)
      BY <1>1, <3>1, EtcdKeeps DEF RunnerStep, RunnerEnds, RunnerSkips
    <3>2. CASE NotifyProgress(r) \/ NotifyFinal(r) \/ RecordCleanupFailure(r)
      BY <1>1, <3>2, EtcdKeeps
         DEF NotifyProgress, NotifyFinal, RecordCleanupFailure, RecordsState, StateLost, FinalState, JobStates
    <3>3. CASE \/ DeleteInstance(r) \/ DeleteInstanceSecret(r) \/ ReadInstance(r) \/ ReadBinding(r)
               \/ DeleteBinding(r)
      BY <1>1, <3>3, EtcdKeeps DEF DeleteInstance, DeleteInstanceSecret, ReadInstance, ReadBinding, DeleteBinding
    <3>4. CASE UnlistAfterUnbind(r) \/ ReadForDashboard(r) \/ SaveDashboard(r)
      BY <1>1, <3>4, EtcdKeeps DEF UnlistAfterUnbind, ReadForDashboard, SaveDashboard, NoteRefused
    <3>5. QED
      BY <1>6, <3>1, <3>2, <3>3, <3>4 DEF SubscriberStep
  <2>3. \A t \in Tokens : Op(t)' = Op(t) /\ Target(t)' = Target(t) /\ Target(t) \in Ids
    BY <1>1, <2>1, Contents DEF Op, Target
  <2>4. ASSUME NEW t \in Tokens
        PROVE  BindCourses(t)'
    BY <2>1, <2>2, <2>3 DEF NameInv, BindCourses, JobsStay
  <2>5. ASSUME NEW b \in Bindings
        PROVE  Named(b)'
    <3>1. \A t \in Tokens : Accepted(t, b)' <=> Accepted(t, b)
      BY <2>1, <2>3 DEF Accepted
    <3>2. \A t \in Tokens : Awaited(t, b) \/ Making(t, b) => (Awaited(t, b) \/ Making(t, b))'
      BY <2>1, <2>3 DEF Awaited, Making
    <3>3. \A t \in Tokens : Accepted(t, b) => launch
      BY DEF NameInv, BindCourses, Accepted
    <3>4. QED
      BY <2>2, <3>1, <3>2, <3>3, NamedStays DEF NameInv, BindingsKept
  <2>6. \A t, u \in Tokens : Handling(t)' /\ Handling(u)' => t = u
    BY <2>1 DEF NameInv, Handling
  <2>7. QED
    BY <1>1, <1>2, <2>4, <2>5, <2>6 DEF NameInv
<1>7. QED
  BY <1>4, <1>5, <1>6

\* BindNamesItsJob, of one step.
NamesStep ==
  \A r \in Tokens :
    LET binds == {t \in Tokens \ {r} : Op(t) = "bind" /\ Target(t) = Target(r)}
        accepted == {t \in binds : answer[t].code = "accepted"}
        awaited == {t \in binds : answer[t].code \in {"done", "error"} /\ run[t] = "returned"}
    IN At(r, {"bind"}, "find") /\ answer'[r].code = "exists" /\ accepted # {}
         => \/ awaited # {}
            \/ \E t \in accepted : jobs[Target(r)][t] = "succeeded"

\* Only FindBind tells, and by what the binding names.
LEMMA TellsTheJob ==
  ASSUME IInv, NameInv, NEW r \in Tokens, At(r, {"bind"}, "find"), answer'[r].code = "exists",
         NEW u \in Tokens, Accepted(u, Target(r)),
         NEW s \in Tokens, Request(s) \/ HandlerStep(s) \/ RunnerStep(s) \/ SubscriberStep(s)
  PROVE  \/ \E t \in Tokens \ {r} : Awaited(t, Target(r))
         \/ \E t \in Tokens \ {r} : Accepted(t, Target(r)) /\ jobs[Target(r)][t] = "succeeded"
<1>1. /\ TypeOK /\ StoreTypeOK /\ store = "etcd" /\ answer[r].code = "none" /\ pc[r] = "find"
      /\ Op(r) = "bind" /\ Target(r) \in Bindings
  BY DEF IInv, JobInv, Fits, BindMethods, TypeOK, NameInv, BindCourses, At
<1>2. s = r /\ HandlerStep(r)
  <2>1. answer'[r] # answer[r]
    BY <1>1
  <2>2. ~RunnerStep(s) /\ ~SubscriberStep(s)
    BY <2>1, RunnerAdvances, SubscriberAdvances
  <2>3. ~Request(s)
    BY <1>1, <2>1, RequestFrame DEF Asked, Goes, Answers, AnswersFor, TypeOK
  <2>4. QED
    BY <1>1, <2>1, <2>2, <2>3, AnswersAtTheEnd
<1>3. FindBind(r)
  BY <1>1, <1>2 DEF HandlerStep, CheckProvision, CheckUpdate, CheckDeprovision, FindUnbind, CheckUnbind,
     RereadUnbind, SaveInstance, SaveBinding, SetupJob, SaveKey, JobReturned, DropProvisionSecret,
     CopySecret, ListBinding, DropBinding, UnlistBinding, DropBindingSecret, At
<1>4. Target(r) \in objects /\ Complete(Target(r))
  <2>1. ~Goes(r, "save")
    BY <1>1 DEF Goes
  <2>2. ASSUME NEW code, NEW t, AnswersFor(r, code, t)
        PROVE  code = "exists"
    BY <1>1, <2>2 DEF AnswersFor, TypeOK
  <2>3. ~Answers(r, "conflict") /\ ~Answers(r, "error") /\ ~AnswersFor(r, "in progress", keys[Target(r)])
    BY <2>2 DEF Answers
  <2>4. QED
    BY <1>3, <2>1, <2>3 DEF FindBind
<1>5. CASE keys[Target(r)] = NoToken
  <2>1. PICK t \in Tokens : Awaited(t, Target(r)) \/ Making(t, Target(r))
    BY <1>1, <1>4, <1>5 DEF NameInv, Named
  <2>2. ~Making(t, Target(r)) /\ t # r
    BY <1>1, <2>1 DEF NameInv, Handling, Making, Awaited
  <2>3. QED
    BY <2>1, <2>2
<1>6. CASE keys[Target(r)] # NoToken
  <2>1. PICK k \in Tokens : k = keys[Target(r)] /\ Accepted(k, Target(r))
    BY <1>1, <1>6 DEF NameInv, Named
  <2>2. k # r /\ jobs[Target(r)][k] # "none"
    BY <1>1, <2>1 DEF Accepted, NameInv, BindCourses
  <2>3. GetState(Target(r), k) \in {"succeeded", "not found"}
    BY <1>4, <1>6, <2>1 DEF Complete
  <2>4. jobs[Target(r)][k] \in JobStates
    BY <1>1, <2>2 DEF StoreTypeOK, Ids
  <2>5. jobs[Target(r)][k] = "succeeded"
    BY <1>1, <2>2, <2>3, <2>4 DEF GetState, Etcd!GetState, JobStates
  <2>6. QED
    BY <2>1, <2>2, <2>5
<1>7. QED
  BY <1>5, <1>6

\* Over etcd, with no handler beside another and a broker that lives on, nobody is told
\* that a binding exists on the strength of a job that has yet to succeed.
THEOREM JobNamed ==
  ASSUME Stores = {"etcd"}, Overlap # "all", MaxCrashes = 0
  PROVE  Spec => BindNamesItsJob
<1>1. Init => NameInv
  <2>1. SUFFICES ASSUME Init
                 PROVE  NameInv
    OBVIOUS
  <2>2. \A r \in Tokens : Op(r) = "none" /\ pc[r] = "idle" /\ answer[r].code = "none"
    BY <2>1 DEF Init, Op, NoRequest
  <2>3. \A b \in Bindings : keys[b] = NoToken
    BY <2>1 DEF Init
  <2>4. store = "etcd" /\ phase = "serving"
    BY <2>1 DEF Init
  <2>5. QED
    BY <2>2, <2>3, <2>4 DEF NameInv, Handling, BindCourses, Named, Accepted
<1>2. ASSUME IInv, NameInv, Next
      PROVE  \E s \in Tokens : Request(s) \/ HandlerStep(s) \/ RunnerStep(s) \/ SubscriberStep(s)
  <2>1. phase = "serving" /\ \A r \in Tokens : pc[r] # "restart"
    BY <1>2 DEF NameInv, BindCourses
  <2>2. ~Crash
    <3>1. crashes \in 0 .. 0
      BY <1>2 DEF IInv, TypeOK
    <3>2. ~(crashes < MaxCrashes)
      BY <3>1
    <3>3. QED
      BY <3>2 DEF Crash
  <2>3. ~Recover
    BY <2>1 DEF Recover, Restart, RecoveryStops, RecoveryEnds, RecoverJob, RestartJob
  <2>4. QED
    BY <1>2, <2>2, <2>3 DEF Next
<1>3. IInv /\ NameInv /\ [Next]_vars => NameInv'
  <2>1. ASSUME IInv, NameInv, Next
        PROVE  NameInv'
    BY <1>2, <2>1, ThreadNames
  <2>2. ASSUME NameInv, UNCHANGED vars
        PROVE  NameInv'
    <3>1. UNCHANGED <<store, phase, launch, objects, keys, jobs, req, pc, answer, run>>
      BY <2>2 DEF vars, storeVars, requestVars, jobVars, processVars
    <3>2. \A t \in Tokens : BindCourses(t)' /\ (Handling(t)' <=> Handling(t))
      BY <2>2, <3>1 DEF NameInv, BindCourses, Handling, Op, Target
    <3>3. \A b \in Bindings : Named(b)'
      BY <2>2, <3>1 DEF NameInv, Named, Accepted, Awaited, Making, Op, Target
    <3>4. QED
      BY <2>2, <3>1, <3>2, <3>3 DEF NameInv
  <2>3. QED
    BY <2>1, <2>2
<1>4. IInv /\ NameInv /\ [Next]_vars => [NamesStep]_vars
  <2>1. SUFFICES ASSUME IInv, NameInv, Next, NEW r \in Tokens, At(r, {"bind"}, "find"),
                        answer'[r].code = "exists",
                        NEW u \in Tokens \ {r}, Op(u) = "bind", Target(u) = Target(r),
                        answer[u].code = "accepted"
                 PROVE  \/ \E t \in Tokens \ {r} :
                             /\ Op(t) = "bind" /\ Target(t) = Target(r)
                             /\ answer[t].code \in {"done", "error"} /\ run[t] = "returned"
                        \/ \E t \in Tokens \ {r} :
                             /\ Op(t) = "bind" /\ Target(t) = Target(r)
                             /\ answer[t].code = "accepted" /\ jobs[Target(r)][t] = "succeeded"
    BY DEF NamesStep
  <2>2. Accepted(u, Target(r))
    BY <2>1 DEF Accepted
  <2>3. \/ \E t \in Tokens \ {r} : Awaited(t, Target(r))
        \/ \E t \in Tokens \ {r} : Accepted(t, Target(r)) /\ jobs[Target(r)][t] = "succeeded"
    BY <1>2, <2>1, <2>2, TellsTheJob
  <2>4. QED
    BY <2>3 DEF Awaited, Accepted
<1>5. QED
  BY <1>1, <1>3, <1>4, Invariant, PTL DEF Spec, BindNamesItsJob, NamesStep
=============================================================================

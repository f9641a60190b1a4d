------------------------------- MODULE Broker -------------------------------
(***************************************************************************)
(* The life of one service instance and its bindings in the broker:        *)
(* the requests of the Open Service Broker API (pkg/handler/handler.go,    *)
(* pkg/broker/broker.go), the jobs they start, the job state subscriber    *)
(* that records what the jobs report (pkg/broker/job_state_subscriber.go)  *)
(* and recovery after a crash, over either store of Dao.                   *)
(*                                                                         *)
(* A request is named with the token of the job it may start.  Its handler *)
(* is a thread of its own that takes one step per call to the API server;  *)
(* so do the subscriber's Notify calls of its job.  The work engine hands  *)
(* a job's messages over in order (JobDelivery): the "in progress" ones    *)
(* are one step here, the final one starts the cleanup.                    *)
(***************************************************************************)
EXTENDS Dao, Naturals

CONSTANTS
  Stores,       \* the stores the broker may be configured with
  Operations,   \* the operations that are requested
  Dashboards,   \* the operations whose bundle announces a dashboard URL
  InitObjects,  \* what may exist, fully set up, when the run begins
  Overlap,      \* a request may come while "none", only "jobs" or "all" of
                \* the earlier ones and their jobs are under way
  MaxCrashes    \* bound: how often the broker dies

ASSUME BrokerAssumption ==
  /\ Stores \subseteq {"crd", "etcd"}
  /\ Operations \subseteq Methods
  /\ Dashboards \subseteq Operations
  /\ InitObjects \subseteq SUBSET Ids
  /\ \A ids \in InitObjects : ids # {} => Instance \in ids
  /\ Overlap \in {"none", "jobs", "all"}
  /\ MaxCrashes \in Nat

VARIABLES
  launch,    \* brokerConfig.LaunchApbOnBind
  req,       \* req[r]: what is asked: operation, id it is about, parameters
  pc,        \* pc[r]: the call the handler is about to make
  held,      \* held[r]: the instance as the handler read it, and whether it
             \* then had credentials
  answer,    \* answer[r]: the answer and the operation (token) it names
  run,       \* run[r]: the runner of job r
  outcome,   \* outcome[r]: how the bundle of job r ended
  note,      \* note[r]: the call the subscriber is about to make for job r
  read,      \* read[r]: the instance as the subscriber read it
  stale,     \* the callers whose write may be refused (CRD)
  phase,     \* of the broker process
  pending,   \* the jobs Recover has not looked at yet
  crashes    \* how often the broker has died

requestVars == <<req, held>>
jobVars == <<run, outcome, note, read>>
processVars == <<launch, phase, pending, crashes>>
vars == <<storeVars, requestVars, pc, answer, jobVars, stale, processVars>>

HandlerPC == {"idle", "check", "find", "reread", "save", "setup",
              "setup skipped", "restart", "key", "wait", "list", "drop",
              "unlist", "secret", "done"}
NotePC == {"none", "progress", "final", "delete", "failed", "secret", "instance",
           "binding", "drop", "unlist", "dashboard", "url", "done"}
Codes == {"none", "accepted", "in progress", "done", "exists", "conflict",
          "refused", "gone", "error", "panic", "lost"}
Outcomes == {"none", "succeeded", "failed", "action not found"}

Requests == [op : Methods \union {"none"}, target : Ids,
             params : Params \union {NoParams}]
NoRequest == [op |-> "none", target |-> Instance, params |-> NoParams]
HeldCopies == [listed : SUBSET Bindings, marked : SUBSET Bindings,
               params : Params \union {NoParams}, creds : BOOLEAN]
Hold(copy, creds) == [listed |-> copy.listed, marked |-> copy.marked,
                      params |-> copy.params, creds |-> creds]

TypeOK ==
  /\ StoreTypeOK
  /\ launch \in BOOLEAN
  /\ req \in [Tokens -> Requests]
  /\ pc \in [Tokens -> HandlerPC]
  /\ held \in [Tokens -> HeldCopies]
  /\ answer \in [Tokens -> [code : Codes, operation : Tokens \union {NoToken}]]
  /\ run \in [Tokens -> {"none", "running", "skipping", "returned"}]
  /\ outcome \in [Tokens -> Outcomes]
  /\ note \in [Tokens -> NotePC]
  /\ read \in [Tokens -> Copies]
  /\ stale \subseteq Tokens \X {"handler", "job"}
  /\ phase \in {"serving", "down", "recovering"}
  /\ pending \subseteq Tokens
  /\ crashes \in 0 .. MaxCrashes

\* A binding that was bound by an asynchronous job is not in the list, and one
\* that was bound without a job has no job recorded.
Init ==
  /\ store \in Stores
  /\ objects \in InitObjects
  /\ \E p \in Params :
       params = [id \in Ids |-> IF id \in objects THEN p ELSE NoParams]
  /\ listed \in SUBSET (objects \ {Instance})
  /\ marked = {}
  /\ keys = [b \in Bindings |-> NoToken]
  /\ recorded \in IF store = "etcd" THEN {objects, objects \ Bindings} ELSE {{}}
  /\ jobs = [id \in Ids |-> NoJobs]
  /\ secrets \in {{}, objects}
  /\ launch \in BOOLEAN
  /\ req = [r \in Tokens |-> NoRequest]
  /\ pc = [r \in Tokens |-> "idle"]
  /\ held = [r \in Tokens |-> Hold(NoCopy, FALSE)]
  /\ answer = [r \in Tokens |-> [code |-> "none", operation |-> NoToken]]
  /\ run = [r \in Tokens |-> "none"]
  /\ outcome = [r \in Tokens |-> "none"]
  /\ note = [r \in Tokens |-> "none"]
  /\ read = [r \in Tokens |-> NoCopy]
  /\ stale = {}
  /\ phase = "serving"
  /\ pending = {}
  /\ crashes = 0

-----------------------------------------------------------------------------
(* Steps of a handler and their conflicts.                                 *)

Op(r) == req[r].op

\* job.ID(): bind and unbind jobs are about the binding, others the instance.
Target(r) == req[r].target

At(r, ops, call) == pc[r] = call /\ Op(r) \in ops

Goes(r, call) ==
  /\ pc' = [pc EXCEPT ![r] = call]
  /\ UNCHANGED answer

AnswersFor(r, code, t) ==
  /\ pc' = [pc EXCEPT ![r] = "done"]
  /\ answer' = [answer EXCEPT ![r] = [code |-> code, operation |-> t]]

Answers(r, code) == AnswersFor(r, code, NoToken)

Notes(r, call) == note' = [note EXCEPT ![r] = call]

\* The object a caller is about to write, and the lock it does so under.
WritesOf(a) ==
  LET r == a[1] IN
  IF a[2] = "handler" THEN
    CASE pc[r] \in {"save", "key"} -> <<Target(r), "instanceLock">>
      [] pc[r] \in {"list", "unlist"} -> <<Instance, "instanceLock">>
      [] pc[r] \in {"setup", "setup skipped", "restart"} ->
           <<Target(r), "bindingLock">>
      [] OTHER -> <<>>
  ELSE
    CASE \/ note[r] = "progress"
         \/ note[r] = "final" /\ run[r] = "returned"
           -> <<Target(r), "bindingLock">>
      [] note[r] = "failed" -> <<Instance, "bindingLock">>
      [] note[r] \in {"unlist", "url"} -> <<Instance, "instanceLock">>
      [] OTHER -> <<>>

\* Caller a has written or deleted object id under the given lock.  Another that
\* has come to a write of the object may have read it before and be refused,
\* unless the lock is the same: instanceLock and bindingLock each serialise the
\* reads and writes made under it.
Touches(a, id, lock) ==
  stale' = (stale \ {a}) \union
    {b \in Tokens \X {"handler", "job"} \ {a} :
       /\ Conflicts
       /\ WritesOf(b) # <<>>
       /\ WritesOf(b)[1] = id
       /\ WritesOf(b)[2] # lock}

\* Caller a has given up its write.
Leaves(a) == stale' = stale \ {a}

Handler(r) == <<r, "handler">>
Job(r) == <<r, "job">>

-----------------------------------------------------------------------------
(* Requests arrive: the first read of the instance.                        *)

\* StateToLastOperation: there are three states to tell; any other, that of a
\* job not yet started too, is told as failed.
StateToLastOperation(s) ==
  IF s \in {"in progress", "succeeded"} THEN s ELSE "failed"

\* What LastOperation tells who polls job r.
LastOperation(r) ==
  LET state == GetState(Target(r), r) IN
  CASE state = "not found" -> "gone"
    [] state = "unknown token" -> "error"
    [] OTHER -> StateToLastOperation(state)

\* What GetBind tells who asks for a binding: it is shown with credentials of its
\* own only.
GetBind(b) ==
  IF {Instance, b} \subseteq objects /\ b \in secrets THEN "found" ELSE "gone"

\* No request, job or cleanup is under way.
Resting ==
  /\ phase = "serving"
  /\ \A r \in Tokens : pc[r] \in {"idle", "done"} /\ note[r] \in {"none", "done"}

Arrives(r, op, id, p) ==
  /\ phase = "serving"
  /\ op \in Operations
  /\ pc[r] = "idle"
  /\ Overlap = "none" => Resting
  /\ Overlap = "jobs" => \A t \in Tokens : pc[t] \in {"idle", "done"}
  /\ req' = [req EXCEPT ![r] = [op |-> op, target |-> id, params |-> p]]
  /\ UNCHANGED <<storeVars, jobVars, stale, processVars>>

\* A plausible slip: an instance that is not there is held as an empty one.
HoldsAnything(r) == held' = [held EXCEPT ![r] = Hold(GetServiceInstance, FALSE)]

HoldsInstance(r) ==
  /\ Instance \in objects
  /\ held' = [held EXCEPT ![r] = Hold(GetServiceInstance, FALSE)]

\* Provision compares with an instance that exists already.
Provision(r) ==
  \E p \in Params :
    /\ Arrives(r, "provision", Instance, p)
    /\ UNCHANGED held
    /\ \/ Instance \notin objects /\ Goes(r, "save")
       \/ Instance \in objects /\ params[Instance] = p /\ Goes(r, "check")
       \/ Instance \in objects /\ params[Instance] # p /\ Answers(r, "conflict")

Update(r) ==
  \E p \in Params :
    /\ Arrives(r, "update", Instance, p)
    /\ \/ Instance \notin objects /\ Answers(r, "gone") /\ UNCHANGED held
       \/ HoldsInstance(r) /\ Goes(r, "check")

Deprovision(r) ==
  /\ Arrives(r, "deprovision", Instance, NoParams)
  /\ \/ Instance \notin objects /\ Answers(r, "gone") /\ UNCHANGED held
     \/ HoldsInstance(r) /\ Goes(r, "check")

Bind(r, b) ==
  \E p \in Params :
    /\ Arrives(r, "bind", b, p)
    /\ \/ Instance \notin objects /\ Answers(r, "gone") /\ UNCHANGED held
       \/ HoldsInstance(r) /\ Goes(r, "find")

Unbind(r, b) ==
  /\ Arrives(r, "unbind", b, NoParams)
  /\ \/ Instance \notin objects /\ Answers(r, "gone") /\ UNCHANGED held
     \/ HoldsInstance(r) /\ Goes(r, "find")

-----------------------------------------------------------------------------
(* isJobInProgress, the checks around it and the reads of a binding.       *)

\* The recorded jobs of a method that are in progress: MapJobStatesWithMethod
\* of GetSvcInstJobsByState.
JobsInProgress(id, op) == {t \in JobsByState(id, "in progress") : Op(t) = op}

Reading(r) == UNCHANGED <<storeVars, requestVars, jobVars, stale, processVars>>

AnswersInProgress(r) ==
  \E t \in JobsInProgress(Target(r), Op(r)) : AnswersFor(r, "in progress", t)

CheckProvision(r) ==
  /\ At(r, {"provision"}, "check")
  /\ \/ JobsUnknown(Instance) /\ Answers(r, "error")
     \/ AnswersInProgress(r)
     \/ /\ ~JobsUnknown(Instance)
        /\ JobsInProgress(Instance, "provision") = {}
        /\ Answers(r, "exists")
  /\ Reading(r)

\* An update may also be refused for its plan or its parameters.
CheckUpdate(r) ==
  /\ At(r, {"update"}, "check")
  /\ \/ JobsUnknown(Instance) /\ Answers(r, "error")
     \/ AnswersInProgress(r)
     \/ /\ ~JobsUnknown(Instance)
        /\ JobsInProgress(Instance, "update") = {}
        /\ Goes(r, "save") \/ Answers(r, "refused")
  /\ Reading(r)

\* A plausible slip: the bindings are not looked at.
IgnoresBindings(r) == TRUE

\* validateDeprovision, on the instance the handler read before: every entry of
\* BindingIDs counts.
validateDeprovision(r) == held[r].listed \union held[r].marked = {}

\* A synchronous deprovision in a namespace that is being deleted does nothing;
\* an asynchronous one starts a job that skips the bundle.
CheckDeprovision(r) ==
  /\ At(r, {"deprovision"}, "check")
  /\ \/ ~validateDeprovision(r) /\ Answers(r, "refused")
     \/ /\ validateDeprovision(r)
        /\ \/ JobsUnknown(Instance) /\ Answers(r, "error")
           \/ AnswersInProgress(r)
           \/ /\ ~JobsUnknown(Instance)
              /\ JobsInProgress(Instance, "deprovision") = {}
              /\ \/ Goes(r, "setup")
                 \/ Goes(r, "setup skipped")
                 \/ Answers(r, "done")
  /\ Reading(r)

\* A plausible slip: whatever job made the binding, it is complete.
AlwaysComplete(b) == TRUE

\* An equal binding counts as complete when it names no job, or one that has
\* succeeded or is not known.
Complete(b) ==
  keys[b] # NoToken => GetState(b, keys[b]) \in {"succeeded", "not found"}

\* Bind reads the instance's credentials and looks for the binding.  For one
\* that is complete the answer shows its credentials and is an error without;
\* for another it names the job that makes it.
FindBind(r) ==
  LET b == Target(r) IN
  /\ At(r, {"bind"}, "find")
  /\ held' = [held EXCEPT ![r].creds = Instance \in secrets]
  /\ \/ b \notin objects /\ Goes(r, "save")
     \/ /\ b \in objects
        /\ \/ params[b] # req[r].params /\ Answers(r, "conflict")
           \/ /\ params[b] = req[r].params
              /\ \/ Complete(b) /\ secrets \intersect {Instance, b} # {}
                    /\ Answers(r, "exists")
                 \/ Complete(b) /\ secrets \intersect {Instance, b} = {}
                    /\ Answers(r, "error")
                 \/ ~Complete(b) /\ AnswersFor(r, "in progress", keys[b])
  /\ UNCHANGED <<storeVars, req, jobVars, stale, processVars>>

FindUnbind(r) ==
  /\ At(r, {"unbind"}, "find")
  /\ IF Target(r) \in objects THEN Goes(r, "check") ELSE Answers(r, "gone")
  /\ Reading(r)

\* Without a record of the binding (CRD), or of any job of it (etcd), an error.
CheckUnbind(r) ==
  /\ At(r, {"unbind"}, "check")
  /\ \/ JobsUnknown(Target(r)) /\ Answers(r, "error")
     \/ AnswersInProgress(r)
     \/ /\ ~JobsUnknown(Target(r))
        /\ JobsInProgress(Target(r), "unbind") = {}
        /\ Goes(r, "reread")
  /\ Reading(r)

\* Unbind reads the instance again and picks its way: a job, skipped when the
\* namespace is being deleted (synchronously: nothing at all), or no job.
RereadUnbind(r) ==
  /\ At(r, {"unbind"}, "reread")
  /\ \/ Instance \notin objects /\ Answers(r, "gone") /\ UNCHANGED held
     \/ /\ HoldsInstance(r)
        /\ \/ launch /\ (Goes(r, "setup") \/ Goes(r, "setup skipped"))
           \/ launch /\ Answers(r, "done")
           \/ ~launch /\ Goes(r, "drop")
  /\ UNCHANGED <<storeVars, req, jobVars, stale, processVars>>

-----------------------------------------------------------------------------
(* Writes of a handler.                                                    *)

HandlerWrites(r) == UNCHANGED <<requestVars, jobVars, processVars>>

\* The write of handler r is refused: somebody else wrote the object.
Refused(r, code) ==
  /\ Handler(r) \in stale
  /\ Leaves(Handler(r))
  /\ Answers(r, code)
  /\ UNCHANGED storeVars

\* Provision stores an instance without bindings, Update the new parameters.
SaveInstance(r) ==
  /\ At(r, {"provision", "update"}, "save")
  /\ \/ /\ SetServiceInstance(held[r], req[r].params)
        /\ Touches(Handler(r), Instance, "instanceLock")
        /\ Goes(r, "setup")
     \/ Refused(r, "error")
  /\ HandlerWrites(r)

\* SetBindInstance (CRD): a conflict is passed over in silence, a deletion in
\* the middle of it may be an error or not be noticed.
StoresBinding(r, key, goesOn) ==
  LET b == Target(r) IN
  \/ /\ SetBindInstance(b, req[r].params, key)
     /\ Touches(Handler(r), b, "instanceLock")
     /\ goesOn
  \/ /\ Handler(r) \in stale
     /\ Leaves(Handler(r))
     /\ goesOn \/ (b \notin objects /\ Answers(r, "error"))
     /\ UNCHANGED storeVars

SaveBinding(r) ==
  /\ At(r, {"bind"}, "save")
  /\ StoresBinding(r, NoToken, Goes(r, IF launch THEN "setup" ELSE "secret"))
  /\ HandlerWrites(r)

\* Bind stores the binding again, with its CreateJobKey.
SaveKey(r) ==
  /\ At(r, {"bind"}, "key")
  /\ StoresBinding(r, r, AnswersFor(r, "accepted", r))
  /\ HandlerWrites(r)

\* Job r starts: the runner and the listener of the engine.
JobStarts(r, how) ==
  /\ run' = [run EXCEPT ![r] = how]
  /\ Notes(r, IF how = "skipping" THEN "final" ELSE "progress")
  /\ UNCHANGED <<outcome, read>>

\* setupJob records the job, then StartNewAsyncJob answers with its token, and
\* StartNewSyncJob waits for the job to run.
SetupJob(r) ==
  \/ /\ pc[r] \in {"setup", "setup skipped"}
     /\ SetState(Target(r), r, "not yet started", Op(r))
     /\ Touches(Handler(r), Target(r), "bindingLock")
     /\ JobStarts(r, IF pc[r] = "setup" THEN "running" ELSE "skipping")
     /\ \/ Op(r) # "bind" /\ AnswersFor(r, "accepted", r)
        \/ Op(r) = "bind" /\ Goes(r, "key")
        \/ pc[r] = "setup" /\ Goes(r, "wait")
     /\ UNCHANGED <<requestVars, processVars>>
  \/ /\ pc[r] \in {"setup", "setup skipped"}
     /\ SetStateFails(Target(r), Op(r)) \/ Handler(r) \in stale
     /\ Leaves(Handler(r))
     /\ Answers(r, "error")
     /\ UNCHANGED storeVars
     /\ HandlerWrites(r)

\* StartNewSyncJob returns when the runner does, whatever the bundle's outcome
\* and however far the subscriber is.
JobReturned(r) ==
  /\ pc[r] = "wait"
  /\ run[r] = "returned"
  /\ \/ Op(r) \in {"provision", "update", "unbind"} /\ Answers(r, "done")
     \/ Op(r) = "deprovision" /\ Goes(r, "secret")
     \/ Op(r) = "bind" /\ Goes(r, "list")
  /\ Reading(r)

\* After a synchronous deprovision its credentials are deleted.
DropProvisionSecret(r) ==
  /\ At(r, {"deprovision"}, "secret")
  /\ DeleteSecret(Instance)
  /\ Answers(r, "done")
  /\ UNCHANGED stale
  /\ HandlerWrites(r)

\* Bind without a job copies the instance's credentials: it panics when there
\* were none, and fails when the binding has some already.
CopySecret(r) ==
  /\ At(r, {"bind"}, "secret")
  /\ \/ ~held[r].creds /\ Answers(r, "panic") /\ UNCHANGED storeVars
     \/ /\ held[r].creds
        /\ \/ /\ Target(r) \in secrets
              /\ Answers(r, "error")
              /\ UNCHANGED storeVars
           \/ /\ Target(r) \notin secrets
              /\ CreateSecret(Target(r))
              /\ Goes(r, "list")
  /\ UNCHANGED stale
  /\ HandlerWrites(r)

\* A synchronous Bind adds the binding to the instance it has been holding.  It
\* answers with the instance's credentials, never with those of its own job.
ListBinding(r) ==
  /\ At(r, {"bind"}, "list")
  /\ \/ /\ SetServiceInstance(AddBinding(held[r], Target(r)), held[r].params)
        /\ Touches(Handler(r), Instance, "instanceLock")
        /\ Answers(r, IF held[r].creds THEN "done" ELSE "error")
     \/ Refused(r, "error")
  /\ HandlerWrites(r)

\* Unbind without a job: the dao's DeleteBinding, then the credentials.
DropBinding(r) ==
  /\ At(r, {"unbind"}, "drop")
  /\ \/ /\ DeleteObject(Target(r))
        /\ Touches(Handler(r), Target(r), "none")
        /\ Goes(r, "unlist")
     \/ /\ Target(r) \notin objects
        /\ Answers(r, "error")
        /\ UNCHANGED <<storeVars, stale>>
  /\ HandlerWrites(r)

UnlistBinding(r) ==
  /\ At(r, {"unbind"}, "unlist")
  /\ \/ /\ SetServiceInstance(RemoveBinding(held[r], Target(r)), held[r].params)
        /\ Touches(Handler(r), Instance, "instanceLock")
        /\ Goes(r, "secret")
     \/ Refused(r, "error")
  /\ HandlerWrites(r)

DropBindingSecret(r) ==
  /\ At(r, {"unbind"}, "secret")
  /\ DeleteSecret(Target(r))
  /\ Answers(r, "done")
  /\ UNCHANGED stale
  /\ HandlerWrites(r)
-----------------------------------------------------------------------------
(* Jobs: the runner (apbJob.Run and the bundle) and the subscriber.        *)

RunnerSteps(r) == UNCHANGED <<requestVars, pc, answer, note, read, processVars>>

Returns(r, o) ==
  /\ run' = [run EXCEPT ![r] = "returned"]
  /\ outcome' = [outcome EXCEPT ![r] = o]

\* The bundle ends.  A bind that succeeded has published credentials, and so may
\* have a provision (when its service is bindable); both fail when they find
\* some there.  Deprovision and unbind delete them.
RunnerEnds(r) ==
  /\ run[r] = "running"
  /\ \/ /\ Returns(r, "failed") \/ Returns(r, "action not found")
        /\ UNCHANGED storeVars
     \/ /\ Op(r) \in {"provision", "update"}
        /\ Returns(r, "succeeded")
        /\ UNCHANGED storeVars
     \/ /\ Op(r) \in {"provision", "bind"}
        /\ Target(r) \notin secrets
        /\ Returns(r, "succeeded")
        /\ CreateSecret(Target(r))
     \/ /\ Op(r) \in {"deprovision", "unbind"}
        /\ Returns(r, "succeeded")
        /\ DeleteSecret(Target(r))
  /\ UNCHANGED stale
  /\ RunnerSteps(r)

\* skipExecution: one "succeeded" message and no bundle.
RunnerSkips(r) ==
  /\ run[r] = "skipping"
  /\ Returns(r, "succeeded")
  /\ UNCHANGED <<storeVars, stale>>
  /\ RunnerSteps(r)

SubscriberSteps(r) ==
  UNCHANGED <<requestVars, pc, answer, run, outcome, processVars>>

\* SetState fails: the object is gone, or its update was refused.
StateLost(r, id) ==
  /\ SetStateFails(id, Op(r)) \/ Job(r) \in stale
  /\ Leaves(Job(r))
  /\ UNCHANGED storeVars

RecordsState(r, id, s) ==
  /\ SetState(id, r, s, Op(r))
  /\ Touches(Job(r), id, "bindingLock")

\* Notify of an "in progress" message: an error is logged.
NotifyProgress(r) ==
  /\ note[r] = "progress"
  /\ RecordsState(r, Target(r), "in progress") \/ StateLost(r, Target(r))
  /\ Notes(r, "final")
  /\ UNCHANGED read
  /\ SubscriberSteps(r)

\* A plausible slip: a missing action is taken for success of every operation.
AnyErrorIgnored(r) ==
  IF outcome[r] = "failed" THEN "failed" ELSE "succeeded"

\* A plausible slip: the outcome is recorded as it was reported.
AsReported(r) == outcome[r]

\* A plausible slip: a missing action leaves the state as the job began.
MissingActionPassedOver(r) ==
  IF outcome[r] \in {"succeeded", "failed"} THEN outcome[r] ELSE "in progress"

\* A bind or unbind whose bundle has no such action counts as succeeded.
FinalState(r) ==
  IF \/ outcome[r] = "succeeded"
     \/ outcome[r] = "action not found" /\ Op(r) \in {"bind", "unbind"}
  THEN "succeeded" ELSE "failed"

\* A plausible slip: the cleanup does not look at how the job ended.
CleansUpAlways(r) ==
  CASE Op(r) = "deprovision" -> "delete"
    [] Op(r) = "unbind" -> "instance"
    [] OTHER -> "done"

\* A plausible slip: only bindings are cleaned up after.
CleansUpBindings(r) ==
  IF FinalState(r) = "succeeded" /\ Op(r) = "unbind" THEN "instance" ELSE "done"

\* handleSucceeded: what has to be done once the final state is recorded.
CleanUp(r) ==
  CASE FinalState(r) = "succeeded" /\ Op(r) = "deprovision" -> "delete"
    [] FinalState(r) = "succeeded" /\ Op(r) = "unbind" -> "instance"
    [] OTHER -> "done"

\* Notify of the final message; when its state cannot be recorded nothing is
\* cleaned up.  A dashboard URL that the bundle announced is stored at the end.
NotifyFinal(r) ==
  /\ note[r] = "final"
  /\ run[r] = "returned"
  /\ \/ /\ RecordsState(r, Target(r), FinalState(r))
        /\ \/ Notes(r, CleanUp(r))
           \/ /\ CleanUp(r) = "done"
              /\ outcome[r] = "succeeded"
              /\ Op(r) \in Dashboards
              /\ Notes(r, "dashboard")
     \/ StateLost(r, Target(r)) /\ Notes(r, "done")
  /\ UNCHANGED read
  /\ SubscriberSteps(r)

\* cleanupAfterDeprovision.
DeleteInstance(r) ==
  /\ note[r] = "delete"
  /\ \/ /\ DeleteObject(Instance)
        /\ Touches(Job(r), Instance, "none")
        /\ Notes(r, "secret")
     \/ /\ Instance \notin objects
        /\ Notes(r, "failed")
        /\ UNCHANGED <<storeVars, stale>>
  /\ UNCHANGED read
  /\ SubscriberSteps(r)

DeleteInstanceSecret(r) ==
  /\ note[r] = "secret"
  /\ DeleteSecret(Instance)
  /\ Notes(r, "done")
  /\ UNCHANGED <<read, stale>>
  /\ SubscriberSteps(r)

\* The failure of a cleanup is recorded, under the id of the instance also when
\* it is the job of a binding: the CRD store then finds no BundleBinding of that
\* id, the etcd store keeps the state apart from the job's own.
RecordCleanupFailure(r) ==
  /\ note[r] = "failed"
  /\ RecordsState(r, Instance, "failed") \/ StateLost(r, Instance)
  /\ Notes(r, "done")
  /\ UNCHANGED read
  /\ SubscriberSteps(r)

\* cleanupAfterUnbind, each failure of which is to be recorded (setFailed).
ReadInstance(r) ==
  /\ note[r] = "instance"
  /\ \/ Instance \notin objects /\ Notes(r, "failed") /\ UNCHANGED read
     \/ /\ Instance \in objects
        /\ read' = [read EXCEPT ![r] = GetServiceInstance]
        /\ Notes(r, "binding")
  /\ UNCHANGED <<storeVars, stale>>
  /\ SubscriberSteps(r)

ReadBinding(r) ==
  /\ note[r] = "binding"
  /\ Notes(r, IF Target(r) \in objects THEN "drop" ELSE "failed")
  /\ UNCHANGED <<storeVars, stale, read>>
  /\ SubscriberSteps(r)

DeleteBinding(r) ==
  /\ note[r] = "drop"
  /\ \/ /\ DeleteObject(Target(r))
        /\ Touches(Job(r), Target(r), "none")
        /\ Notes(r, "unlist")
     \/ /\ Target(r) \notin objects
        /\ Notes(r, "failed")
        /\ UNCHANGED <<storeVars, stale>>
  /\ UNCHANGED read
  /\ SubscriberSteps(r)

\* The instance write of the subscriber is refused: logged.
NoteRefused(r) ==
  /\ Job(r) \in stale
  /\ Leaves(Job(r))
  /\ UNCHANGED storeVars

UnlistAfterUnbind(r) ==
  /\ note[r] = "unlist"
  /\ \/ /\ SetServiceInstance(RemoveBinding(read[r], Target(r)), read[r].params)
        /\ Touches(Job(r), Instance, "instanceLock")
        /\ Notes(r, "done")
     \/ NoteRefused(r) /\ Notes(r, "failed")
  /\ UNCHANGED read
  /\ SubscriberSteps(r)

\* The dashboard URL: read the instance, write it back with the URL.
ReadForDashboard(r) ==
  /\ note[r] = "dashboard"
  /\ \/ Instance \notin objects /\ Notes(r, "done") /\ UNCHANGED read
     \/ /\ Instance \in objects
        /\ read' = [read EXCEPT ![r] = GetServiceInstance]
        /\ Notes(r, "url")
  /\ UNCHANGED <<storeVars, stale>>
  /\ SubscriberSteps(r)

SaveDashboard(r) ==
  /\ note[r] = "url"
  /\ \/ /\ SetServiceInstance(read[r], read[r].params)
        /\ Touches(Job(r), Instance, "instanceLock")
     \/ NoteRefused(r)
  /\ Notes(r, "done")
  /\ UNCHANGED read
  /\ SubscriberSteps(r)

-----------------------------------------------------------------------------
(* The broker dies, comes back and recovers before it serves again.        *)

\* Handlers and jobs are gone, with what they held in memory.
Crash ==
  /\ phase # "down"
  /\ crashes < MaxCrashes
  /\ crashes' = crashes + 1
  /\ phase' = "down"
  /\ pc' = [r \in Tokens |-> IF pc[r] = "idle" THEN "idle" ELSE "done"]
  /\ answer' = [r \in Tokens |-> IF pc[r] \in {"idle", "restart"} \/ answer[r].code # "none"
                  THEN answer[r] ELSE [code |-> "lost", operation |-> NoToken]]
  /\ run' = [r \in Tokens |-> "none"]
  /\ note' = [r \in Tokens |-> "none"]
  /\ read' = [r \in Tokens |-> NoCopy]
  /\ stale' = {}
  /\ pending' = {}
  /\ UNCHANGED <<storeVars, requestVars, outcome, launch>>

\* A plausible slip: only jobs that had not started are recovered.
RestartUnstarted ==
  /\ phase = "down"
  /\ phase' = "recovering"
  /\ pending' = FindJobStateByState("not yet started")
  /\ UNCHANGED <<storeVars, requestVars, pc, answer, jobVars, stale, launch, crashes>>

\* Recover begins with the list of the recorded jobs that are in progress.
Restart ==
  /\ phase = "down"
  /\ phase' = "recovering"
  /\ pending' = FindJobStateByState("in progress")
  /\ UNCHANGED <<storeVars, requestVars, pc, answer, jobVars, stale, launch, crashes>>

Restarting == {r \in Tokens : pc[r] = "restart"}

\* Recover returns, early or at the end, and the broker serves.
Serves ==
  /\ phase' = "serving"
  /\ pending' = {}
  /\ UNCHANGED <<launch, crashes>>

\* The CRD store lists the jobs of instances before those of bindings, etcd in
\* any order.
Comes(r) ==
  /\ r \in pending
  /\ store = "crd" /\ Target(r) # Instance => \A t \in pending : Target(t) # Instance

\* Recover reads the instance of the next job.  No pod name is ever recorded, so
\* the job is to be restarted.
RecoverJob(r) ==
  /\ phase = "recovering"
  /\ Restarting = {}
  /\ Comes(r)
  /\ Target(r) = Instance
  /\ \/ /\ Instance \in objects
        /\ pending' = pending \ {r}
        /\ Goes(r, "restart")
        /\ UNCHANGED <<launch, phase, crashes>>
     \/ Instance \notin objects /\ Serves /\ UNCHANGED <<pc, answer>>
  /\ UNCHANGED <<storeVars, requestVars, jobVars, stale>>

\* The instance of a binding's job is looked up with the id of the binding:
\* not found, so Recover stops there.
RecoveryStops ==
  /\ phase = "recovering"
  /\ Restarting = {}
  /\ \E r \in pending : Comes(r) /\ Target(r) # Instance
  /\ Serves
  /\ UNCHANGED <<storeVars, requestVars, pc, answer, jobVars, stale>>

RecoveryEnds ==
  /\ phase = "recovering"
  /\ Restarting = {}
  /\ pending = {}
  /\ Serves
  /\ UNCHANGED <<storeVars, requestVars, pc, answer, jobVars, stale>>

\* StartNewAsyncJob with the token the job had; an error ends Recover.
RestartJob(r) ==
  /\ pc[r] = "restart"
  /\ pc' = [pc EXCEPT ![r] = "done"]
  /\ \/ /\ SetState(Target(r), r, "not yet started", Op(r))
        /\ Touches(Handler(r), Target(r), "bindingLock")
        /\ JobStarts(r, "running")
        /\ UNCHANGED processVars
     \/ /\ SetStateFails(Target(r), Op(r)) \/ Handler(r) \in stale
        /\ Leaves(Handler(r))
        /\ Serves
        /\ UNCHANGED <<storeVars, jobVars>>
  /\ UNCHANGED <<requestVars, answer>>

-----------------------------------------------------------------------------
HandlerStep(r) ==
  \/ CheckProvision(r) \/ CheckUpdate(r) \/ CheckDeprovision(r)
  \/ FindBind(r) \/ FindUnbind(r) \/ CheckUnbind(r) \/ RereadUnbind(r)
  \/ SaveInstance(r) \/ SaveBinding(r) \/ SetupJob(r) \/ SaveKey(r)
  \/ JobReturned(r) \/ DropProvisionSecret(r) \/ CopySecret(r)
  \/ ListBinding(r) \/ DropBinding(r) \/ UnlistBinding(r)
  \/ DropBindingSecret(r)

Request(r) ==
  \/ Provision(r) \/ Update(r) \/ Deprovision(r)
  \/ \E b \in Bindings : Bind(r, b) \/ Unbind(r, b)

RunnerStep(r) == RunnerEnds(r) \/ RunnerSkips(r)

SubscriberStep(r) ==
  \/ NotifyProgress(r) \/ NotifyFinal(r)
  \/ DeleteInstance(r) \/ DeleteInstanceSecret(r) \/ RecordCleanupFailure(r)
  \/ ReadInstance(r) \/ ReadBinding(r) \/ DeleteBinding(r) \/ UnlistAfterUnbind(r)
  \/ ReadForDashboard(r) \/ SaveDashboard(r)

Recover ==
  \/ Restart \/ RecoveryStops \/ RecoveryEnds
  \/ \E r \in Tokens : RecoverJob(r) \/ RestartJob(r)

Next ==
  \/ \E r \in Tokens :
       Request(r) \/ HandlerStep(r) \/ RunnerStep(r) \/ SubscriberStep(r)
  \/ Crash
  \/ Recover

\* The threads of a live broker run on and a broker that died is restarted
\* (its deployment does that).  Requests need not come, and it need not die.
Fairness ==
  /\ WF_vars(Recover)
  /\ \A r \in Tokens :
       /\ WF_vars(HandlerStep(r))
       /\ WF_vars(RunnerStep(r))
       /\ WF_vars(SubscriberStep(r))

Spec == Init /\ [][Next]_vars /\ Fairness
-----------------------------------------------------------------------------
(* Properties.                                                             *)

Final == {"succeeded", "failed"}

\* The record of a job lives as long as its object, through every write others
\* make to the object, and a final state is final: no late message, no stale
\* copy and no recovery makes a finished job unfinished, so a platform that has
\* polled the end of an operation is not told otherwise later.
RecordedJobsKept ==
  [][\A id \in objects \intersect objects', t \in Tokens :
       /\ jobs[id][t] # "none" => jobs'[id][t] # "none"
       /\ jobs[id][t] \in Final => jobs'[id][t] \in Final]_vars

\* "succeeded" is recorded only for a job whose bundle succeeded, or had no such
\* action to run on bind or unbind, whatever crashed or was restarted between.
SuccessIsTrue ==
  \A id \in Ids, t \in Tokens :
    jobs[id][t] = "succeeded" =>
      outcome[t] \in {"succeeded"} \union
        (IF Op(t) \in {"bind", "unbind"} THEN {"action not found"} ELSE {})

\* The broker forgets an instance or a binding only after a deprovision or an
\* unbind of it whose bundle had nothing left to undo (or, without bundles for
\* binding, at the unbind request itself).
UndoneBeforeForgotten ==
  [][\A id \in objects \ objects' : \E t \in Tokens :
       /\ Target(t) = id
       /\ \/ Op(t) = "deprovision" /\ outcome[t] = "succeeded"
          \/ /\ Op(t) = "unbind"
             /\ ~launch \/ outcome[t] \in {"succeeded", "action not found"}]_vars

\* Writers of the binding list do not lose each other's additions: a binding
\* whose Bind was answered with its credentials stays in the instance's list,
\* however stale the copies are that other binds, unbinds and updates write
\* back, as long as nobody asks to undo it or the instance.
BoundIsListed ==
  \A r \in {t \in Tokens : Op(t) = "bind" /\ answer[t].code = "done"} :
    \/ Target(r) \in listed
    \/ \E t \in Tokens : \/ Op(t) = "deprovision"
                         \/ Op(t) = "unbind" /\ Target(t) = Target(r)

\* A binding whose job is told as succeeded can be fetched: its credentials were
\* there before the state, and stay until an unbind of it or a deprovision has
\* nothing left to undo.  One that failed, was given up or is refused leaves the
\* binding as usable as it was, whatever other jobs go on beside it.
FetchableWhenBound ==
  \A r \in {t \in Tokens : Op(t) = "bind" /\ outcome[t] = "succeeded"} :
    LastOperation(r) = "succeeded" =>
      \/ GetBind(Target(r)) = "found"
      \/ \E t \in Tokens :
           \/ Op(t) = "deprovision" /\ outcome[t] = "succeeded"
           \/ /\ Op(t) = "unbind" /\ Target(t) = Target(r)
              /\ ~launch \/ outcome[t] \in {"succeeded", "action not found"}

\* broker.go:1039: "If there is a job in any other state, send client through
\* async flow": who asks again for a binding that a job was accepted to make is told
\* that it exists only when such a job has succeeded, or when the binding was made
\* anew by one that its client waited for.  The etcd store keeps the CreateJobKey
\* this needs.
BindNamesItsJob ==
  [][\A r \in Tokens :
       LET binds == {t \in Tokens \ {r} : Op(t) = "bind" /\ Target(t) = Target(r)}
           accepted == {t \in binds : answer[t].code = "accepted"}
           awaited == {t \in binds : answer[t].code \in {"done", "error"} /\ run[t] = "returned"}
       IN At(r, {"bind"}, "find") /\ answer'[r].code = "exists" /\ accepted # {}
            => \/ awaited # {}
               \/ \E t \in accepted : jobs[Target(r)][t] = "succeeded"]_vars

\* With etcd no record of a job is refused or overtaken, whatever other jobs do to
\* its instance and binding: when the subscriber is done with the job, its end is
\* told to who polls, also that of a deprovision whose instance is gone.
EndIsRecorded ==
  \A r \in Tokens :
    store = "etcd" /\ note[r] = "done" => LastOperation(r) \in Final

\* When requests come one at a time an instance is not removed while a binding
\* is in its list.
RemovedUnbound ==
  [][(Instance \in objects \ objects') => listed = {}]_vars

\* broker.go:796: "Lookup bindings by instance ID; 400 if any are active": when they
\* do a deprovision is refused only while a binding exists, so a platform that is
\* refused has something left to unbind.  The entries that validateDeprovision counts
\* leave the list by a merge of stale copies.  Not so over etcd: there the false entry
\* that an unbind leaves has every later deprovision refused.
RefusedWhileBound ==
  [][\A r \in Tokens :
       At(r, {"deprovision"}, "check") /\ pc'[r] = "done" /\ answer'[r].code = "refused" =>
         \/ objects \intersect Bindings # {}
         \/ store = "etcd" /\ marked # {}]_vars

\* Nor do an instance's credentials outlive it.
NoSecretLeft == Resting /\ Instance \notin objects => Instance \notin secrets

\* When they do nobody polls for ever: once a job has returned its end is
\* recorded, or its record goes with its object.  Not so for an accepted bind in the CRD store:
\* its final state is lost when it comes while Bind stores the CreateJobKey.
AcceptedEnds ==
  \A r \in Tokens :
    (/\ Op(r) # "bind" \/ store = "etcd"
     /\ answer[r].code = "accepted" /\ run[r] = "returned")
      ~> GetState(Target(r), r) \notin {"not yet started", "in progress"}

\* The cleanup of a successful deprovision is carried out: the instance goes.
DeprovisionCompletes ==
  \A r \in Tokens :
    (Op(r) = "deprovision" /\ outcome[r] = "succeeded" /\ note[r] = "final")
      ~> Instance \notin objects

\* When they do a job on the instance that is recorded as in progress when the
\* broker dies is started again and comes to an end, which is recorded, or the broker
\* has died again.  Not so for the job of a binding, which stops the recovery, nor for
\* one recorded as not yet started.
RecoveredJobsEnd ==
  \A r \in Tokens, n \in 1 .. MaxCrashes :
    (/\ phase = "down" /\ crashes = n
     /\ Instance \in objects /\ jobs[Instance][r] = "in progress"
     /\ store = "etcd" => \A b \in Bindings : JobsByState(b, "in progress") = {})
      ~> (jobs[Instance][r] \in Final \/ crashes > n)

-----------------------------------------------------------------------------
(* One request at a time, the broker implements ServiceLife.               *)

AtWork == {r \in Tokens : pc[r] \notin {"idle", "done"} \/ note[r] \notin {"none", "done"}}
Worker == CHOOSE r \in AtWork : TRUE

\* How the bundle of job r fared, as the subscriber sees it.
Fared(r) == IF outcome[r] = "none" THEN "none" ELSE FinalState(r)

Life == INSTANCE ServiceLife WITH
  exists <- objects,
  task <- IF AtWork = {} THEN [op |-> "none", id |-> Instance]
          ELSE [op |-> Op(Worker), id |-> Target(Worker)],
  work <- IF AtWork = {} THEN "none" ELSE Fared(Worker),
  bundled <- launch

\* Handlers, jobs and cleanups, with all their calls to either store, amount to
\* operations that make one record before, or forget one after, their bundle has
\* done its work, leave every other record alone, and end.
LifeSpec == Life!Spec

-----------------------------------------------------------------------------
\* broker.go:796: "Lookup bindings by instance ID; 400 if any are active": an
\* instance is not removed while a binding exists whose Bind is recorded as
\* succeeded.
NoActiveBindingLeft ==
  [][(Instance \in objects \ objects') =>
       ~\E t \in Tokens : /\ Op(t) = "bind"
                         /\ Target(t) \in objects
                         /\ jobs[Target(t)][t] = "succeeded"]_vars

\* job_state_subscriber_test.go:131: "after successful deprovision the service
\* instance should be removed": it stays so until it is provisioned again.
RemovedStaysRemoved ==
  [][(Instance \in objects' \ objects) =>
       \E t \in Tokens : Op(t) = "provision" /\ pc[t] = "save"]_vars

\* broker.go:865: "The creds should only be deleted if the instance was
\* successfully deleted": credentials of an instance go only with a bundle that
\* deprovisioned it.
SecretKeptOnFailure ==
  [][(Instance \in secrets \ secrets') =>
       \E t \in Tokens : Op(t) = "deprovision" /\ outcome'[t] = "succeeded"]_vars

-----------------------------------------------------------------------------
(* The inductive invariant, token by token.                                *)

\* The job of the request has not been recorded.
Unstarted == {"idle", "check", "find", "reread", "save", "setup", "setup skipped"}

\* The subscriber has not come to the end of the job.
Unended == {"none", "progress", "final"}

\* A request is about an instance or about a binding, and so is the rest of its job.
Fits(r) ==
  /\ Op(r) \in BindMethods => Target(r) \in Bindings
  /\ Op(r) \notin BindMethods => Target(r) = Instance
  /\ pc[r] = "drop" => Op(r) = "unbind" /\ ~launch
  /\ note[r] \in {"delete", "secret"} => Op(r) = "deprovision"
  /\ note[r] \in {"instance", "binding", "drop", "unlist"} => Op(r) = "unbind"

\* A job has a runner and a subscriber once its handler has recorded it.
Started(r) ==
  /\ pc[r] \in Unstarted => run[r] = "none" /\ \A id \in Ids : jobs[id][r] = "none"
  /\ run[r] = "none" <=> note[r] = "none"
  /\ run[r] \in {"running", "skipping"} => note[r] \in {"progress", "final"}

\* A state is recorded where the job belongs, and elsewhere only the failure of a
\* cleanup; it is final when the subscriber has come to the end.
Recorded(r) ==
  /\ \A id \in Ids \ {Target(r)} : jobs[id][r] \in {"none", "failed"}
  /\ note[r] \in {"progress", "final"} => jobs[Target(r)][r] \notin Final
  /\ store = "etcd" /\ note[r] \notin Unended => jobs[Target(r)][r] \in Final

\* A success that is recorded, or cleaned up after, is one of the bundle.
Truthful(r) ==
  /\ jobs[Target(r)][r] = "succeeded" => FinalState(r) = "succeeded"
  /\ note[r] \in {"delete", "secret", "instance", "binding", "drop", "unlist"}
       => FinalState(r) = "succeeded"

\* What recovery is about to restart has ended with the process.
Recoverable(r) ==
  /\ r \in pending => pc[r] = "done"
  /\ r \in pending \/ pc[r] = "restart" => run[r] = "none" /\ jobs[Target(r)][r] \notin Final
  /\ phase = "down" => run[r] = "none" /\ pc[r] \in {"idle", "done"}

\* etcd refuses no write.
NothingStale == store = "etcd" => stale = {}

JobInv(r) == Fits(r) /\ Started(r) /\ Recorded(r) /\ Truthful(r) /\ Recoverable(r)
IInv == TypeOK /\ NothingStale /\ \A r \in Tokens : JobInv(r)
=============================================================================

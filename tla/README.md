# A formal model of the Ansible Service Broker

TLA+ modules for the core of the broker in this repository, TLC
configurations that check them on small instances, and TLAPS proofs of what
holds for every size. `PROJECT.json` is the index: components, runs, the
source lines each definition translates, findings, hazards, theorems.

Run a configuration with `tlc -workers 2 -config Broker_serial.cfg MCBroker.tla`,
the proofs with `tlapm M.tla` for each module `M` whose name ends in `Proofs`
(`BrokerProofs` before the three that extend it).

## 1. The system

The broker serves the Open Service Broker API for Ansible playbook bundles.
A platform asks it to provision, update, deprovision, bind and unbind; the
broker stores what was asked, starts a *job* that runs the bundle in a pod, and
the platform polls `last_operation` until the job's recorded state is final.

| Component | Source | State it keeps | Operations |
|---|---|---|---|
| HTTP handlers | `pkg/handler/handler.go` | none; one goroutine per request | read the instance or binding, call the broker, turn errors into answers |
| Broker | `pkg/broker/broker.go` | none of its own; the store's | Provision, Update, Deprovision, Bind, Unbind, LastOperation, Recover, Bootstrap, Catalog, AddSpec, RemoveSpec |
| Work engine | `pkg/broker/work_engine.go` | subscribers per topic, channel per job | AttachSubscriber, StartNewAsyncJob, StartNewSyncJob |
| Jobs | `pkg/broker/jobs.go`, bundle-lib | the bundle's pod, its credentials | `apbJob.Run`: messages "in progress", one final message |
| Job state subscriber | `pkg/broker/job_state_subscriber.go` | none; the store's | Notify: record the state, clean up after deprovision and unbind, dashboard URL |
| CRD store | `pkg/dao/crd/dao.go` | BundleInstance, BundleBinding, Bundle objects | Get/Set/Delete of each, SetState, the lookups of job states |
| Credentials | bundle-lib `runtime`, `clients` | one secret per instance or binding | create, delete, read |
| Recovery | `broker.go` Recover, `app.go` | reads the store | restart the jobs recorded as in progress |
| Catalogue | `broker.go` Bootstrap | Bundle objects | load registries, mark, sweep |
| etcd store | `pkg/dao/etcd/dao.go` | one key per record, job states apart from what they are about | as the CRD store; a write puts the whole value and is never refused |
| Migration | `cmd/migration` | both stores; what it has saved so far | copy etcd to CRDs kind by kind, revert on failure |
| Update validation | `broker.go` | the plan and parameters of the instance | check a request to update against the plan, store what changed |
| Schemas and forms | `util.go` | none | what the catalogue is told of a plan's parameters |
| Metrics, authentication, start, dashboard redirector, deployment | as named | none that matters here | as named |

How they interact. A handler goroutine makes a chain of store calls and may end
it by starting a job. The job's runner sends messages into a channel; the
job's listener hands each to every subscriber of the job's topic; the job state
subscriber writes the store. Handlers, jobs and subscribers therefore share the
store's objects, several store calls apart, guarded by nothing but the API
server's refusal of a stale put and by two locks of the dao, `instanceLock`
and `bindingLock`, that do not exclude each other although `SetState` takes the
second also to write instances.

What is hard here:

- a copy of an instance is read at the start of a request and written back many
  calls later, after other requests, jobs and cleanups have changed it;
- `SetServiceInstance` is both "create" and "update", so a late write can create;
- the final state is recorded *before* the cleanup it announces, and one failed
  write of it is never repeated;
- a crash falls between any two store calls; recovery sees only what is stored;
- a refresh of the catalogue decides what to delete from lists it read many calls ago;
- a subscriber may be late or hang while the next messages of the job come;
- a copy to another store that fails half way, or is run again after it died;
- what may be updated is said twice, to the catalogue by `util.go` and to the request by
  `broker.go`, and must be the same.

What makes each component correct:

- work engine: a subscriber in time sees each job's messages once and in order;
  a subscriber that hangs locks nothing up; a finished job's goroutines end;
- store: an update by one caller does not lose what another caller added, nor
  the jobs recorded in the object;
- broker and subscriber: "succeeded" is recorded only for what succeeded;
  an object is forgotten only after it was undone; a deprovision is refused only while
  there is something to unbind; instance and credentials agree at rest; an accepted operation ends;
- recovery: neither undoes a recorded result nor invents one, and what was in progress runs again to a recorded end;
- migration: success means that everything is there, a revert leaves nothing, a second
  run is not stopped by what the first has left;
- schemas and updates: no parameter is lost on the way to the catalogue, what it offers is
  accepted, what is sent back unchanged is accepted, a retry changes nothing;
- catalogue: no spec is swept that an instance uses, none is deleted that the platform could not
  have seen disappear, what no registry offers is hidden and goes in the end.

## 2. The modules

| Module | What it is |
|---|---|
| `JobDelivery` | what the engine promises to a job's subscribers: once, in order, in the end |
| `WorkEngine` | the engine: every goroutine and channel of `work_engine.go` |
| `WorkEngineProofs` | theorems about `WorkEngine`, for all constants |
| `MCWorkEngine` | root module of the engine's TLC runs |
| `Store` | what is persisted about one instance and its bindings, copies of the instance, credentials |
| `CrdDao`, `EtcdDao` | the two stores over that state; one operator per dao operation |
| `Dao` | the choice between them, as `dao.type` makes it |
| `Broker` | the requests, runners, subscriber and recovery, over `Dao` |
| `ServiceLife` | what the broker promises to who asks for one operation at a time; `Broker` implements it |
| `BrokerProofs` | theorems about `Broker` that need no assumption on requests, crashes or store, and the lemmas on every step |
| `BindingListProofs` | no writer over CRDs loses a binding |
| `AnswerProofs` | what a client is told of a binding is so |
| `SerialProofs` | requests one at a time: everything agrees at rest, and `ServiceLife` is implemented |
| `MCBroker` | root module of the broker's TLC runs, with the symmetry of tokens and parameters |
| `Bootstrap` | the catalogue: Bootstrap beside requests, registries, developers and crashes |
| `BootstrapProofs` | theorems about `Bootstrap`, for all constants |
| `MCBootstrap` | root module of the catalogue's TLC runs: which spec comes from which registry |
| `Migration`, `MCMigration` | the copy from etcd to CRDs, call by call, with its reverts, failures, deaths and repetitions |
| `MigrationProofs` | theorems about `Migration`, for all constants |
| `Plans` | pure operators: forms and schemas of a plan, the check of a request to update |
| `Updates`, `MCUpdates` | plans as an author may describe them and an instance that is updated under them |
| `UpdatesProofs` | theorems about `Plans` and `Updates`, for all constants |

A definition whose comment says "A plausible slip" is no part of the model: it
is a changed form of its neighbour, used to see that a property notices.

### WorkEngine

A job has a runner goroutine (`runner[j]`, with the sends into `channel[j]`) and
a listener goroutine (`listener[j]`, loop variable `msg[j]`). For message `k` and
subscriber `s` the listener starts a supervisor (`supervisor[j][k][s]`, which owns the
deadline) and it a waiter (`waiter[j][k][s]`, which calls Notify and then signals).
An action is what one goroutine does between two points at which another can see it.
The waiter's "is the context done" test and its send are two actions, because
the code has two statements; `wg.Done` and `close(notifySignal)` are two
actions, in the order of the deferred calls. `Slow` subscribers are those whose Notify may
overrun `subscriberTimeout`; the deadline of the others does not pass.
A write of the unlocked map `jobChannels` has a beginning and an end; when two
overlap the Go runtime may kill the process (`crash`), or not notice.
A send is one step, also from the buffer's side: it needs room.

### Store, CrdDao, EtcdDao, Dao and Broker

The state is that of the objects of **one** service instance: which
exist, their parameters, the list `status.bindings`, the jobs recorded in each and
the credentials. Instances do not share objects, so several add nothing but the
work engine's and the recovery's order. Job tokens double as the names of
requests: `req[r]`, `pc[r]` and `held[r]` (the copy it holds) are the handler thread of request
`r`, `run[r]` and `outcome[r]` its job's runner, `note[r]` and `read[r]` the subscriber's thread
for that job. `pc` and `note` name the store call that comes next; there is one
action per call: `Provision`..`Unbind` are the first read, the `Check` actions
`isJobInProgress` and the decisions around it, then the writes.

Abstractions, each on purpose:

- a dao write is a read, a change of the copy and a put. It is one step that
  takes effect at the put; a caller in `stale` may find it refused, because between the two
  another caller *may* have written the object under the other lock, or deleted it.
  Refusal is a possibility for whoever was at the call, never forced;
- consecutive reads are merged when the store cannot tell the difference to the
  later steps: `FindBind` reads credentials and binding in one step, `Arrives`
  merges the handler's and the broker method's read of the instance;
- all "in progress" messages of a job are one message. The subscriber is a
  prompt one: order is what `JobDelivery` gives, and `WorkEngineProofs` proves that
  the engine gives it to subscribers that keep the deadline;
- refusals before any store call (headers, user, namespace, unknown plan) are
  left out, and the spec of the instance is found. The verdict of update validation
  and "namespace is being deleted" are free choices;
- of API server failures only "not found" and "conflict" are there;
- what the bundle does: its outcome, and its effect on the credentials. A
  provision or bind finds it cannot store credentials when some are there;
- recovery: the repair of records without spec or parameters, and the takeover of
  a running pod are left out: no modelled write makes such a record, and no
  job records a pod name, since messages carry it and `SetState` is given none
  that Recover could use;
- `keys[b]` is the `CreateJobKey` of a binding. The CRD dao drops it, so there `Bind` takes
  an equal binding for a complete one, as the code then does; etcd keeps it.

The two stores differ where the code does. A write to etcd is a put of what the caller holds, so
nothing is merged and nothing is refused; removed bindings stay in the list as `false`
(`marked`); job states are keys of their own (`jobs` outlives the object, `recorded` says
whether there is a directory to list, without which a lookup is an error). With CRDs
`SetServiceInstance` merges the lists and keeps the jobs, `SetState` needs the object,
and an id without an object has no jobs. Credentials are secrets of the cluster with either.
Left out of both: specs (the catalogue is modelled over CRDs) and, of the CRD dao,
`GetStateByKey`, since nothing there stores the key it takes.

`Broker` implements `ServiceLife` when requests come one at a time: `exists` is `objects`, a `task` lasts from
a request's first call to the last call of its cleanup, `work` is the outcome of its bundle.

### Bootstrap

`stored` and `marked` are the Bundle objects and their `Delete` field, `offered` what the
registries hold at the moment, `uses[i]` the spec an instance refers to, `held[i]` the one
that a Provision has read and not yet stored. A thread `b` that bootstraps is at the
call `pc[b]`; `unwanted`, `lookups`, `known`, `unloaded`, `failed`, `manifest` and `toSet`
are the local variables of `AnsibleBroker.Bootstrap` and of the dao's batches it runs
through, one store call or registry per action. `Returns` is every return of it, the early ones
included. `AddSpec`, `RemoveSpec`, `ListSpecs` and `RemoveListed` are the developers' requests.

- `SetSpec` reads and writes under `bundleLock`, which `DeleteSpec` does not take. It is one step:
  a deletion in between makes it fail, which is as if it had come before the deletion, and
  `BatchSetSpecs` goes on after a failure;
- of API failures only "not found" is there; a registry may fail at any time. Since `BatchSetSpecs`
  reports no error, a mark that the API refuses is missed until the next Bootstrap;
- what makes a spec invalid, and the conversion to services, are left out: an invalid spec is
  not offered;
- a Bootstrap begins at any time, also while Provisions are under way. `overtaken`, the instances whose Provision
  had read a spec before it was marked, is no state of the broker: it remembers for `UsedSpecKept` what the
  code forgets, and no guard reads it;
- Deprovision stands for the whole of it: it only needs the spec, and frees it.

### Migration

`etcd` and `crd` are sets of records of five kinds. `phase` is the loop of `main` the run is in, `todo`
what it has still to go over, `saved` the slices `crdSavedSpecs`, `siSaved`, `biSaved` and `extCredsSaved`
together. Each call is an action; `CallFails` is a read or write that fails though it need not,
with the write done or not (a lost answer); `CopyRefused` one that fails each time: a job of a binding kept under an
instance, a binding without any credentials, a secret that is there already. Every error goes to the
reverts in their order (`AfterUndo`), a failing revert panics, the process may die at any step,
and `Begin` runs the migration again on what is there. A revert of a kind of which nothing is saved is empty, so
it does not matter that the early loops leave out the reverts of later kinds. The two kinds of exit
(status 2, panic) are one.

### Plans and Updates

A parameter is a record of what the code tells apart: name, type, enum, required, updatable,
display group and its first dependency (`extractDependencies` looks at no other). `Plans` has one operator
per function of `util.go`; of a definition in a schema the values it allows are kept. Where the
code puts the definition of a name that the properties lack, the schema holds `null` (`defined`
is FALSE). `Updates` lets an author append parameters to the plans in any order, then provisions an
instance and updates it within and between plans.

- names are distinct within a list, as the keys of the catalogue's properties need them to be;
- left out: titles, defaults, metadata, the validators of strings and numbers, and the parameters the broker
  adds itself (plan, ids, last requesting user), which no plan describes;
- whether an update may begin and its job are in `Broker` (`CheckUpdate`), where the verdict
  of the validation is a free choice.

## 3. The runs

| Run | Instance and bounds | Shows |
|---|---|---|
| `engine_slow` | 1 job, 2 messages, buffer 1, one prompt and one slow subscriber | order and non-blocking in spite of a late or hanging subscriber; the listener ends |
| `engine_jobs` | 2 jobs, 2 topics, 1 prompt subscriber | the engine implements `JobDelivery`, liveness included |
| `engine_panic` | as `engine_slow` | **violated**: a late waiter sends on a closed channel and the broker dies |
| `broker_instance` | CRDs; any 2 requests out of 5 kinds, fully interleaved, 2 bindings, 2 parameter values, dashboards, 1 crash; from nothing or from an instance with a binding | the records of jobs are kept and true, nothing is forgotten that was not undone, completed bindings stay listed |
| `broker_serial` | both stores; 2 requests one after the other, each racing its own job; 3 initial states; no crash | a deprovision is refused only while a binding exists (over etcd: or a false entry does); credentials agree with the instance at rest; the end of accepted operations is recorded; the cleanup happens; nothing removed comes back; `ServiceLife` is implemented |
| `broker_etcd` | etcd; 3 requests (deprovision, bind, unbind) one after the other whose jobs and cleanups overlap | no end of a job is lost; a bind is told that the binding exists only after another that made it came to its end, else it is named the job to wait for; a binding told as succeeded can be fetched until it is undone |
| `broker_recovery` | both stores; 2 requests one at a time, 2 crashes anywhere, in recovery too | a job on the instance that was in progress when the broker died is started again, runs and has its end recorded, if the broker does not die once more |
| `broker_active` | bind, then deprovision | **violated**: the instance goes although a bind has succeeded |
| `broker_creds` | one deprovision | **violated**: credentials are deleted after a failed synchronous deprovision |
| `catalogue_refresh` | 2 registries, one with `fail_on_error`, a spec each and a pushed one; 1 instance, 1 edit by developers, 1 crash; Bootstrap and Provision overlap in any way | no spec in use is swept, unless it was marked after the Provision had read it; specs are hidden before they go, a complete refresh shows only what it loaded, and what is unwanted goes in the end |
| `migration` | 1 spec, 2 instances, 2 bindings of the first, 3 job states, any part of these; 2 runs, 2 failed calls, 1 death; 1.4 million states | what a run reports is true, also after an earlier one; no order of copies and reverts leaves an orphan; a run that did not succeed does not stop the next |
| `updates` | 2 plans, one to be updated to the other; one plan of up to 3 parameters, or 2 in plans and bindings together; 2 values | forms and schemas lose nothing and agree with what an update accepts; what is held can be sent back; a retry changes nothing |

Why the bounds are enough. In the engine every interaction is between one
message and the next of the same job (2 messages, so that one waits in the buffer
of 1 while the other is handed off) and between the two kinds of subscriber; jobs meet
only in the map. In the broker each hazard is a race of two parties, and two
requests are up to six threads: two handlers, two jobs, two subscriber threads; two
parameter values make "equal" and "conflicting" requests, two bindings make one
writer's list differ from another's. One crash falls at every point; the second request,
or the same after recovery, meets its result. In the catalogue registries change freely at every step, and a spec is told from another only by
its registry; one edit is enough to orphan an instance (two edits and two
instances were tried too, 5 million states). In the migration two runs are what it takes to meet leftovers, two faults to fail
in a copy and in its revert; a second instance makes a loop fail in its middle. Three
parameters make a chain of dependencies and a group between two others; instances are provisioned
only under plans of `InUse` parameters, those whose differences an update can tell. `CHECK_DEADLOCK FALSE`
everywhere: when all requests are answered and all jobs have ended nothing is left to do.

`Overlap` says what a request may come into: `"none"` only at rest, `"jobs"` when no handler is
running, `"all"` at any time. The properties of `broker_serial` are promises the code keeps to a platform that serialises the
operations on an instance, as the API asks of it; the violated runs and section 6 show what
becomes of them otherwise. `Dashboards = {}` there because the dashboard write can make
the write of the final state be refused; over CRDs the bind is excepted from `AcceptedEnds` for
the same reason (its second `SetBindInstance`, for the `CreateJobKey`). `AcceptedEnds` asks for the
recorded state and not for what `LastOperation` makes of it, which tells "not yet started" as "failed" before a
job has run. So does `RecoveredJobsEnd`, since a restarted job is first recorded as "not yet started". It
speaks of jobs on the instance: a job of a binding ends the recovery (section 6), over etcd, which lists jobs in any
order, also before those of the instance.

## 4. Fairness

`WorkEngine`: weak fairness for each goroutine step (the Go scheduler runs what can
run), for deadlines (time passes) and for the Notify of subscribers that are not slow.
None for starting jobs, for what the bundle sends or for slow subscribers: they
may hang for ever. `Broker`: weak fairness for handlers, runners and subscriber threads of a
live process and for its recovery after a crash (the deployment restarts it). None
for requests or crashes. That a runner ends is an assumption on the bundle: a bundle
that runs for ever is "in progress" for ever.

`Migration`: weak fairness for the steps of a run that has begun; nobody need begin one.
`Updates` has safety only.

`Bootstrap`: weak fairness for the calls of a Bootstrap, for the end of a Provision and for the
beginning of a Bootstrap, since the ticker of `app.go` starts one again and again; and strong fairness for the load of a
registry: one that is asked for ever answers now and then. A registry that never answers, with
`fail_on_error`, ends every Bootstrap, and nothing more can be promised.

## 5. What is proved

`WorkEngineProofs`, for any sets of jobs, subscribers and topics, any set of slow
subscribers, any positive buffer and message bound; the only assumption is
`EngineAssumption`:

- `TypeCorrect`: `TypeOK`, with the channels within their capacity;
- `PromptInOrder`: `HandledInOrder`;
- `OneAtATime`: `OneHandOffAtATime`;
- `ImplementsDelivery`: initial states and steps of the engine are those of
  `JobDelivery`, or stutter: the safety part of `DeliverySpec`.

The argument is the inductive invariant `IInv` of `WorkEngine`, in three parts
besides the types. `QueueInv`: the channel holds exactly the numbers after `msg`
up to `sent`. `HandOffInv`: the hand-offs made are those up to `msg`,
to the audience; only the last can still be supervised; for a prompt subscriber no
waiter survives its supervisor. `OrderInv`: what a prompt subscriber has
handled is 1 .. `msg`, less the last one while its Notify is to come.
`HandledInOrder` alone is not inductive: without `HandOffInv` two waiters
of one subscriber could be about to call Notify, and without `QueueInv` the next message
received could be any.

`BootstrapProofs`, for any specs, registries, instances, edits and crashes, from
`BootstrapAssumption`:

- `TypeCorrect`: `TypeOK`, for any number of threads that bootstrap;
- `HiddenFirst`: `HiddenBeforeDeleted`, and `OnlyLoaded`: `OnlyLoadedShown`, assuming
  `OneBootstrapper`, that one thread bootstraps;
- `UsedKept`: `UsedSpecKept`, with the same assumption, for Provisions at any time.

The argument is `IInv` of `Bootstrap`. `UnwantedHidden`: what a Bootstrap is about to
delete is still hidden, although the marks were read calls ago, since the only writes that
clear a mark of a registry's spec are its own and come later (`SweepingOnly`). `Accounted`: from the
second reading of the store to the last mark, whatever the catalogue shows is in `known`, in
`manifest` or yet to be marked. Two more lead to `UsedKept`: `MarkedOvertakes`, a Provision holds a
hidden spec only if a mark has overtaken it, since one that begins later finds the spec marked and is refused;
and `UnwantedUnused`, of what is about to be deleted the instances listed as no user come to be users only in that way.
`OneBootstrapper` is needed: with two threads one clears the marks that the other has read. The exception is too: without it
TLC finds the Provision that loses its spec to the sweep (section 6).

`BrokerProofs`, for either store, any bindings, tokens, parameters and dashboards, any
overlap of requests, any number of crashes, from `StoreAssumption` and `BrokerAssumption` alone:

- `TypeCorrect`: `TypeOK`;
- `SuccessTold`: `SuccessIsTrue`, and `EndTold`: `EndIsRecorded`;
- `RecordsKept`: `RecordedJobsKept`, and `ForgottenLast`: `UndoneBeforeForgotten`.

The inductive invariant is `IInv` of `Broker`: five facts of each token. `Fits`: which call of the
handler, the runner and the subscriber goes with which request and with which of the others;
`Started`: a job is recorded before it runs; `Recorded`: what the subscriber has done with is in the
store, as far as the store promises; `Truthful`: what is recorded, or about to be, is the
outcome of the bundle; `Recoverable`: what recovery takes up has ended with the process, and has no final state.
`SuccessIsTrue` alone is not inductive: a subscriber on its way with the final message, or a recovery
that starts a job once more, could write a success that nobody had; and that a cleanup deletes only what was
undone rests on `note` being at a cleanup only after a success.

`BindingListProofs`, with `Stores = {"crd"}`, any overlap and crashes: `BoundListed` (`BoundIsListed`).
`ListInv` adds that no copy of an instance marks a binding: the CRD store merges, so a
write takes away at most what its own caller removes. Over etcd the property is false (section 6).

`AnswerProofs`:

- `BoundFetchable`: `FetchableWhenBound`, without an assumption. `FetchInv` says of each bind that its
  instance, record and credentials are there *or were undone*, and "undone" is witnessed by a deprovision or unbind that
  has run and that recovery will not take up again, so it stays true whatever comes;
- `JobNamed`: `BindNamesItsJob`, with `Stores = {"etcd"}`, `Overlap # "all"` and `MaxCrashes = 0`; jobs and
  cleanups overlap in any way. `NameInv` says of a binding that names no job that it was made anew by a bind
  that somebody waits for, or is being made. Over CRDs `CreateJobKey` is dropped, with two handlers at once one
  reads the binding between the two writes of the other, and a crash between these leaves it so for the next (TLC finds
  both).

`SerialProofs`, with `Overlap = "none"` and `MaxCrashes = 0`, over either store:

- `NoSecretOutlives`: `NoSecretLeft`;
- `RefusedIfBound`: `RefusedWhileBound`. What `validateDeprovision` counts is the list as it is (`InStep`), whose
  entries exist (`ListedThere`), and false entries, of which the CRD store has none (`Unmarked`). That over etcd these
  are excepted is no weakness of the proof: there the code refuses for ever;
- `RemovedWhenUnbound`, `StaysRemoved`: the action properties `RemovedUnbound`, `RemovedStaysRemoved`;
- `ImplementsLife`: the initial states are those of `ServiceLife` and each step is one of it or a stutter,
  under the refinement mapping of `Broker`: the safety part of `LifeSpec`.

These properties speak of rest only, or of one step, and are far from inductive. `SerialInv` says what holds meanwhile:
one request is under way (`Alone`), what it read is still so (`There`), the copies it and its
subscriber hold have no binding that is gone (`InStep`), a write can be refused only where its own job
wrote in between (`Calm`), and which records, list entries and secrets go together (`ListedThere`, `SecretThere`).
Both assumptions are needed: section 6 tells what is lost without them.

`MigrationProofs`, for any records, any number of runs, failed calls and deaths, from `MigrationAssumption`:
`TypeCorrect`, `AllCopied` (`Complete`), `AllReverted` (`NothingLeft`) and `NeverOrphaned` (`NoOrphans`). `IInv` of
`Migration` has what a loop has still to copy (`InLoop`), what the loops before it have (`Copied`), that a kind is saved
only after those it refers to (`InOrder`), what the reverts have gone over (`Reverted`), and that a run that began
on nothing finds nothing but its own (`OnlySaved`).

`UpdatesProofs`, for any plans, parameters in any order and on any dependencies, any values and updates, from
`PlansAssumption` and `UpdatesAssumption`:

- `TypeCorrect`; `EchoTaken` and `RetryHarmless`: `EchoAccepted`, `RetryChangesNothing`;
- `OffersAgree`: `OffersWhatItTakes`. The two descriptions of what may be updated are written apart, and
  both come to the parameters that are updatable;
- `OffersOnce`: `OfferedOnce`. Of the names that a user of a schema does not come to, each depends on
  another such: none, if the dependencies have no circle;
- `FormsComplete`: `FormsAreWhole`. The forms are recursive functions of the list. That such a function
  exists, and what it computes, is shown by induction on numbers, stated of sets (`Onward`, from `LeastNumber`): the library's induction
  theorems take an operator, which cannot be instantiated here.

The invariant is the types and that no two parameters of a plan have one name (`NamesDistinct`), which every one
of these needs that looks a parameter up by its name.

So every invariant and every action property that the passing runs check is a theorem, and of the two refinements the safety part.
Only model-checked: all liveness, which is under fairness and out of the prover's reach (`EveryMessageHandedOff`,
`ListenerFinishes`, `AcceptedEnds`, `DeprovisionCompletes`, `RecoveredJobsEnd`, `SweptInTheEnd`, `SucceedsAgain`,
and the fairness of `DeliverySpec` and `LifeSpec`), and the violated runs.

## 6. Observations without a run

What the model showed, or what showed while writing it, that no run records.

Jobs and their states:

- `LastOperation` tells a job that is "not yet started" as "failed"
  (`StateToLastOperation`): a platform that polls at once may give up.
- `isJobInProgress` looks for "in progress" only: a second request in the window
  before the first message starts a second job. Two updates may so be under way together.
- The state of an accepted bind over CRDs can stay "in progress": its last write and the
  second `SetBindInstance` may conflict, and neither is tried again.
- A subscriber that overran the deadline is handed the next message while it still handles the last.
- The failure of an unbind's cleanup is recorded under the id of the instance
  (`RecordCleanupFailure`): over CRDs that fails as well, over etcd it is a state nobody polls.
- `DeleteBinding` deletes the binding before it rewrites the list: after a crash or a refused write between the two the
  instance keeps the id of a binding that nobody can unbind, and each deprovision is refused until a binding of that
  id is made anew.
- `Recover` ends at the first binding's job, whose id it looks up among the
  instances; jobs "not yet started", and cleanups cut off by a crash, are not resumed.

Instances and bindings:

- An update, or a bind, that overlaps a deprovision writes the removed instance back:
  `SetServiceInstance` creates what it does not find. `RemovedStaysRemoved` is checked for requests one at a time.
- A bind that overlaps a deprovision may add its binding after the handler of the other has read the list: the instance
  goes from under the binding. `RemovedUnbound` is checked for requests one at a time.
- The CRD store drops `CreateJobKey`: who asks again for a binding that is being made is told that it exists.
- Over etcd the `false` entry that an unbind leaves is counted by `validateDeprovision`, which then refuses for
  ever (`removeFalseBindings` is not called); a binding made without a job cannot be
  unbound, since the listing of its jobs is an error; and two writers of the list lose each other's bindings.
- `handler.getbind` goes on after it has answered that the instance is missing (`handler.go:502`).

Catalogue, migration, schemas:

- Two Bootstraps at once (the ticker and a `POST /v2/bootstrap`) undo each other's marks: with two
  `Bootstrappers` a refresh that completes may leave shown what it did not load, and delete what is shown.
- A Provision that read its spec before a Bootstrap marked it, and stores its instance after the next has listed the
  instances, loses the spec to the sweep: the exception in `UsedSpecKept`.
- One instance whose spec was removed by hand makes `BatchGetBundleInstances` fail, so no
  Bootstrap deletes anything until that instance is gone: the exception in `SweptInTheEnd`.
- The migration copies no job states of bindings. A run on what an earlier one left overwrites it,
  remembers it as saved and, if it fails, deletes it: a spec may go while instances of
  the earlier run stay (so `NoOrphans` is about runs that began on nothing). Secrets that were left stop every further
  run, since they are created and never updated (so `SucceedsAgain` asks that there be none).
- The schemas for bind and update take their dependencies from the parameters of the instance: where one depends on a name
  that the schema has, but is not itself bindable or updatable, the schema requires it with a `null` definition.
- A parameter of type `enum` without values is offered as free text and refuses every update.

## 7. Not modelled, and the plan

Left out for good: metrics, authentication, configuration, dashboard redirector,
API conversion and catalogue metadata, deployment (no state, or no logic). Order of the work:

1. `WorkEngine`, `JobDelivery` and their proofs: done.
2. `Store`, `CrdDao`, `EtcdDao`, `Dao`, `Broker`, `ServiceLife`, and their proofs (`BrokerProofs`,
   `BindingListProofs`, `AnswerProofs`, `SerialProofs`): done.
3. `Bootstrap`, the catalogue, and its proofs: done.
4. `Migration` and its proofs: done.
5. `Plans`, `Updates` and their proofs: done.

What would say more: bounds on `JobNamed` and `BoundListed` that are weaker than a choice of the store, and the
safety lemmas that liveness rests on (that a thread that is not done can step).

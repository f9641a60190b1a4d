---------------------------- MODULE BrokerProofs ----------------------------
(***************************************************************************)
(* Theorems about the broker's requests, jobs and recovery over either     *)
(* store, for any bindings, tokens and parameters, any number of requests  *)
(* at the same time and any number of crashes.                             *)
(***************************************************************************)
EXTENDS Broker, TLAPS

USE StoreAssumption, BrokerAssumption

-----------------------------------------------------------------------------
(* What the data access objects write.                                     *)

\* An instance is written: its record is there, and no other record, job state or
\* secret is touched.
LEMMA InstanceWritten ==
  ASSUME StoreTypeOK, NEW copy, copy.listed \subseteq Bindings, copy.marked \subseteq Bindings,
         NEW p \in Params \union {NoParams}, SetServiceInstance(copy, p)
  PROVE  /\ StoreTypeOK'
         /\ UNCHANGED <<store, jobs, keys, recorded, secrets>>
         /\ objects' = objects \union {Instance}
<1> USE DEF StoreTypeOK, Ids
<1>1. CASE store = "crd" /\ Crd!SetServiceInstance(copy, p)
  <2>1. jobs' = jobs
    BY <1>1 DEF Crd!SetServiceInstance, Crd!KeepsJobs
  <2>2. listed' \subseteq Bindings
    BY <1>1 DEF Crd!SetServiceInstance, Crd!intersectionOfBindings
  <2>3. params' \in [Ids -> Params \union {NoParams}]
    BY <1>1 DEF Crd!SetServiceInstance
  <2>4. QED
    BY <1>1, <2>1, <2>2, <2>3 DEF Crd!SetServiceInstance
<1>2. CASE store = "etcd" /\ Etcd!SetServiceInstance(copy, p)
  BY <1>2 DEF Etcd!SetServiceInstance
<1>3. QED
  BY <1>1, <1>2 DEF SetServiceInstance

\* A binding is written.
LEMMA BindingWritten ==
  ASSUME StoreTypeOK, NEW b \in Ids, NEW p \in Params \union {NoParams},
         NEW key \in Tokens \union {NoToken}, SetBindInstance(b, p, key)
  PROVE  /\ StoreTypeOK'
         /\ UNCHANGED <<store, listed, marked, jobs, recorded, secrets>>
         /\ objects' = objects \union {b}
<1> USE DEF StoreTypeOK, Ids
<1>1. CASE store = "crd" /\ Crd!SetBindInstance(b, p, key)
  <2>1. jobs' = jobs
    BY <1>1 DEF Crd!SetBindInstance, Crd!KeepsJobs
  <2>2. QED
    BY <1>1, <2>1 DEF Crd!SetBindInstance
<1>2. CASE store = "etcd" /\ Etcd!SetBindInstance(b, p, key)
  BY <1>2 DEF Etcd!SetBindInstance
<1>3. QED
  BY <1>1, <1>2 DEF SetBindInstance

\* A record is deleted; the job states in it go with it, or all stay.
LEMMA ObjectDeleted ==
  ASSUME StoreTypeOK, NEW id \in Ids, DeleteObject(id)
  PROVE  /\ StoreTypeOK'
         /\ UNCHANGED <<store, recorded, secrets>>
         /\ objects' = objects \ {id} /\ id \in objects
         /\ \A i \in Ids, t \in Tokens : jobs'[i][t] = jobs[i][t] \/ (i = id /\ jobs'[i][t] = "none")
         /\ store = "etcd" => jobs' = jobs
<1> USE DEF StoreTypeOK, Ids
<1>1. CASE store = "crd" /\ Crd!DeleteObject(id)
  <2>1. NoJobs \in [Tokens -> JobStates \union {"none"}]
    BY DEF NoJobs
  <2>2. /\ jobs' = [jobs EXCEPT ![id] = NoJobs]
        /\ jobs' \in [Ids -> [Tokens -> JobStates \union {"none"}]]
    BY <1>1, <2>1 DEF Crd!DeleteObject, Crd!NoJobs, NoJobs
  <2>3. \A i \in Ids, t \in Tokens : jobs'[i][t] = jobs[i][t] \/ (i = id /\ jobs'[i][t] = "none")
    BY <2>2 DEF NoJobs
  <2>4. QED
    BY <1>1, <2>2, <2>3 DEF Crd!DeleteObject
<1>2. CASE store = "etcd" /\ Etcd!DeleteObject(id)
  <2>1. /\ listed' \subseteq Bindings /\ marked' \subseteq Bindings
        /\ keys' \in [Bindings -> Tokens \union {NoToken}]
    BY <1>2 DEF Etcd!DeleteObject
  <2>2. QED
    BY <1>2, <2>1 DEF Etcd!DeleteObject
<1>3. QED
  BY <1>1, <1>2 DEF DeleteObject

\* One state is written.
StateWritten(id, t, s) ==
  /\ jobs'[id][t] = s
  /\ \A i \in Ids, u \in Tokens : i # id \/ u # t => jobs'[i][u] = jobs[i][u]

\* The state of one job is recorded.
LEMMA StateRecorded ==
  ASSUME StoreTypeOK, NEW id \in Ids, NEW t \in Tokens, NEW s \in JobStates,
         NEW method \in Methods \union {"none"}, SetState(id, t, s, method)
  PROVE  /\ StoreTypeOK'
         /\ UNCHANGED <<store, objects, params, listed, marked, keys, secrets>>
         /\ StateWritten(id, t, s)
<1> USE DEF StoreTypeOK
<1>1. /\ jobs' = [jobs EXCEPT ![id][t] = s]
      /\ recorded' \subseteq Ids
      /\ UNCHANGED <<store, objects, params, listed, marked, keys, secrets>>
  BY DEF SetState, Crd!SetState, Etcd!SetState
<1>2. jobs' \in [Ids -> [Tokens -> JobStates \union {"none"}]]
  BY <1>1
<1>3. StateWritten(id, t, s)
  BY <1>1 DEF StateWritten
<1>4. QED
  BY <1>1, <1>2, <1>3

\* Credentials come and go without touching any record.
LEMMA SecretWritten ==
  ASSUME StoreTypeOK, NEW id \in Ids, CreateSecret(id) \/ DeleteSecret(id)
  PROVE  /\ StoreTypeOK'
         /\ UNCHANGED <<store, objects, params, listed, marked, keys, jobs, recorded>>
BY DEF StoreTypeOK, CreateSecret, DeleteSecret

\* The copies that are held and changed before they are written back.
LEMMA CopiesChanged ==
  ASSUME NEW copy, copy.listed \subseteq Bindings, copy.marked \subseteq Bindings,
         NEW b \in Bindings, copy \in Copies \union HeldCopies
  PROVE  /\ AddBinding(copy, b).listed \subseteq Bindings
         /\ AddBinding(copy, b).marked \subseteq Bindings
         /\ RemoveBinding(copy, b).listed \subseteq Bindings
         /\ RemoveBinding(copy, b).marked \subseteq Bindings
<1>1. AddBinding(copy, b).listed = copy.listed \union {b}
      /\ AddBinding(copy, b).marked = copy.marked \ {b}
  BY DEF AddBinding, Copies, HeldCopies
<1>2. CASE HasMap(copy)
  <2>1. RemoveBinding(copy, b).listed = copy.listed \ {b}
        /\ RemoveBinding(copy, b).marked = copy.marked \union {b}
    BY <1>2 DEF RemoveBinding, Copies, HeldCopies
  <2>2. QED
    BY <1>1, <2>1
<1>3. CASE ~HasMap(copy)
  BY <1>1, <1>3 DEF RemoveBinding
<1>4. QED
  BY <1>2, <1>3

-----------------------------------------------------------------------------
(* What the steps of each thread leave alone.                              *)

\* A request arrives, for an instance or one of its bindings.
Asked(r) ==
  /\ UNCHANGED <<storeVars, jobVars, stale, processVars>>
  /\ phase = "serving" /\ pc[r] = "idle"
  /\ \/ \E call \in {"save", "check", "find"} : Goes(r, call)
     \/ \E code \in {"conflict", "gone"} : Answers(r, code)
  /\ UNCHANGED held \/ held' = [held EXCEPT ![r] = Hold(GetServiceInstance, FALSE)]
  /\ \E op \in Operations, id \in Ids, p \in Params \union {NoParams} :
       /\ req' = [req EXCEPT ![r] = [op |-> op, target |-> id, params |-> p]]
       /\ op \in BindMethods => id \in Bindings
       /\ op \notin BindMethods => id = Instance

\* That is all a request does.
LEMMA RequestFrame ==
  ASSUME NEW r \in Tokens, Request(r)
  PROVE  Asked(r)
<1> USE DEF Asked, Arrives, HoldsInstance, Ids, BindMethods
<1>1. CASE Provision(r)
  <2>1. PICK p \in Params : /\ Arrives(r, "provision", Instance, p)
                            /\ UNCHANGED held
                            /\ Goes(r, "save") \/ Goes(r, "check") \/ Answers(r, "conflict")
    BY <1>1 DEF Provision
  <2>2. QED
    BY <2>1
<1>2. CASE Update(r)
  <2>1. PICK p \in Params :
          /\ Arrives(r, "update", Instance, p)
          /\ \/ Answers(r, "gone") /\ UNCHANGED held
             \/ HoldsInstance(r) /\ Goes(r, "check")
    BY <1>2 DEF Update
  <2>2. QED
    BY <2>1
<1>3. CASE Deprovision(r)
  BY <1>3 DEF Deprovision
<1>4. ASSUME NEW b \in Bindings, Bind(r, b)
      PROVE  Asked(r)
  <2>1. PICK p \in Params :
          /\ Arrives(r, "bind", b, p)
          /\ \/ Answers(r, "gone") /\ UNCHANGED held
             \/ HoldsInstance(r) /\ Goes(r, "find")
    BY <1>4 DEF Bind
  <2>2. QED
    BY <2>1
<1>5. ASSUME NEW b \in Bindings, Unbind(r, b)
      PROVE  Asked(r)
  BY <1>5 DEF Unbind
<1>6. QED
  BY <1>1, <1>2, <1>3, <1>4, <1>5 DEF Request

\* No job state is written, though states may go with their record.
JobsKept ==
  \A id \in Ids, t \in Tokens :
    jobs'[id][t] = jobs[id][t] \/ (store = "crd" /\ jobs'[id][t] = "none" /\ id \notin objects')

\* The store keeps its types and its kind.
Stored == StoreTypeOK' /\ store' = store

\* Callers may become stale over CRDs only.
StaleMoves ==
  /\ stale' \subseteq Tokens \X {"handler", "job"}
  /\ store = "etcd" => stale' \subseteq stale

\* A step that writes nothing.
LEMMA Untouched ==
  ASSUME TypeOK
  PROVE  /\ UNCHANGED storeVars => Stored /\ JobsKept /\ objects' = objects
         /\ UNCHANGED stale => StaleMoves
BY DEF TypeOK, StoreTypeOK, storeVars, Stored, JobsKept, StaleMoves

\* A write or a refusal.
LEMMA StaleMoved ==
  ASSUME TypeOK, NEW a, NEW id, NEW lock, Touches(a, id, lock) \/ Leaves(a)
  PROVE  StaleMoves
BY DEF TypeOK, Touches, Leaves, Conflicts, StaleMoves, StoreTypeOK

\* What a request says and a handler or the subscriber holds.
LEMMA Contents ==
  ASSUME TypeOK, NEW r \in Tokens
  PROVE  /\ Target(r) \in Ids /\ Op(r) \in Methods \union {"none"}
         /\ req[r].params \in Params \union {NoParams}
         /\ held[r] \in HeldCopies /\ read[r] \in Copies
         /\ held[r].listed \subseteq Bindings /\ held[r].marked \subseteq Bindings
         /\ held[r].params \in Params \union {NoParams}
         /\ read[r].listed \subseteq Bindings /\ read[r].marked \subseteq Bindings
         /\ read[r].params \in Params \union {NoParams}
         /\ GetServiceInstance \in Copies
         /\ Hold(GetServiceInstance, FALSE) \in HeldCopies
<1>1. /\ req[r] \in Requests /\ held[r] \in HeldCopies /\ read[r] \in Copies
  BY DEF TypeOK
<1>2. /\ Target(r) \in Ids /\ Op(r) \in Methods \union {"none"}
      /\ req[r].params \in Params \union {NoParams}
  BY <1>1 DEF Requests, Target, Op
<1>3. GetServiceInstance \in Copies
  BY DEF GetServiceInstance, Copies, TypeOK, StoreTypeOK, Ids
<1>4. Hold(GetServiceInstance, FALSE) \in HeldCopies
  BY <1>3 DEF Hold, HeldCopies, Copies
<1>5. QED
  BY <1>1, <1>2, <1>3, <1>4 DEF HeldCopies, Copies

-----------------------------------------------------------------------------
(* The steps of a handler.                                                 *)

\* A handler comes to another call, or answers.
PcMoves(r) ==
  \E call \in HandlerPC \ {"idle", "restart"} :
    /\ pc' = [pc EXCEPT ![r] = call]
    /\ call \in Unstarted => pc[r] \in Unstarted
    /\ call = "drop" => Op(r) = "unbind" /\ ~launch

AnswerMoves(r) ==
  \/ UNCHANGED answer
  \/ \E code \in Codes, t \in Tokens \union {NoToken} :
       answer' = [answer EXCEPT ![r] = [code |-> code, operation |-> t]]

HeldMoves(r) == UNCHANGED held \/ \E copy \in HeldCopies : held' = [held EXCEPT ![r] = copy]

HandlerMoves(r) ==
  /\ UNCHANGED <<req, outcome, read, processVars>>
  /\ pc[r] \notin {"idle", "done", "restart"}
  /\ PcMoves(r) /\ AnswerMoves(r) /\ HeldMoves(r)
  /\ Stored /\ StaleMoves
  /\ \A id \in objects \ objects' : pc[r] = "drop" /\ id = Target(r)

\* An answer, or the next call.
LEMMA AnswersMove ==
  ASSUME NEW r \in Tokens, NEW code \in Codes, NEW t \in Tokens \union {NoToken},
         AnswersFor(r, code, t) \/ Answers(r, code)
  PROVE  PcMoves(r) /\ AnswerMoves(r)
<1>1. NoToken \in Tokens \union {NoToken}
  OBVIOUS
<1>2. QED
  BY <1>1 DEF AnswersFor, Answers, PcMoves, AnswerMoves, HandlerPC, Unstarted

\* The next call only.
LEMMA GoesMoves ==
  ASSUME NEW r \in Tokens, NEW call \in HandlerPC \ {"idle", "restart"}, Goes(r, call),
         call \in Unstarted => pc[r] \in Unstarted,
         call = "drop" => Op(r) = "unbind" /\ ~launch
  PROVE  PcMoves(r) /\ AnswerMoves(r)
BY DEF Goes, PcMoves, AnswerMoves

\* The handler reads.
LEMMA ReadingMoves ==
  ASSUME TypeOK, NEW r \in Tokens, Fits(r),
         \/ CheckProvision(r) \/ CheckUpdate(r) \/ CheckDeprovision(r) \/ FindBind(r)
         \/ FindUnbind(r) \/ CheckUnbind(r) \/ RereadUnbind(r) \/ JobReturned(r)
  PROVE  HandlerMoves(r) /\ JobsKept /\ UNCHANGED <<run, note>>
<1> USE Untouched, Contents DEF HandlerMoves, HandlerPC, Unstarted, Codes, At
<1>0. UNCHANGED held => HeldMoves(r)
  BY DEF HeldMoves
<1>1. ASSUME AnswersInProgress(r)
      PROVE  PcMoves(r) /\ AnswerMoves(r)
  <2>1. PICK t \in JobsInProgress(Target(r), Op(r)) : AnswersFor(r, "in progress", t)
    BY <1>1 DEF AnswersInProgress
  <2>2. t \in Tokens
    BY DEF JobsInProgress, JobsByState, Crd!JobsByState, Etcd!JobsByState
  <2>3. QED
    BY <2>1, <2>2, AnswersMove
<1>2. CASE CheckProvision(r)
  <2>1. PcMoves(r) /\ AnswerMoves(r)
    BY <1>1, <1>2, AnswersMove DEF CheckProvision
  <2>2. QED
    BY <1>0, <1>2, <2>1 DEF CheckProvision, Reading, requestVars, jobVars
<1>3. CASE CheckUpdate(r)
  <2>1. PcMoves(r) /\ AnswerMoves(r)
    BY <1>1, <1>3, AnswersMove, GoesMoves DEF CheckUpdate
  <2>2. QED
    BY <1>0, <1>3, <2>1 DEF CheckUpdate, Reading, requestVars, jobVars
<1>4. CASE CheckDeprovision(r)
  <2>1. PcMoves(r) /\ AnswerMoves(r)
    BY <1>1, <1>4, AnswersMove, GoesMoves DEF CheckDeprovision
  <2>2. QED
    BY <1>0, <1>4, <2>1 DEF CheckDeprovision, Reading, requestVars, jobVars
<1>5. CASE FindBind(r)
  <2>1. keys[Target(r)] \in Tokens \union {NoToken}
    BY <1>5 DEF FindBind, Fits, BindMethods, TypeOK, StoreTypeOK
  <2>2. PcMoves(r) /\ AnswerMoves(r)
    BY <1>5, <2>1, AnswersMove, GoesMoves DEF FindBind
  <2>3. HeldMoves(r)
    <3>1. PICK creds \in BOOLEAN : held' = [held EXCEPT ![r].creds = creds]
      <4>1. (Instance \in secrets) \in BOOLEAN
        OBVIOUS
      <4>2. held' = [held EXCEPT ![r].creds = (Instance \in secrets)]
        BY <1>5 DEF FindBind
      <4>3. QED
        BY <4>1, <4>2, Zenon
    <3>2. [held[r] EXCEPT !.creds = creds] \in HeldCopies
      BY DEF HeldCopies
    <3>3. held' = [held EXCEPT ![r] = [held[r] EXCEPT !.creds = creds]]
      BY <3>1, Zenon
    <3>4. QED
      BY <3>2, <3>3, Zenon DEF HeldMoves
  <2>4. QED
    BY <1>5, <2>2, <2>3 DEF FindBind, jobVars
<1>6. CASE FindUnbind(r)
  <2>1. PcMoves(r) /\ AnswerMoves(r)
    BY <1>6, AnswersMove, GoesMoves DEF FindUnbind
  <2>2. QED
    BY <1>0, <1>6, <2>1 DEF FindUnbind, Reading, requestVars, jobVars
<1>7. CASE CheckUnbind(r)
  <2>1. PcMoves(r) /\ AnswerMoves(r)
    BY <1>1, <1>7, AnswersMove, GoesMoves DEF CheckUnbind
  <2>2. QED
    BY <1>0, <1>7, <2>1 DEF CheckUnbind, Reading, requestVars, jobVars
<1>8. CASE RereadUnbind(r)
  <2>1. PcMoves(r) /\ AnswerMoves(r)
    BY <1>8, AnswersMove, GoesMoves DEF RereadUnbind
  <2>2. HeldMoves(r)
    BY <1>0, <1>8 DEF RereadUnbind, HoldsInstance, HeldMoves
  <2>3. QED
    BY <1>8, <2>1, <2>2 DEF RereadUnbind, jobVars
<1>9. CASE JobReturned(r)
  <2>1. PcMoves(r) /\ AnswerMoves(r)
    BY <1>9, AnswersMove, GoesMoves DEF JobReturned
  <2>2. QED
    BY <1>0, <1>9, <2>1 DEF JobReturned, Reading, requestVars, jobVars
<1>10. QED
  BY <1>2, <1>3, <1>4, <1>5, <1>6, <1>7, <1>8, <1>9

\* The handler writes, other than the state of its job.
LEMMA WritingMoves ==
  ASSUME TypeOK, NEW r \in Tokens, Fits(r),
         \/ SaveInstance(r) \/ SaveBinding(r) \/ SaveKey(r) \/ DropProvisionSecret(r)
         \/ CopySecret(r) \/ ListBinding(r) \/ DropBinding(r) \/ UnlistBinding(r)
         \/ DropBindingSecret(r)
  PROVE  HandlerMoves(r) /\ JobsKept /\ UNCHANGED <<run, note>>
<1> USE Untouched, Contents
    DEF HandlerMoves, HandlerPC, Unstarted, Codes, At, HandlerWrites, requestVars, jobVars
<1>1. UNCHANGED held => HeldMoves(r)
  BY DEF HeldMoves
<1>2. StoreTypeOK
  BY DEF TypeOK
<1>3. ASSUME NEW copy, copy.listed \subseteq Bindings, copy.marked \subseteq Bindings,
             NEW p \in Params \union {NoParams}, SetServiceInstance(copy, p)
      PROVE  Stored /\ JobsKept /\ objects \subseteq objects'
  BY <1>2, <1>3, InstanceWritten DEF Stored, JobsKept
<1>4. ASSUME NEW id \in Ids, DeleteObject(id)
      PROVE  Stored /\ JobsKept /\ \A i \in objects \ objects' : i = id
  BY <1>2, <1>4, ObjectDeleted DEF Stored, JobsKept, StoreTypeOK
<1>5. ASSUME NEW id \in Ids, CreateSecret(id) \/ DeleteSecret(id)
      PROVE  Stored /\ JobsKept /\ objects' = objects
  BY <1>2, <1>5, SecretWritten DEF Stored, JobsKept
<1>6. ASSUME NEW code \in Codes, Refused(r, code)
      PROVE  /\ Stored /\ JobsKept /\ objects' = objects
             /\ StaleMoves /\ PcMoves(r) /\ AnswerMoves(r)
  BY <1>6, AnswersMove, StaleMoved DEF Refused
<1>7. Target(r) \in Ids /\ Instance \in Ids
  BY DEF Ids
<1>8. CASE SaveInstance(r)
  <2>1. CASE Refused(r, "error")
    BY <1>8, <2>1, <1>1, <1>6 DEF SaveInstance
  <2>2. CASE /\ SetServiceInstance(held[r], req[r].params)
             /\ Touches(Handler(r), Instance, "instanceLock")
             /\ Goes(r, "setup")
    <3>1. PcMoves(r) /\ AnswerMoves(r)
      BY <1>8, <2>2, GoesMoves DEF SaveInstance
    <3>2. Stored /\ JobsKept /\ objects \subseteq objects'
      BY <2>2, <1>3
    <3>3. QED
      BY <1>8, <2>2, <3>1, <3>2, <1>1, StaleMoved DEF SaveInstance
  <2>3. QED
    BY <1>8, <2>1, <2>2 DEF SaveInstance
<1>9. ASSUME NEW key \in Tokens \union {NoToken}, NEW ACTION goesOn,
             Target(r) \in Bindings, StoresBinding(r, key, goesOn)
      PROVE  /\ Stored /\ JobsKept /\ objects \subseteq objects' /\ StaleMoves
             /\ goesOn \/ Answers(r, "error")
  <2>1. CASE SetBindInstance(Target(r), req[r].params, key)
    <3>1. Stored /\ JobsKept /\ objects \subseteq objects'
      BY <1>2, <1>7, <2>1, BindingWritten DEF Stored, JobsKept
    <3>2. QED
      BY <1>9, <3>1, StaleMoved DEF StoresBinding
  <2>2. CASE UNCHANGED storeVars
    BY <1>9, <2>2, StaleMoved DEF StoresBinding
  <2>3. QED
    BY <1>9, <2>1, <2>2 DEF StoresBinding
<1>10. Op(r) \in {"bind", "unbind"} => Target(r) \in Bindings
  BY DEF Fits, BindMethods
<1>11. CASE SaveBinding(r)
  <2> DEFINE goesOn == Goes(r, IF launch THEN "setup" ELSE "secret")
  <2>1. StoresBinding(r, NoToken, goesOn)
    BY <1>11 DEF SaveBinding
  <2>2. /\ Stored /\ JobsKept /\ objects \subseteq objects' /\ StaleMoves
        /\ goesOn \/ Answers(r, "error")
    BY <1>9, <1>10, <1>11, <2>1 DEF SaveBinding
  <2>3. PcMoves(r) /\ AnswerMoves(r)
    BY <1>11, <2>2, AnswersMove, GoesMoves DEF SaveBinding
  <2>4. QED
    BY <1>1, <1>11, <2>2, <2>3 DEF SaveBinding
<1>12. CASE SaveKey(r)
  <2> DEFINE goesOn == AnswersFor(r, "accepted", r)
  <2>1. StoresBinding(r, r, goesOn)
    BY <1>12 DEF SaveKey
  <2>2. /\ Stored /\ JobsKept /\ objects \subseteq objects' /\ StaleMoves
        /\ goesOn \/ Answers(r, "error")
    BY <1>9, <1>10, <1>12, <2>1 DEF SaveKey
  <2>3. PcMoves(r) /\ AnswerMoves(r)
    BY <2>2, AnswersMove
  <2>4. QED
    BY <1>1, <1>12, <2>2, <2>3 DEF SaveKey
<1>13. CASE DropProvisionSecret(r)
  <2>1. PcMoves(r) /\ AnswerMoves(r)
    BY <1>13, AnswersMove DEF DropProvisionSecret
  <2>2. QED
    BY <1>1, <1>5, <1>7, <1>13, <2>1 DEF DropProvisionSecret
<1>14. CASE CopySecret(r)
  <2>1. PcMoves(r) /\ AnswerMoves(r)
    BY <1>14, AnswersMove, GoesMoves DEF CopySecret
  <2>2. QED
    BY <1>1, <1>5, <1>7, <1>14, <2>1 DEF CopySecret
<1>15. CASE ListBinding(r)
  <2>1. CASE Refused(r, "error")
    BY <1>15, <2>1, <1>1, <1>6 DEF ListBinding
  <2>2. CASE /\ SetServiceInstance(AddBinding(held[r], Target(r)), held[r].params)
             /\ Touches(Handler(r), Instance, "instanceLock")
             /\ Answers(r, IF held[r].creds THEN "done" ELSE "error")
    <3>1. PcMoves(r) /\ AnswerMoves(r)
      BY <2>2, AnswersMove
    <3>2. Stored /\ JobsKept /\ objects \subseteq objects'
      BY <1>3, <1>10, <1>15, <2>2, CopiesChanged DEF ListBinding
    <3>3. QED
      BY <1>1, <1>15, <2>2, <3>1, <3>2, StaleMoved DEF ListBinding
  <2>3. QED
    BY <1>15, <2>1, <2>2 DEF ListBinding
<1>16. CASE DropBinding(r)
  <2>1. PcMoves(r) /\ AnswerMoves(r)
    BY <1>16, AnswersMove, GoesMoves DEF DropBinding
  <2>2. QED
    BY <1>1, <1>4, <1>7, <1>16, <2>1, StaleMoved DEF DropBinding
<1>17. CASE UnlistBinding(r)
  <2>1. CASE Refused(r, "error")
    BY <1>17, <2>1, <1>1, <1>6 DEF UnlistBinding
  <2>2. CASE /\ SetServiceInstance(RemoveBinding(held[r], Target(r)), held[r].params)
             /\ Touches(Handler(r), Instance, "instanceLock")
             /\ Goes(r, "secret")
    <3>1. PcMoves(r) /\ AnswerMoves(r)
      BY <2>2, GoesMoves
    <3>2. Stored /\ JobsKept /\ objects \subseteq objects'
      BY <1>3, <1>10, <1>17, <2>2, CopiesChanged DEF UnlistBinding
    <3>3. QED
      BY <1>1, <1>17, <2>2, <3>1, <3>2, StaleMoved DEF UnlistBinding
  <2>3. QED
    BY <1>17, <2>1, <2>2 DEF UnlistBinding
<1>18. CASE DropBindingSecret(r)
  <2>1. PcMoves(r) /\ AnswerMoves(r)
    BY <1>18, AnswersMove DEF DropBindingSecret
  <2>2. QED
    BY <1>1, <1>5, <1>7, <1>18, <2>1 DEF DropBindingSecret
<1>19. QED
  BY <1>8, <1>11, <1>12, <1>13, <1>14, <1>15, <1>16, <1>17, <1>18

\* The handler records its job and starts it, or cannot record it and gives up.
RecordsJob(r) ==
  /\ HandlerMoves(r) /\ pc[r] \in Unstarted /\ pc'[r] \notin Unstarted
  /\ \E how \in {"running", "skipping"} : run' = [run EXCEPT ![r] = how]
  /\ \E call \in {"progress", "final"} : note' = [note EXCEPT ![r] = call]
  /\ objects' = objects
  /\ StateWritten(Target(r), r, "not yet started")

\* SetupJob does one of the two.
LEMMA SetupMoves ==
  ASSUME TypeOK, NEW r \in Tokens, SetupJob(r)
  PROVE  \/ RecordsJob(r)
         \/ HandlerMoves(r) /\ JobsKept /\ UNCHANGED <<run, note>>
<1> USE Untouched, Contents DEF HandlerMoves, HandlerPC, Unstarted, Codes, At
<1>1. UNCHANGED held => HeldMoves(r)
  BY DEF HeldMoves
<1>2. CASE /\ pc[r] \in {"setup", "setup skipped"}
           /\ SetState(Target(r), r, "not yet started", Op(r))
           /\ Touches(Handler(r), Target(r), "bindingLock")
           /\ JobStarts(r, IF pc[r] = "setup" THEN "running" ELSE "skipping")
           /\ \/ AnswersFor(r, "accepted", r)
              \/ Goes(r, "key")
              \/ Goes(r, "wait")
           /\ UNCHANGED <<requestVars, processVars>>
  <2>1. PcMoves(r) /\ AnswerMoves(r)
    BY <1>2, AnswersMove, GoesMoves
  <2>2. pc'[r] \notin Unstarted
    BY <1>2 DEF AnswersFor, Goes, TypeOK
  <2>3. "not yet started" \in JobStates
    BY DEF JobStates
  <2>4. Stored /\ objects' = objects /\ StateWritten(Target(r), r, "not yet started")
    <3>1. /\ StoreTypeOK /\ Target(r) \in Ids /\ Op(r) \in Methods \union {"none"}
          /\ SetState(Target(r), r, "not yet started", Op(r))
      BY <1>2 DEF TypeOK
    <3>2. QED
      BY ONLY <2>3, <3>1, r \in Tokens, StateRecorded DEF Stored
  <2>5. /\ \E how \in {"running", "skipping"} : run' = [run EXCEPT ![r] = how]
        /\ \E call \in {"progress", "final"} : note' = [note EXCEPT ![r] = call]
        /\ UNCHANGED <<outcome, read>>
    BY <1>2 DEF JobStarts, Notes, TypeOK
  <2>6. HandlerMoves(r)
    BY <1>1, <1>2, <2>1, <2>4, <2>5, StaleMoved DEF requestVars
  <2>7. QED
    BY <1>2, <2>2, <2>4, <2>5, <2>6 DEF RecordsJob
<1>3. CASE /\ pc[r] \in {"setup", "setup skipped"}
           /\ Leaves(Handler(r))
           /\ Answers(r, "error")
           /\ UNCHANGED storeVars
           /\ HandlerWrites(r)
  <2>1. PcMoves(r) /\ AnswerMoves(r)
    BY <1>3, AnswersMove
  <2>2. QED
    BY <1>1, <1>3, <2>1, StaleMoved DEF HandlerWrites, requestVars, jobVars
<1>4. QED
  BY <1>2, <1>3 DEF SetupJob

-----------------------------------------------------------------------------
(* A step of one thread and the invariant.                                 *)

\* Job r and its handler act: the states of other jobs may go, but only with
\* the record that holds them.
Apart(r) ==
  /\ UNCHANGED <<launch, store>>
  /\ pending' \subseteq pending
  /\ phase' = "down" => phase = "down"
  /\ \A t \in Tokens \ {r} :
       /\ req'[t] = req[t] /\ pc'[t] = pc[t] /\ run'[t] = run[t]
       /\ note'[t] = note[t] /\ outcome'[t] = outcome[t]
       /\ \A id \in Ids :
            \/ jobs'[id][t] = jobs[id][t]
            \/ store = "crd" /\ jobs'[id][t] = "none" /\ id \notin objects'

\* Whatever one thread does the invariant of every other job survives.
LEMMA OthersKept ==
  ASSUME IInv, NEW r \in Tokens, Apart(r), NEW t \in Tokens \ {r}
  PROVE  JobInv(t)'
<1> USE DEF Apart, Target, Op
<1>1. JobInv(t) /\ store \in {"crd", "etcd"} /\ Target(t) \in Ids
  BY Contents DEF IInv, TypeOK, StoreTypeOK
<1>2. Fits(t)'
  BY <1>1 DEF JobInv, Fits
<1>3. Started(t)'
  BY <1>1 DEF JobInv, Started
<1>4. Recorded(t)'
  BY <1>1 DEF JobInv, Recorded, Final
<1>5. Truthful(t)'
  <2>1. FinalState(t)' = FinalState(t)
    BY DEF FinalState
  <2>2. QED
    BY <1>1, <2>1 DEF JobInv, Truthful
<1>6. Recoverable(t)'
  BY <1>1 DEF JobInv, Recoverable, Final
<1>7. QED
  BY <1>2, <1>3, <1>4, <1>5, <1>6 DEF JobInv

\* RecordedJobsKept, of one step.
JobsStep ==
  \A id \in objects \intersect objects', t \in Tokens :
    /\ jobs[id][t] # "none" => jobs'[id][t] # "none"
    /\ jobs[id][t] \in Final => jobs'[id][t] \in Final

\* UndoneBeforeForgotten, of one step.
ForgetsStep ==
  \A id \in objects \ objects' : \E t \in Tokens :
    /\ Target(t) = id
    /\ \/ Op(t) = "deprovision" /\ outcome[t] = "succeeded"
       \/ /\ Op(t) = "unbind"
          /\ ~launch \/ outcome[t] \in {"succeeded", "action not found"}

\* What is left to show of a step of job r or its handler.
LEMMA OneActs ==
  ASSUME IInv, NEW r \in Tokens, Apart(r), TypeOK', StaleMoves, JobInv(r)',
         \A id \in objects \intersect objects' :
           /\ jobs[id][r] # "none" => jobs'[id][r] # "none"
           /\ jobs[id][r] \in Final => jobs'[id][r] \in Final
  PROVE  IInv' /\ JobsStep
<1>1. \A t \in Tokens : JobInv(t)'
  <2>1. SUFFICES ASSUME NEW t \in Tokens PROVE JobInv(t)'
    OBVIOUS
  <2>2. CASE t = r
    BY <2>2
  <2>3. CASE t # r
    BY <2>3, OthersKept
  <2>4. QED
    BY <2>2, <2>3
<1>2. NothingStale'
  BY DEF IInv, NothingStale, StaleMoves, Apart
<1>3. JobsStep
  BY DEF JobsStep, Apart, IInv, TypeOK, StoreTypeOK, Ids
<1>4. QED
  BY <1>1, <1>2, <1>3 DEF IInv

\* The types after a step of a handler.
LEMMA HandlerTypes ==
  ASSUME TypeOK, NEW r \in Tokens, HandlerMoves(r),
         run' \in [Tokens -> {"none", "running", "skipping", "returned"}],
         note' \in [Tokens -> NotePC]
  PROVE  TypeOK'
<1> USE DEF TypeOK, HandlerMoves
<1>1. pc' \in [Tokens -> HandlerPC]
  BY DEF PcMoves
<1>2. answer' \in [Tokens -> [code : Codes, operation : Tokens \union {NoToken}]]
  BY DEF AnswerMoves
<1>3. held' \in [Tokens -> HeldCopies]
  BY DEF HeldMoves
<1>4. UNCHANGED <<req, outcome, read, launch, phase, pending, crashes>>
  BY DEF processVars
<1>5. QED
  BY <1>1, <1>2, <1>3, <1>4, Zenon DEF Stored, StaleMoves

\* A handler's step that starts no job.
LEMMA HandlerKeeps ==
  ASSUME IInv, NEW r \in Tokens, HandlerMoves(r), JobsKept, UNCHANGED <<run, note>>
  PROVE  IInv' /\ JobsStep
<1> USE DEF HandlerMoves, processVars
<1>1. TypeOK /\ JobInv(r)
  BY DEF IInv
<1>2. TypeOK'
  BY <1>1, HandlerTypes DEF TypeOK
<1>3. Apart(r)
  <2>1. \A t \in Tokens \ {r} : pc'[t] = pc[t]
    BY <1>1 DEF PcMoves, TypeOK
  <2>2. QED
    BY <1>1, <2>1 DEF Apart, JobsKept, Stored, TypeOK
<1>4. PICK call \in HandlerPC \ {"idle", "restart"} :
        /\ pc'[r] = call
        /\ call \in Unstarted => pc[r] \in Unstarted
        /\ call = "drop" => Op(r) = "unbind" /\ ~launch
  BY <1>1 DEF PcMoves, TypeOK
<1>5. /\ Target(r)' = Target(r) /\ Op(r)' = Op(r) /\ FinalState(r)' = FinalState(r)
      /\ Target(r) \in Ids
  BY <1>1, Contents DEF Target, Op, FinalState
<1>6. \A id \in Ids : jobs'[id][r] = jobs[id][r] \/ (store = "crd" /\ jobs'[id][r] = "none")
  BY DEF JobsKept
<1>7. JobInv(r)'
  <2>1. Fits(r)'
    BY <1>1, <1>4, <1>5 DEF JobInv, Fits
  <2>2. Started(r)'
    BY <1>1, <1>4, <1>6 DEF JobInv, Started
  <2>3. Recorded(r)'
    BY <1>1, <1>5, <1>6 DEF JobInv, Recorded, Final, Stored
  <2>4. Truthful(r)'
    BY <1>1, <1>5, <1>6 DEF JobInv, Truthful
  <2>5. Recoverable(r)'
    BY <1>1, <1>4, <1>5, <1>6 DEF JobInv, Recoverable
  <2>6. QED
    BY <2>1, <2>2, <2>3, <2>4, <2>5 DEF JobInv
<1>8. \A id \in objects \intersect objects' : jobs'[id][r] = jobs[id][r]
  BY <1>1 DEF JobsKept, TypeOK, StoreTypeOK
<1>9. QED
  BY <1>2, <1>3, <1>7, <1>8, OneActs

\* A handler's step that starts its job.
LEMMA SetupKeeps ==
  ASSUME IInv, NEW r \in Tokens, RecordsJob(r)
  PROVE  IInv' /\ JobsStep
<1> USE DEF RecordsJob, HandlerMoves, processVars
<1>1. TypeOK /\ JobInv(r)
  BY DEF IInv
<1>2. /\ Target(r)' = Target(r) /\ Op(r)' = Op(r) /\ FinalState(r)' = FinalState(r)
      /\ Target(r) \in Ids
  BY <1>1, Contents DEF Target, Op, FinalState
<1>3. PICK how \in {"running", "skipping"}, next \in {"progress", "final"} :
        run' = [run EXCEPT ![r] = how] /\ note' = [note EXCEPT ![r] = next]
  OBVIOUS
<1>4. TypeOK' /\ Apart(r)
  <2>1. /\ run' \in [Tokens -> {"none", "running", "skipping", "returned"}]
        /\ note' \in [Tokens -> NotePC]
    BY <1>1, <1>3 DEF TypeOK, NotePC
  <2>2. TypeOK'
    BY <1>1, <2>1, HandlerTypes
  <2>3. \A t \in Tokens \ {r} : pc'[t] = pc[t]
    BY <1>1 DEF PcMoves, TypeOK
  <2>4. \A t \in Tokens \ {r} : run'[t] = run[t] /\ note'[t] = note[t]
    BY <1>1, <1>3 DEF TypeOK
  <2>5. \A t \in Tokens \ {r}, id \in Ids : jobs'[id][t] = jobs[id][t]
    BY DEF StateWritten
  <2>6. QED
    BY <1>1, <2>2, <2>3, <2>4, <2>5 DEF Apart, Stored, TypeOK
<1>5. \A id \in Ids : jobs[id][r] = "none"
  BY <1>1 DEF JobInv, Started
<1>6. /\ jobs'[Target(r)][r] = "not yet started"
      /\ \A id \in Ids \ {Target(r)} : jobs'[id][r] = "none"
  BY <1>5 DEF StateWritten
<1>7. JobInv(r)'
  <2>1. run'[r] \in {"running", "skipping"} /\ note'[r] \in {"progress", "final"}
    BY <1>1, <1>3 DEF TypeOK
  <2>2. PICK call \in HandlerPC \ {"idle", "restart"} :
          /\ pc'[r] = call
          /\ call = "drop" => Op(r) = "unbind" /\ ~launch
    BY <1>1 DEF PcMoves, TypeOK
  <2>3. Fits(r)'
    BY <1>1, <1>2, <2>1, <2>2 DEF JobInv, Fits
  <2>4. Started(r)'
    BY <2>1 DEF Started
  <2>5. Recorded(r)'
    BY <1>2, <1>6, <2>1 DEF Recorded, Final, Unended
  <2>6. Truthful(r)'
    BY <1>2, <1>6, <2>1 DEF Truthful
  <2>7. Recoverable(r)'
    BY <1>1, <2>2 DEF JobInv, Recoverable, Unstarted
  <2>8. QED
    BY <2>3, <2>4, <2>5, <2>6, <2>7 DEF JobInv
<1>8. QED
  BY <1>1, <1>4, <1>5, <1>7, OneActs DEF Final, TypeOK, StoreTypeOK

-----------------------------------------------------------------------------
(* The steps of a runner and of the subscriber.                            *)

\* A job that runs is on its way: nothing of it is recorded as final, nobody
\* recovers it, and its handler has got past recording it.
LEMMA Underway ==
  ASSUME IInv, NEW r \in Tokens, run[r] # "none"
  PROVE  /\ TypeOK /\ JobInv(r)
         /\ Target(r) \in Ids /\ store \in {"crd", "etcd"}
         /\ r \notin pending /\ pc[r] # "restart" /\ phase # "down"
         /\ pc[r] \notin Unstarted /\ note[r] # "none"
         /\ run[r] \in {"running", "skipping"} => note[r] \in {"progress", "final"}
BY Contents DEF IInv, TypeOK, StoreTypeOK, JobInv, Started, Recoverable

\* The runner of job r returns.
LEMMA RunnerKeeps ==
  ASSUME IInv, NEW r \in Tokens, RunnerStep(r)
  PROVE  IInv' /\ JobsStep /\ objects' = objects
<1> USE DEF RunnerSteps, requestVars, processVars
<1>1. /\ run[r] \in {"running", "skipping"} /\ UNCHANGED stale /\ RunnerSteps(r)
      /\ \E o \in {"failed", "action not found", "succeeded"} : Returns(r, o)
      /\ UNCHANGED storeVars \/ CreateSecret(Target(r)) \/ DeleteSecret(Target(r))
  BY DEF RunnerStep, RunnerEnds, RunnerSkips
<1>2. /\ TypeOK /\ JobInv(r) /\ Target(r) \in Ids
      /\ r \notin pending /\ pc[r] # "restart" /\ phase # "down"
      /\ pc[r] \notin Unstarted /\ note[r] \in {"progress", "final"}
  BY <1>1, Underway
<1>3. PICK o \in {"failed", "action not found", "succeeded"} : Returns(r, o)
  BY <1>1
<1>4. Stored /\ jobs' = jobs /\ objects' = objects
  <2>1. CASE UNCHANGED storeVars
    BY <1>2, <2>1, Untouched DEF storeVars
  <2>2. CASE CreateSecret(Target(r)) \/ DeleteSecret(Target(r))
    <3>1. StoreTypeOK
      BY <1>2 DEF TypeOK
    <3>2. QED
      BY <1>2, <2>2, <3>1, SecretWritten DEF Stored
  <2>3. QED
    BY <1>1, <2>1, <2>2
<1>5. TypeOK'
  <2>1. /\ run' \in [Tokens -> {"none", "running", "skipping", "returned"}]
        /\ outcome' \in [Tokens -> Outcomes]
    BY <1>2, <1>3 DEF Returns, TypeOK, Outcomes
  <2>2. UNCHANGED <<req, held, pc, answer, note, read, stale, launch, phase, pending, crashes>>
    BY <1>1
  <2>3. QED
    BY <1>2, <1>4, <2>1, <2>2, Zenon DEF TypeOK, Stored
<1>6. Apart(r)
  <2>1. \A t \in Tokens \ {r} : run'[t] = run[t] /\ outcome'[t] = outcome[t]
    BY <1>2, <1>3 DEF Returns, TypeOK
  <2>2. QED
    BY <1>1, <1>2, <1>4, <2>1 DEF Apart, Stored, TypeOK
<1>7. JobInv(r)'
  <2>1. Target(r)' = Target(r) /\ Op(r)' = Op(r) /\ run'[r] = "returned"
    BY <1>1, <1>2, <1>3 DEF Target, Op, Returns, TypeOK
  <2>2. Fits(r)'
    BY <1>1, <1>2, <2>1 DEF JobInv, Fits
  <2>3. Started(r)'
    BY <1>1, <1>2, <2>1 DEF Started
  <2>4. Recorded(r)'
    BY <1>1, <1>2, <1>4, <2>1 DEF JobInv, Recorded, Stored
  <2>5. Truthful(r)'
    BY <1>1, <1>2, <1>4, <2>1 DEF JobInv, Recorded, Truthful, Final
  <2>6. Recoverable(r)'
    BY <1>1, <1>2 DEF Recoverable
  <2>7. QED
    BY <2>2, <2>3, <2>4, <2>5, <2>6 DEF JobInv
<1>8. StaleMoves
  BY <1>1, <1>2, Untouched
<1>9. QED
  BY <1>4, <1>5, <1>6, <1>7, <1>8, OneActs

\* The subscriber comes to another call for job r.
SubscriberMoves(r, call) ==
  /\ SubscriberSteps(r) /\ Notes(r, call)
  /\ note[r] \notin {"none", "done"}
  /\ UNCHANGED read \/ \E copy \in Copies : read' = [read EXCEPT ![r] = copy]
  /\ Stored /\ StaleMoves
  /\ \A id \in objects \ objects' : note[r] \in {"delete", "drop"} /\ id = Target(r)

\* No state of another job is written.
OthersJobsKept(r) ==
  \A id \in Ids, t \in Tokens \ {r} :
    \/ jobs'[id][t] = jobs[id][t]
    \/ store = "crd" /\ jobs'[id][t] = "none" /\ id \notin objects'

\* What is left to show of a step of the subscriber.
LEMMA SubscriberKeeps ==
  ASSUME IInv, NEW r \in Tokens, NEW call \in NotePC \ {"none"},
         SubscriberMoves(r, call), OthersJobsKept(r),
         call = "final" \/ run[r] = "returned",
         Fits(r)', Recorded(r)', Truthful(r)',
         \A id \in objects \intersect objects' :
           /\ jobs[id][r] # "none" => jobs'[id][r] # "none"
           /\ jobs[id][r] \in Final => jobs'[id][r] \in Final
  PROVE  IInv' /\ JobsStep
<1> USE DEF SubscriberMoves, SubscriberSteps, requestVars, processVars
<1>1. TypeOK /\ run[r] # "none"
  BY DEF IInv, JobInv, Started
<1>2. /\ r \notin pending /\ pc[r] # "restart" /\ phase # "down"
      /\ pc[r] \notin Unstarted
  BY <1>1, Underway
<1>3. TypeOK'
  <2>1. note' \in [Tokens -> NotePC] /\ read' \in [Tokens -> Copies]
    BY <1>1 DEF Notes, TypeOK
  <2>2. QED
    BY <1>1, <2>1, Zenon DEF TypeOK, Stored, StaleMoves
<1>4. note'[r] = call /\ \A t \in Tokens \ {r} : note'[t] = note[t]
  BY <1>1 DEF Notes, TypeOK
<1>5. Apart(r)
  BY <1>1, <1>4 DEF Apart, OthersJobsKept, Stored
<1>6. Started(r)'
  BY <1>1, <1>2, <1>4 DEF Started
<1>7. Recoverable(r)'
  BY <1>2 DEF Recoverable
<1>8. QED
  BY <1>3, <1>5, <1>6, <1>7, OneActs DEF JobInv

\* A call of a cleanup, or of storing the dashboard URL.
CleansUp(r) ==
  \E call \in {"secret", "done", "failed", "binding", "drop", "unlist", "url"} :
    /\ SubscriberMoves(r, call) /\ JobsKept
    /\ note[r] \notin {"progress", "final"}
    /\ call = "secret" => note[r] = "delete"
    /\ call \in {"binding", "drop", "unlist"} => note[r] \in {"instance", "binding", "drop"}

\* The subscriber cleans up, but for recording that a cleanup has failed.
LEMMA CleanupMoves ==
  ASSUME TypeOK, NEW r \in Tokens, Fits(r),
         \/ DeleteInstance(r) \/ DeleteInstanceSecret(r) \/ ReadInstance(r)
         \/ ReadBinding(r) \/ DeleteBinding(r) \/ UnlistAfterUnbind(r)
         \/ ReadForDashboard(r) \/ SaveDashboard(r)
  PROVE  CleansUp(r)
<1> USE Untouched, Contents DEF CleansUp, SubscriberMoves
<1>1. StoreTypeOK /\ Instance \in Ids /\ Target(r) \in Ids
  BY DEF TypeOK, Ids
<1>2. ASSUME NEW copy, copy.listed \subseteq Bindings, copy.marked \subseteq Bindings,
             NEW p \in Params \union {NoParams}, SetServiceInstance(copy, p)
      PROVE  Stored /\ JobsKept /\ objects \subseteq objects'
  BY <1>1, <1>2, InstanceWritten DEF Stored, JobsKept
<1>3. ASSUME NEW id \in Ids, DeleteObject(id)
      PROVE  Stored /\ JobsKept /\ \A i \in objects \ objects' : i = id
  BY <1>1, <1>3, ObjectDeleted DEF Stored, JobsKept, StoreTypeOK
<1>4. CASE DeleteInstance(r)
  <2>1. Target(r) = Instance
    BY <1>4 DEF DeleteInstance, Fits, BindMethods
  <2>2. CASE DeleteObject(Instance) /\ Touches(Job(r), Instance, "none") /\ Notes(r, "secret")
    BY <1>1, <1>3, <1>4, <2>1, <2>2, StaleMoved DEF DeleteInstance
  <2>3. CASE Notes(r, "failed") /\ UNCHANGED <<storeVars, stale>>
    BY <1>4, <2>3 DEF DeleteInstance
  <2>4. QED
    BY <1>4, <2>2, <2>3 DEF DeleteInstance
<1>5. CASE DeleteInstanceSecret(r)
  <2>1. Stored /\ JobsKept /\ objects' = objects
    BY <1>1, <1>5, SecretWritten DEF DeleteInstanceSecret, Stored, JobsKept
  <2>2. QED
    BY <1>5, <2>1 DEF DeleteInstanceSecret
<1>6. CASE ReadInstance(r)
  BY <1>6 DEF ReadInstance
<1>7. CASE ReadBinding(r)
  BY <1>7 DEF ReadBinding
<1>8. CASE DeleteBinding(r)
  <2>1. CASE DeleteObject(Target(r)) /\ Touches(Job(r), Target(r), "none") /\ Notes(r, "unlist")
    BY <1>1, <1>3, <1>8, <2>1, StaleMoved DEF DeleteBinding
  <2>2. CASE Notes(r, "failed") /\ UNCHANGED <<storeVars, stale>>
    BY <1>8, <2>2 DEF DeleteBinding
  <2>3. QED
    BY <1>8, <2>1, <2>2 DEF DeleteBinding
<1>9. CASE UnlistAfterUnbind(r)
  <2>1. CASE /\ SetServiceInstance(RemoveBinding(read[r], Target(r)), read[r].params)
             /\ Touches(Job(r), Instance, "instanceLock")
             /\ Notes(r, "done")
    <3>1. Target(r) \in Bindings
      BY <1>9 DEF UnlistAfterUnbind, Fits, BindMethods
    <3>2. Stored /\ JobsKept /\ objects \subseteq objects'
      BY <1>2, <2>1, <3>1, CopiesChanged
    <3>3. QED
      BY <1>9, <2>1, <3>2, StaleMoved DEF UnlistAfterUnbind
  <2>2. CASE NoteRefused(r) /\ Notes(r, "failed")
    BY <1>9, <2>2, StaleMoved DEF UnlistAfterUnbind, NoteRefused
  <2>3. QED
    BY <1>9, <2>1, <2>2 DEF UnlistAfterUnbind
<1>10. CASE ReadForDashboard(r)
  BY <1>10 DEF ReadForDashboard
<1>11. CASE SaveDashboard(r)
  <2>1. CASE SetServiceInstance(read[r], read[r].params) /\ Touches(Job(r), Instance, "instanceLock")
    <3>1. Stored /\ JobsKept /\ objects \subseteq objects'
      BY <1>2, <2>1
    <3>2. QED
      BY <1>11, <2>1, <3>1, StaleMoved DEF SaveDashboard
  <2>2. CASE NoteRefused(r)
    BY <1>11, <2>2, StaleMoved DEF SaveDashboard, NoteRefused
  <2>3. QED
    BY <1>11, <2>1, <2>2 DEF SaveDashboard
<1>12. QED
  BY <1>4, <1>5, <1>6, <1>7, <1>8, <1>9, <1>10, <1>11

\* A cleanup and the invariant.
LEMMA CleanupKeeps ==
  ASSUME IInv, NEW r \in Tokens, CleansUp(r)
  PROVE  IInv' /\ JobsStep
<1> USE DEF SubscriberMoves, SubscriberSteps, requestVars
<1>1. PICK call \in {"secret", "done", "failed", "binding", "drop", "unlist", "url"} :
        /\ SubscriberMoves(r, call) /\ JobsKept
        /\ note[r] \notin {"progress", "final"}
        /\ call = "secret" => note[r] = "delete"
        /\ call \in {"binding", "drop", "unlist"} => note[r] \in {"instance", "binding", "drop"}
  BY DEF CleansUp
<1>2. run[r] # "none"
  BY <1>1 DEF IInv, JobInv, Started
<1>3. TypeOK /\ JobInv(r) /\ Target(r) \in Ids /\ run[r] = "returned"
  BY <1>1, <1>2, Underway DEF TypeOK
<1>4. /\ Target(r)' = Target(r) /\ Op(r)' = Op(r) /\ FinalState(r)' = FinalState(r)
      /\ note'[r] = call
  BY <1>1, <1>3 DEF Target, Op, FinalState, Notes, TypeOK
<1>5. \A id \in Ids : jobs'[id][r] = jobs[id][r] \/ (store = "crd" /\ jobs'[id][r] = "none")
  BY <1>1 DEF JobsKept
<1>6. Fits(r)'
  BY <1>1, <1>3, <1>4 DEF JobInv, Fits, processVars
<1>7. Recorded(r)'
  BY <1>1, <1>3, <1>4, <1>5 DEF JobInv, Recorded, Final, Stored, Unended
<1>8. Truthful(r)'
  BY <1>1, <1>3, <1>4, <1>5 DEF JobInv, Truthful
<1>9. \A id \in objects \intersect objects' : jobs'[id][r] = jobs[id][r]
  BY <1>1, <1>3 DEF JobsKept, TypeOK, StoreTypeOK
<1>10. OthersJobsKept(r) /\ call \in NotePC \ {"none"}
  BY <1>1 DEF JobsKept, OthersJobsKept, NotePC
<1>11. QED
  BY <1>1, <1>3, <1>6, <1>7, <1>8, <1>9, <1>10, SubscriberKeeps

\* The subscriber records a state, or finds that it cannot, and goes on.
LEMMA NotifyKeeps ==
  ASSUME IInv, NEW r \in Tokens,
         NotifyProgress(r) \/ NotifyFinal(r) \/ RecordCleanupFailure(r)
  PROVE  IInv' /\ JobsStep /\ objects' = objects
<1>1. run[r] # "none"
  BY DEF NotifyProgress, NotifyFinal, RecordCleanupFailure, IInv, JobInv, Started
<1>2. /\ TypeOK /\ JobInv(r) /\ Target(r) \in Ids /\ Instance \in Ids
      /\ store \in {"crd", "etcd"} /\ Op(r) \in Methods \union {"none"}
      /\ run[r] \in {"running", "skipping"} => note[r] \in {"progress", "final"}
  BY <1>1, Underway, Contents DEF Ids
<1>3. ASSUME SubscriberSteps(r), NEW call, Notes(r, call)
      PROVE  /\ Target(r)' = Target(r) /\ Op(r)' = Op(r) /\ FinalState(r)' = FinalState(r)
             /\ note'[r] = call /\ pc'[r] = pc[r] /\ launch' = launch
  BY <1>2, <1>3 DEF SubscriberSteps, requestVars, processVars, Target, Op, FinalState, Notes, TypeOK
<1>4. ASSUME NEW id \in Ids, NEW s \in JobStates, RecordsState(r, id, s)
      PROVE  /\ Stored /\ StaleMoves /\ OthersJobsKept(r) /\ objects' = objects
             /\ StateWritten(id, r, s)
  <2>1. StoreTypeOK
    BY <1>2 DEF TypeOK
  <2>2. SetState(id, r, s, Op(r)) /\ StaleMoves
    BY <1>2, <1>4, StaleMoved DEF RecordsState
  <2>3. Stored /\ objects' = objects /\ StateWritten(id, r, s)
    BY <1>2, <2>1, <2>2, StateRecorded DEF Stored
  <2>4. OthersJobsKept(r)
    BY <2>3 DEF StateWritten, OthersJobsKept
  <2>5. QED
    BY <2>2, <2>3, <2>4
<1>5. ASSUME NEW id, StateLost(r, id)
      PROVE  /\ Stored /\ StaleMoves /\ OthersJobsKept(r) /\ objects' = objects
             /\ jobs' = jobs /\ store = "crd"
  <2>1. Stored /\ objects' = objects /\ jobs' = jobs /\ StaleMoves
    BY <1>2, <1>5, Untouched, StaleMoved DEF StateLost, storeVars
  <2>2. store = "crd"
    BY <1>2, <1>5 DEF StateLost, SetStateFails, IInv, NothingStale
  <2>3. QED
    BY <2>1, <2>2 DEF OthersJobsKept
<1>6. CASE NotifyProgress(r)
  <2> USE DEF NotifyProgress
  <2>1. note'[r] = "final" /\ jobs[Target(r)][r] \notin Final
    BY <1>2, <1>3, <1>6 DEF JobInv, Recorded
  <2>2. /\ Stored /\ StaleMoves /\ OthersJobsKept(r) /\ objects' = objects
        /\ jobs' = jobs \/ StateWritten(Target(r), r, "in progress")
    BY <1>2, <1>4, <1>5, <1>6 DEF JobStates
  <2>3. SubscriberMoves(r, "final") /\ "final" \in NotePC \ {"none"}
    BY <1>6, <2>2 DEF SubscriberMoves, NotePC
  <2>4. Fits(r)'
    BY <1>2, <1>3, <1>6, <2>1 DEF JobInv, Fits
  <2>5. /\ jobs'[Target(r)][r] \notin Final
        /\ \A id \in Ids \ {Target(r)} : jobs'[id][r] = jobs[id][r]
    BY <1>2, <2>1, <2>2 DEF StateWritten, Final
  <2>6. Recorded(r)'
    BY <1>2, <1>3, <1>6, <2>1, <2>5 DEF JobInv, Recorded, Unended
  <2>7. Truthful(r)'
    BY <1>2, <1>3, <1>6, <2>1, <2>5 DEF Truthful, Final
  <2>8. \A id \in Ids : /\ jobs[id][r] # "none" => jobs'[id][r] # "none"
                        /\ jobs[id][r] \in Final => jobs'[id][r] \in Final
    BY <1>2, <2>1, <2>2 DEF StateWritten, Final
  <2>9. QED
    BY <1>2, <2>2, <2>3, <2>4, <2>6, <2>7, <2>8, SubscriberKeeps DEF TypeOK, StoreTypeOK
<1>7. CASE NotifyFinal(r)
  <2> USE DEF NotifyFinal
  <2>1. /\ note[r] = "final" /\ run[r] = "returned" /\ UNCHANGED read /\ SubscriberSteps(r)
        /\ jobs[Target(r)][r] \notin Final
    BY <1>2, <1>7 DEF JobInv, Recorded
  <2>2. FinalState(r) \in Final /\ FinalState(r) \in JobStates
    BY DEF FinalState, Final, JobStates
  <2>3. PICK call \in {"done", "delete", "instance", "dashboard"} :
          /\ Notes(r, call)
          /\ call = "delete" => Op(r) = "deprovision" /\ FinalState(r) = "succeeded"
          /\ call = "instance" => Op(r) = "unbind" /\ FinalState(r) = "succeeded"
          /\ RecordsState(r, Target(r), FinalState(r)) \/ StateLost(r, Target(r))
    <3>1. /\ CleanUp(r) \in {"done", "delete", "instance"}
          /\ CleanUp(r) = "delete" => Op(r) = "deprovision" /\ FinalState(r) = "succeeded"
          /\ CleanUp(r) = "instance" => Op(r) = "unbind" /\ FinalState(r) = "succeeded"
      BY <2>2, Zenon DEF CleanUp, Final
    <3>2. QED
      BY <1>7, <3>1
  <2>4. /\ Stored /\ StaleMoves /\ OthersJobsKept(r) /\ objects' = objects
        /\ \/ jobs' = jobs /\ store = "crd"
           \/ StateWritten(Target(r), r, FinalState(r))
    BY <1>2, <1>4, <1>5, <2>2, <2>3
  <2>5. SubscriberMoves(r, call) /\ call \in NotePC \ {"none"}
    BY <2>1, <2>3, <2>4 DEF SubscriberMoves, NotePC
  <2>6. /\ note'[r] = call /\ Target(r)' = Target(r) /\ Op(r)' = Op(r)
        /\ FinalState(r)' = FinalState(r) /\ pc'[r] = pc[r] /\ launch' = launch
    BY <1>3, <2>1, <2>3
  <2>7. Fits(r)'
    BY <1>2, <2>3, <2>6 DEF JobInv, Fits
  <2>8. /\ jobs'[Target(r)][r] = FinalState(r) \/ (store = "crd" /\ jobs' = jobs)
        /\ \A id \in Ids \ {Target(r)} : jobs'[id][r] = jobs[id][r]
    BY <1>2, <2>4 DEF StateWritten
  <2>9. Recorded(r)'
    BY <1>2, <2>2, <2>3, <2>4, <2>6, <2>8 DEF JobInv, Recorded, Stored
  <2>10. Truthful(r)'
    BY <1>2, <2>1, <2>3, <2>6, <2>8 DEF Truthful, Final
  <2>11. \A id \in Ids : /\ jobs[id][r] # "none" => jobs'[id][r] # "none"
                         /\ jobs[id][r] \in Final => jobs'[id][r] \in Final
    BY <1>2, <2>1, <2>2, <2>8 DEF Final
  <2>12. QED
    BY <1>2, <2>1, <2>4, <2>5, <2>7, <2>9, <2>10, <2>11, SubscriberKeeps DEF TypeOK, StoreTypeOK
<1>8. CASE RecordCleanupFailure(r)
  <2> USE DEF RecordCleanupFailure
  <2>1. note[r] = "failed" /\ run[r] = "returned" /\ note'[r] = "done"
    BY <1>1, <1>2, <1>3, <1>8 DEF TypeOK
  <2>2. /\ Stored /\ StaleMoves /\ OthersJobsKept(r) /\ objects' = objects
        /\ jobs' = jobs \/ StateWritten(Instance, r, "failed")
    BY <1>2, <1>4, <1>5, <1>8 DEF JobStates
  <2>3. SubscriberMoves(r, "done") /\ "done" \in NotePC \ {"none"}
    BY <1>8, <2>2 DEF SubscriberMoves, NotePC
  <2>4. Fits(r)'
    BY <1>2, <1>3, <1>8, <2>1 DEF JobInv, Fits
  <2>5. \A id \in Ids : \/ jobs'[id][r] = jobs[id][r]
                        \/ jobs'[id][r] = "failed"
    BY <1>2, <2>2 DEF StateWritten
  <2>6. Recorded(r)'
    BY <1>2, <1>3, <1>8, <2>1, <2>2, <2>5 DEF JobInv, Recorded, Final, Unended, Stored
  <2>7. Truthful(r)'
    BY <1>2, <1>3, <1>8, <2>1, <2>5 DEF JobInv, Truthful
  <2>8. \A id \in Ids : /\ jobs[id][r] # "none" => jobs'[id][r] # "none"
                        /\ jobs[id][r] \in Final => jobs'[id][r] \in Final
    BY <2>5 DEF Final
  <2>9. QED
    BY <1>2, <2>1, <2>2, <2>3, <2>4, <2>6, <2>7, <2>8, SubscriberKeeps DEF TypeOK, StoreTypeOK
<1>9. QED
  BY <1>6, <1>7, <1>8

-----------------------------------------------------------------------------
(* Requests, crashes and recovery.                                         *)

\* A request and the invariant.
LEMMA RequestKeeps ==
  ASSUME IInv, NEW r \in Tokens, Asked(r)
  PROVE  IInv' /\ JobsStep
<1> USE DEF Asked
<1>1. TypeOK /\ JobInv(r)
  BY DEF IInv
<1>2. PICK op \in Operations, id \in Ids, p \in Params \union {NoParams} :
        /\ req' = [req EXCEPT ![r] = [op |-> op, target |-> id, params |-> p]]
        /\ op \in BindMethods => id \in Bindings
        /\ op \notin BindMethods => id = Instance
  OBVIOUS
<1>3. PICK call \in HandlerPC \ {"idle", "restart", "drop"} : pc' = [pc EXCEPT ![r] = call]
  BY DEF Goes, Answers, AnswersFor, HandlerPC
<1>4. /\ UNCHANGED <<run, outcome, note, read, stale, launch, phase, pending, crashes>>
      /\ Stored /\ jobs' = jobs /\ objects' = objects /\ StaleMoves
  BY <1>1, Untouched DEF jobVars, processVars, storeVars
<1>5. /\ run[r] = "none" /\ note[r] = "none" /\ \A i \in Ids : jobs[i][r] = "none"
      /\ r \notin pending
  BY <1>1 DEF JobInv, Started, Recoverable, Unstarted
<1>6. TypeOK'
  <2>1. req' \in [Tokens -> Requests]
    BY <1>1, <1>2 DEF TypeOK, Requests
  <2>2. pc' \in [Tokens -> HandlerPC]
    BY <1>1, <1>3 DEF TypeOK
  <2>3. held' \in [Tokens -> HeldCopies]
    BY <1>1, Contents DEF TypeOK
  <2>4. answer' \in [Tokens -> [code : Codes, operation : Tokens \union {NoToken}]]
    <3>1. \/ UNCHANGED answer
          \/ \E code \in Codes : answer' = [answer EXCEPT ![r] = [code |-> code, operation |-> NoToken]]
      BY DEF Goes, Answers, AnswersFor, Codes
    <3>2. QED
      BY <1>1, <3>1 DEF TypeOK
  <2>5. QED
    BY <1>1, <1>4, <2>1, <2>2, <2>3, <2>4, Zenon DEF TypeOK, Stored
<1>7. Apart(r)
  <2>1. \A t \in Tokens \ {r} : req'[t] = req[t] /\ pc'[t] = pc[t]
    BY <1>1, <1>2, <1>3 DEF TypeOK
  <2>2. QED
    BY <1>1, <1>4, <2>1 DEF Apart, Stored, TypeOK
<1>8. JobInv(r)'
  <2>1. Op(r)' = op /\ Target(r)' = id /\ pc'[r] = call
    BY <1>1, <1>2, <1>3 DEF TypeOK, Op, Target
  <2>2. Fits(r)'
    BY <1>2, <1>3, <1>4, <1>5, <2>1 DEF Fits
  <2>3. Started(r)'
    BY <1>4, <1>5 DEF Started
  <2>4. Recorded(r)'
    BY <1>4, <1>5, <2>1 DEF Recorded, Unended
  <2>5. Truthful(r)'
    BY <1>4, <1>5, <2>1 DEF Truthful
  <2>6. Recoverable(r)'
    BY <1>3, <1>4, <1>5, <2>1 DEF Recoverable
  <2>7. QED
    BY <2>2, <2>3, <2>4, <2>5, <2>6 DEF JobInv
<1>9. QED
  BY <1>4, <1>6, <1>7, <1>8, OneActs DEF Final

\* The broker dies: no thread is left, nothing that is recorded is touched.
LEMMA CrashKeeps ==
  ASSUME IInv, Crash
  PROVE  IInv' /\ JobsStep /\ objects' = objects
<1> USE DEF Crash, requestVars
<1>1. TypeOK /\ Stored /\ jobs' = jobs /\ objects' = objects /\ store' = store
  BY Untouched DEF IInv, storeVars
<1>2. TypeOK'
  <2>1. pc' \in [Tokens -> HandlerPC]
    BY DEF HandlerPC
  <2>2. answer' \in [Tokens -> [code : Codes, operation : Tokens \union {NoToken}]]
    BY <1>1 DEF TypeOK, Codes
  <2>3. /\ run' \in [Tokens -> {"none", "running", "skipping", "returned"}]
        /\ note' \in [Tokens -> NotePC] /\ read' \in [Tokens -> Copies]
    BY DEF NotePC, NoCopy, Copies
  <2>4. crashes' \in 0 .. MaxCrashes
    BY <1>1 DEF TypeOK
  <2>5. /\ stale' \subseteq Tokens \X {"handler", "job"} /\ pending' \subseteq Tokens
        /\ phase' \in {"serving", "down", "recovering"}
    OBVIOUS
  <2>6. UNCHANGED <<req, held, outcome, launch>>
    OBVIOUS
  <2> HIDE DEF Crash
  <2>7. QED
    BY <1>1, <2>1, <2>2, <2>3, <2>4, <2>5, <2>6, Zenon DEF TypeOK, Stored
<1>3. ASSUME NEW r \in Tokens
      PROVE  JobInv(r)'
  <2>1. /\ Target(r)' = Target(r) /\ Op(r)' = Op(r) /\ FinalState(r)' = FinalState(r)
        /\ pc'[r] = (IF pc[r] = "idle" THEN "idle" ELSE "done")
        /\ run'[r] = "none" /\ note'[r] = "none" /\ JobInv(r)
    BY DEF Target, Op, FinalState, IInv
  <2>2. Fits(r)'
    BY <2>1 DEF JobInv, Fits
  <2>3. Started(r)'
    BY <1>1, <2>1 DEF JobInv, Started, Unstarted
  <2>4. Recorded(r)'
    BY <1>1, <2>1 DEF JobInv, Recorded, Unended
  <2>5. Truthful(r)'
    BY <1>1, <2>1 DEF JobInv, Truthful
  <2>6. Recoverable(r)'
    BY <2>1 DEF Recoverable
  <2>7. QED
    BY <2>2, <2>3, <2>4, <2>5, <2>6 DEF JobInv
<1>4. QED
  BY <1>1, <1>2, <1>3 DEF IInv, NothingStale, JobsStep

\* Recovery goes on without writing: what it is about to restart has ended.
Looks ==
  /\ UNCHANGED <<storeVars, requestVars, answer, jobVars, stale, launch, crashes>>
  /\ phase' \in {"recovering", "serving"}
  /\ \A r \in pending' :
       pc'[r] = "done" /\ pc[r] = "done" /\ run[r] = "none" /\ jobs[Target(r)][r] \notin Final
  /\ pending' \subseteq Tokens
  /\ \/ UNCHANGED pc
     \/ \E r \in pending : pc' = [pc EXCEPT ![r] = "restart"]

\* Such a step and the invariant.
LEMMA LooksKeep ==
  ASSUME IInv, Looks
  PROVE  IInv' /\ JobsStep /\ objects' = objects
<1> USE DEF Looks, requestVars, jobVars
<1>1. TypeOK /\ Stored /\ jobs' = jobs /\ objects' = objects /\ store' = store
  BY Untouched DEF IInv, storeVars
<1>2. TypeOK'
  <2>1. pc' \in [Tokens -> HandlerPC]
    BY <1>1 DEF HandlerPC, TypeOK
  <2>2. phase' \in {"serving", "down", "recovering"} /\ pending' \subseteq Tokens
    OBVIOUS
  <2>3. UNCHANGED <<req, held, answer, run, outcome, note, read, stale, launch, crashes>>
    OBVIOUS
  <2> HIDE DEF Looks
  <2>4. QED
    BY <1>1, <2>1, <2>2, <2>3, Zenon DEF TypeOK, Stored
<1>3. ASSUME NEW r \in Tokens
      PROVE  JobInv(r)'
  <2>1. /\ Target(r)' = Target(r) /\ Op(r)' = Op(r) /\ FinalState(r)' = FinalState(r)
        /\ run'[r] = run[r] /\ note'[r] = note[r] /\ JobInv(r)
    BY DEF Target, Op, FinalState, IInv
  <2>2. \/ pc'[r] = pc[r]
        \/ pc'[r] = "restart" /\ r \in pending
    BY <1>1 DEF TypeOK
  <2>3. Fits(r)'
    BY <2>1, <2>2 DEF JobInv, Fits
  <2>4. Started(r)'
    BY <1>1, <2>1, <2>2 DEF JobInv, Started, Unstarted
  <2>5. Recorded(r)'
    BY <1>1, <2>1 DEF JobInv, Recorded
  <2>6. Truthful(r)'
    BY <1>1, <2>1 DEF JobInv, Truthful
  <2>7. Recoverable(r)'
    BY <1>1, <2>1, <2>2 DEF JobInv, Recoverable
  <2>8. QED
    BY <2>3, <2>4, <2>5, <2>6, <2>7 DEF JobInv
<1>4. QED
  BY <1>1, <1>2, <1>3 DEF IInv, NothingStale, JobsStep

\* The jobs that Recover is told of have ended with the process.
LEMMA RestartLooks ==
  ASSUME IInv, Restart
  PROVE  Looks
<1>1. ASSUME NEW r \in pending'
      PROVE  r \in Tokens /\ pc[r] = "done" /\ run[r] = "none" /\ jobs[Target(r)][r] \notin Final
  <2>1. PICK id \in Ids : r \in Tokens /\ jobs[id][r] = "in progress"
    <3>1. r \in FindJobStateByState("in progress") /\ objects \subseteq Ids
      BY <1>1 DEF Restart, IInv, TypeOK, StoreTypeOK
    <3>2. CASE store = "crd"
      BY <3>1, <3>2 DEF FindJobStateByState, Crd!FindJobStateByState
    <3>3. CASE store # "crd"
      BY <3>1, <3>3 DEF FindJobStateByState, Etcd!FindJobStateByState, Etcd!Ids, Ids
    <3>4. QED
      BY <3>2, <3>3
  <2>2. JobInv(r) /\ phase = "down"
    BY <2>1 DEF IInv, Restart
  <2>3. pc[r] = "done" /\ run[r] = "none"
    BY <2>1, <2>2 DEF JobInv, Recoverable, Started, Unstarted
  <2>4. id = Target(r)
    BY <2>1, <2>2 DEF JobInv, Recorded
  <2>5. QED
    BY <2>1, <2>3, <2>4 DEF Final
<1>2. QED
  BY <1>1 DEF Restart, Looks

\* Recover restarts a job under the token it had, or serves when it cannot.
LEMMA RestartJobKeeps ==
  ASSUME IInv, NEW r \in Tokens, RestartJob(r)
  PROVE  IInv' /\ JobsStep /\ objects' = objects
<1> USE DEF RestartJob, requestVars
<1>1. /\ TypeOK /\ JobInv(r) /\ StoreTypeOK /\ Target(r) \in Ids
      /\ Op(r) \in Methods \union {"none"}
  BY Contents DEF IInv, TypeOK
<1>2. /\ run[r] = "none" /\ note[r] = "none" /\ r \notin pending /\ phase # "down"
      /\ jobs[Target(r)][r] \notin Final
  BY <1>1 DEF JobInv, Recoverable, Started
<1>3. /\ pc' \in [Tokens -> HandlerPC] /\ pc'[r] = "done"
      /\ \A t \in Tokens \ {r} : pc'[t] = pc[t]
  BY <1>1 DEF TypeOK, HandlerPC
<1>4. /\ Target(r)' = Target(r) /\ Op(r)' = Op(r)
  BY DEF Target, Op
<1>5. CASE /\ SetState(Target(r), r, "not yet started", Op(r))
           /\ Touches(Handler(r), Target(r), "bindingLock")
           /\ JobStarts(r, "running")
           /\ UNCHANGED processVars
  <2>1. Stored /\ objects' = objects /\ StateWritten(Target(r), r, "not yet started") /\ StaleMoves
    <3>1. "not yet started" \in JobStates
      BY DEF JobStates
    <3>2. StaleMoves
      BY <1>1, <1>5, StaleMoved
    <3>3. SetState(Target(r), r, "not yet started", Op(r))
      BY <1>5
    <3>4. QED
      BY ONLY <1>1, <3>1, <3>2, <3>3, r \in Tokens, StateRecorded DEF Stored
  <2>2. run' = [run EXCEPT ![r] = "running"] /\ note' = [note EXCEPT ![r] = "progress"]
    BY <1>5 DEF JobStarts, Notes
  <2>3. UNCHANGED <<req, held, answer, outcome, read, launch, phase, pending, crashes>>
    BY <1>5 DEF JobStarts, processVars
  <2>4. TypeOK'
    <3>1. run' \in [Tokens -> {"none", "running", "skipping", "returned"}] /\ note' \in [Tokens -> NotePC]
      BY <1>1, <2>2 DEF TypeOK, NotePC
    <3>2. QED
      BY <1>1, <1>3, <2>1, <2>3, <3>1, Zenon DEF TypeOK, Stored, StaleMoves
  <2>5. run'[r] = "running" /\ note'[r] = "progress"
    BY <1>1, <2>2 DEF TypeOK
  <2>6. Apart(r)
    <3>1. \A t \in Tokens \ {r} : run'[t] = run[t] /\ note'[t] = note[t]
      BY <1>1, <2>2 DEF TypeOK
    <3>2. \A t \in Tokens \ {r}, id \in Ids : jobs'[id][t] = jobs[id][t]
      BY <2>1 DEF StateWritten
    <3>3. QED
      BY <1>1, <1>3, <2>1, <2>3, <3>1, <3>2 DEF Apart, Stored, TypeOK
  <2>7. /\ jobs'[Target(r)][r] = "not yet started"
        /\ \A id \in Ids \ {Target(r)} : jobs'[id][r] = jobs[id][r]
    BY <2>1 DEF StateWritten
  <2>8. JobInv(r)'
    <3>1. Fits(r)'
      BY <1>1, <1>3, <1>4, <2>5 DEF JobInv, Fits
    <3>2. Started(r)'
      BY <1>3, <2>5 DEF Started, Unstarted
    <3>3. Recorded(r)'
      BY <1>1, <1>4, <2>5, <2>7 DEF JobInv, Recorded, Final, Unended
    <3>4. Truthful(r)'
      BY <1>4, <2>5, <2>7 DEF Truthful
    <3>5. Recoverable(r)'
      BY <1>2, <1>3, <2>3 DEF Recoverable
    <3>6. QED
      BY <3>1, <3>2, <3>3, <3>4, <3>5 DEF JobInv
  <2>9. \A id \in Ids : /\ jobs[id][r] # "none" => jobs'[id][r] # "none"
                        /\ jobs[id][r] \in Final => jobs'[id][r] \in Final
    BY <1>2, <2>7 DEF Final
  <2>10. QED
    BY <1>1, <2>1, <2>4, <2>6, <2>8, <2>9, OneActs DEF StoreTypeOK
<1>6. CASE Leaves(Handler(r)) /\ Serves /\ UNCHANGED <<storeVars, jobVars>>
  <2>1. Stored /\ objects' = objects /\ jobs' = jobs /\ StaleMoves
    BY <1>1, <1>6, Untouched, StaleMoved DEF storeVars
  <2>2. /\ UNCHANGED <<req, held, answer, run, outcome, note, read, launch, crashes>>
        /\ pending' = {} /\ phase' = "serving"
    BY <1>6 DEF jobVars, Serves
  <2>3. TypeOK'
    <3>1. phase' \in {"serving", "down", "recovering"} /\ pending' \subseteq Tokens
      BY <2>2
    <3>2. QED
      BY <1>1, <1>3, <2>1, <2>2, <3>1, Zenon DEF TypeOK, Stored, StaleMoves
  <2>4. Apart(r)
    BY <1>1, <1>3, <2>1, <2>2 DEF Apart, Stored, TypeOK
  <2>5. JobInv(r)'
    <3>1. Fits(r)'
      BY <1>1, <1>3, <1>4, <2>2 DEF JobInv, Fits
    <3>2. Started(r)'
      BY <1>2, <1>3, <2>2 DEF Started, Unstarted
    <3>3. Recorded(r)'
      BY <1>1, <1>4, <2>1, <2>2 DEF JobInv, Recorded, Stored
    <3>4. Truthful(r)'
      BY <1>2, <1>4, <2>1, <2>2 DEF Truthful, Final
    <3>5. Recoverable(r)'
      BY <1>3, <2>2 DEF Recoverable
    <3>6. QED
      BY <3>1, <3>2, <3>3, <3>4, <3>5 DEF JobInv
  <2>6. QED
    BY <2>1, <2>3, <2>4, <2>5, OneActs
<1>7. QED
  BY <1>5, <1>6

\* Recovery and the invariant.
LEMMA RecoveryKeeps ==
  ASSUME IInv, Recover
  PROVE  IInv' /\ JobsStep /\ objects' = objects
<1>1. \A r \in pending :
        r \in Tokens /\ pc[r] = "done" /\ run[r] = "none" /\ jobs[Target(r)][r] \notin Final
  BY DEF IInv, TypeOK, JobInv, Recoverable
<1>2. CASE Restart
  BY <1>2, RestartLooks, LooksKeep
<1>3. CASE RecoveryStops \/ RecoveryEnds
  <2>1. Looks
    BY <1>3 DEF RecoveryStops, RecoveryEnds, Serves, Looks
  <2>2. QED
    BY <2>1, LooksKeep
<1>4. ASSUME NEW r \in Tokens, RecoverJob(r)
      PROVE  IInv' /\ JobsStep /\ objects' = objects
  <2>1. CASE Serves /\ UNCHANGED <<pc, answer>>
    <3>1. Looks
      BY <1>4, <2>1 DEF RecoverJob, Serves, Looks
    <3>2. QED
      BY <3>1, LooksKeep
  <2>2. CASE /\ pending' = pending \ {r} /\ Goes(r, "restart")
             /\ UNCHANGED <<launch, phase, crashes>>
    <3>1. r \in pending /\ phase' = "recovering"
      BY <1>4, <2>2 DEF RecoverJob, Comes
    <3>2. \A t \in pending' : t \in pending /\ pc'[t] = pc[t]
      BY <2>2 DEF Goes, IInv, TypeOK
    <3>3. Looks
      BY <1>1, <1>4, <2>2, <3>1, <3>2 DEF RecoverJob, Looks, Goes
    <3>4. QED
      BY <3>3, LooksKeep
  <2>3. QED
    BY <1>4, <2>1, <2>2 DEF RecoverJob
<1>5. QED
  BY <1>2, <1>3, <1>4, RestartJobKeeps DEF Recover

-----------------------------------------------------------------------------
(* The theorems.                                                           *)

\* The invariant holds initially.
LEMMA InitInv ==
  ASSUME Init
  PROVE  IInv
<1> USE DEF Init, Ids
<1>1. StoreTypeOK
  <2>1. jobs \in [Ids -> [Tokens -> JobStates \union {"none"}]]
    BY DEF NoJobs
  <2>2. params \in [Ids -> Params \union {NoParams}]
    OBVIOUS
  <2>3. objects \subseteq Ids /\ recorded \subseteq Ids /\ secrets \subseteq Ids /\ listed \subseteq Bindings
    OBVIOUS
  <2>4. QED
    BY <2>1, <2>2, <2>3 DEF StoreTypeOK
<1>2. TypeOK
  <2>1. req \in [Tokens -> Requests]
    BY DEF NoRequest, Requests
  <2>2. held \in [Tokens -> HeldCopies]
    BY DEF Hold, HeldCopies, NoCopy
  <2>3. answer \in [Tokens -> [code : Codes, operation : Tokens \union {NoToken}]]
    BY DEF Codes
  <2>4. read \in [Tokens -> Copies]
    BY DEF Copies, NoCopy
  <2>5. /\ pc \in [Tokens -> HandlerPC]
        /\ run \in [Tokens -> {"none", "running", "skipping", "returned"}]
        /\ outcome \in [Tokens -> Outcomes] /\ note \in [Tokens -> NotePC]
    BY DEF HandlerPC, Outcomes, NotePC
  <2>6. crashes \in 0 .. MaxCrashes
    OBVIOUS
  <2>7. stale = {} /\ pending = {} /\ phase = "serving" /\ launch \in BOOLEAN
    OBVIOUS
  <2> HIDE DEF Init
  <2>8. QED
    BY <1>1, <2>1, <2>2, <2>3, <2>4, <2>5, <2>6, <2>7, Zenon DEF TypeOK
<1>3. ASSUME NEW r \in Tokens
      PROVE  JobInv(r)
  <2>1. /\ Op(r) = "none" /\ Target(r) = Instance /\ pc[r] = "idle" /\ run[r] = "none"
        /\ note[r] = "none" /\ \A id \in Ids : jobs[id][r] = "none"
    BY DEF Op, Target, NoRequest, NoJobs
  <2>2. QED
    BY <2>1 DEF JobInv, Fits, BindMethods, Started, Recorded, Final, Unended, Truthful,
                Recoverable
<1>4. QED
  BY <1>2, <1>3 DEF IInv, NothingStale

\* Every step of a thread keeps the invariant and what is recorded, and forgets
\* an object only when nothing is left to undo.
LEMMA ThreadKeeps ==
  ASSUME IInv, NEW r \in Tokens,
         Request(r) \/ HandlerStep(r) \/ RunnerStep(r) \/ SubscriberStep(r)
  PROVE  IInv' /\ JobsStep /\ ForgetsStep
<1>1. TypeOK /\ Fits(r) /\ Truthful(r)
  BY DEF IInv, JobInv
<1>2. objects \subseteq objects' => ForgetsStep
  BY DEF ForgetsStep
<1>3. CASE Request(r)
  <2>1. Asked(r)
    BY <1>3, RequestFrame
  <2>2. objects' = objects
    BY <2>1 DEF Asked, storeVars
  <2>3. QED
    BY <1>2, <2>1, <2>2, RequestKeeps
<1>4. CASE HandlerStep(r)
  <2>1. \/ RecordsJob(r)
        \/ HandlerMoves(r) /\ JobsKept /\ UNCHANGED <<run, note>>
    BY <1>1, <1>4, ReadingMoves, WritingMoves, SetupMoves DEF HandlerStep
  <2>2. \A id \in objects \ objects' : pc[r] = "drop" /\ id = Target(r)
    BY <2>1 DEF RecordsJob, HandlerMoves
  <2>3. ForgetsStep
    BY <1>1, <2>2 DEF ForgetsStep, Fits
  <2>4. QED
    BY <2>1, <2>3, HandlerKeeps, SetupKeeps
<1>5. CASE RunnerStep(r)
  BY <1>2, <1>5, RunnerKeeps
<1>6. CASE SubscriberStep(r)
  <2>1. CASE NotifyProgress(r) \/ NotifyFinal(r) \/ RecordCleanupFailure(r)
    BY <1>2, <2>1, NotifyKeeps
  <2>2. CASE CleansUp(r)
    <3>1. \A id \in objects \ objects' : note[r] \in {"delete", "drop"} /\ id = Target(r)
      BY <2>2 DEF CleansUp, SubscriberMoves
    <3>2. ForgetsStep
      BY <1>1, <3>1 DEF ForgetsStep, Fits, Truthful, FinalState
    <3>3. QED
      BY <2>2, <3>2, CleanupKeeps
  <2>3. QED
    BY <1>1, <1>6, <2>1, <2>2, CleanupMoves DEF SubscriberStep
<1>7. QED
  BY <1>3, <1>4, <1>5, <1>6

\* So does every step.
LEMMA NextKeeps ==
  ASSUME IInv, [Next]_vars
  PROVE  IInv' /\ [JobsStep]_vars /\ [ForgetsStep]_vars
<1>1. CASE Next
  <2>1. objects' = objects => ForgetsStep
    BY DEF ForgetsStep
  <2>2. QED
    BY <1>1, <2>1, ThreadKeeps, CrashKeeps, RecoveryKeeps DEF Next
<1>2. CASE UNCHANGED vars
  <2>1. IInv'
    BY <1>2 DEF vars, storeVars, requestVars, jobVars, processVars, IInv, TypeOK, StoreTypeOK,
                NothingStale, JobInv, Fits, Started, Recorded, Truthful, Recoverable, FinalState,
                Target, Op
  <2>2. QED
    BY <1>2, <2>1
<1>3. QED
  BY <1>1, <1>2

\* The invariant holds whatever is requested, in whatever order the threads run
\* and however often the broker dies.
THEOREM Invariant == Spec => []IInv
<1>1. Init => IInv
  BY InitInv
<1>2. IInv /\ [Next]_vars => IInv'
  BY NextKeeps
<1>3. QED
  BY <1>1, <1>2, PTL DEF Spec

\* Every variable keeps its type.
THEOREM TypeCorrect == Spec => []TypeOK
<1>1. IInv => TypeOK
  BY DEF IInv
<1>2. QED
  BY <1>1, Invariant, PTL

\* What polling or an observer of the records takes for a success was one of the
\* bundle, or of a bind or unbind that had no action to run, across crashes.
THEOREM SuccessTold == Spec => []SuccessIsTrue
<1>1. IInv => SuccessIsTrue
  <2>1. SUFFICES ASSUME IInv, NEW id \in Ids, NEW t \in Tokens, jobs[id][t] = "succeeded"
                 PROVE  outcome[t] \in {"succeeded"} \union
                          (IF Op(t) \in {"bind", "unbind"} THEN {"action not found"} ELSE {})
    BY DEF SuccessIsTrue
  <2>2. Recorded(t) /\ Truthful(t)
    BY <2>1 DEF IInv, JobInv
  <2>3. id = Target(t)
    BY <2>1, <2>2 DEF Recorded
  <2>4. FinalState(t) = "succeeded"
    BY <2>1, <2>2, <2>3 DEF Truthful
  <2>5. QED
    BY <2>4 DEF FinalState
<1>2. QED
  BY <1>1, Invariant, PTL

\* Over etcd the end of every job the subscriber has done with can be polled.
THEOREM EndTold == Spec => []EndIsRecorded
<1>1. IInv => EndIsRecorded
  <2>1. SUFFICES ASSUME IInv, NEW r \in Tokens, store = "etcd", note[r] = "done"
                 PROVE  LastOperation(r) \in Final
    BY DEF EndIsRecorded
  <2>2. jobs[Target(r)][r] \in Final
    BY <2>1 DEF IInv, JobInv, Recorded, Unended
  <2>3. GetState(Target(r), r) = jobs[Target(r)][r]
    BY <2>1, <2>2 DEF GetState, Etcd!GetState, Final
  <2>4. GetState(Target(r), r) \in Final
    BY <2>2, <2>3
  <2>5. LastOperation(r) = StateToLastOperation(GetState(Target(r), r))
    BY <2>4, Zenon DEF LastOperation, Final
  <2>6. QED
    BY <2>4, <2>5 DEF StateToLastOperation, Final
<1>2. QED
  BY <1>1, Invariant, PTL

\* No step makes a finished job unfinished, or loses the record of a job whose
\* object stays.
THEOREM RecordsKept == Spec => RecordedJobsKept
<1>1. IInv /\ [Next]_vars => [JobsStep]_vars
  BY NextKeeps
<1>2. QED
  BY <1>1, Invariant, PTL DEF Spec, RecordedJobsKept, JobsStep

\* No step forgets an instance or a binding before a bundle has undone it.
THEOREM ForgottenLast == Spec => UndoneBeforeForgotten
<1>1. IInv /\ [Next]_vars => [ForgetsStep]_vars
  BY NextKeeps
<1>2. QED
  BY <1>1, Invariant, PTL DEF Spec, UndoneBeforeForgotten, ForgetsStep
=============================================================================

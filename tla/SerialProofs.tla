---------------------------- MODULE SerialProofs ----------------------------
(***************************************************************************)
(* What the broker guarantees when requests come one at a time and it does *)
(* not die: it keeps its records, its lists and its credentials in step,   *)
(* and every step of it is one of ServiceLife or none, over either store   *)
(* and for any bindings, parameters and number of requests.                *)
(***************************************************************************)
EXTENDS BrokerProofs

USE StoreAssumption, BrokerAssumption

-----------------------------------------------------------------------------
(* The inductive invariant.                                                *)

\* The handler or the job of request r is under way.
Working(r) == pc[r] \notin {"idle", "done"} \/ note[r] \notin {"none", "done"}

\* One request is, at most.
Alone == \A r, t \in Tokens : Working(r) /\ Working(t) => r = t

\* A request that has not begun holds nothing, and a job that has not returned has
\* no outcome.
Fresh(r) ==
  /\ pc[r] = "idle" => held[r].listed = {} /\ held[r].marked = {}
  /\ run[r] # "returned" => outcome[r] = "none"

\* Nobody takes away what a request has found or made, but for the request itself.
There(r) ==
  Working(r) =>
    /\ Op(r) \in Methods
    /\ Op(r) \in {"update", "bind", "unbind"} => Instance \in objects
    /\ Op(r) = "provision" => (pc[r] = "save" <=> Instance \notin objects)
    /\ Op(r) = "bind" /\ pc[r] \notin {"find", "save"} => Target(r) \in objects

\* What a request or its job holds of the instance is still so, but for the binding
\* that it undoes.
InStep(r) ==
  Working(r) =>
    /\ Op(r) = "provision" => held[r].listed = {} /\ held[r].marked = {}
    /\ Op(r) \in {"update", "bind"} => held[r].listed \subseteq objects
    /\ Op(r) = "unbind" => held[r].listed \ {Target(r)} \subseteq objects
    /\ Op(r) = "deprovision" =>
         IF pc[r] = "check" THEN held[r].listed = listed /\ held[r].marked = marked
         ELSE listed = {}
    /\ note[r] \in {"binding", "drop", "unlist"} => read[r].listed \ {Target(r)} \subseteq objects
    /\ note[r] = "url" => read[r].listed \subseteq objects

\* The handler of an unbind waits while its job runs; only what is not undone has
\* a dashboard.
Ways(r) ==
  /\ Op(r) = "unbind" /\ note[r] # "none" => pc[r] \in {"wait", "done"}
  /\ note[r] \in {"dashboard", "url"} => Op(r) \in {"provision", "update", "bind"}

\* Only a request and its own job get in each other's way, and not those of an
\* unbind.
Calm(r) ==
  /\ Handler(r) \in stale => pc[r] \in {"save", "key", "list", "unlist", "setup", "setup skipped"}
  /\ Job(r) \in stale => note[r] \in {"progress", "final", "failed", "unlist", "url"}
  /\ note[r] = "none" \/ Op(r) = "unbind" => Handler(r) \notin stale /\ Job(r) \notin stale

\* What is listed exists, but while an unbind is between its two writes.
ListedThere ==
  \A b \in listed :
    b \in objects \/ \E r \in Tokens : b = Target(r) /\ "unlist" \in {pc[r], note[r]}

\* The instance's credentials are there with it, but until a deprovision's cleanup
\* comes to them.
SecretThere ==
  Instance \in secrets => Instance \in objects \/ \E r \in Tokens : note[r] = "secret"

SerialInv ==
  /\ phase = "serving"
  /\ Alone
  /\ \A r \in Tokens :
       pc[r] # "restart" /\ Fresh(r) /\ There(r) /\ InStep(r) /\ Ways(r) /\ Calm(r)
  /\ ListedThere /\ SecretThere

-----------------------------------------------------------------------------
(* One thread acts.                                                        *)

\* No other request is under way.
Leads(r) == \A t \in Tokens \ {r} : ~Working(t)

\* The others' threads stand still, and their writes are not refused for what r
\* does.
OnlyMoves(r) ==
  /\ UNCHANGED phase
  /\ \A t \in Tokens \ {r} :
       /\ req'[t] = req[t] /\ pc'[t] = pc[t] /\ held'[t] = held[t]
       /\ run'[t] = run[t] /\ outcome'[t] = outcome[t] /\ note'[t] = note[t]
       /\ Handler(t) \in stale' => Handler(t) \in stale
       /\ Job(t) \in stale' => Job(t) \in stale

\* What concerns a request or its job.
OwnInv(r) == pc[r] # "restart" /\ Fresh(r) /\ There(r) /\ InStep(r) /\ Ways(r) /\ Calm(r)

\* What is left to show of a step of request r or its job.
LEMMA OneSerial ==
  ASSUME SerialInv, NEW r \in Tokens, Leads(r), OnlyMoves(r), OwnInv(r)',
         ListedThere', SecretThere'
  PROVE  SerialInv'
<1>1. ASSUME NEW t \in Tokens \ {r}
      PROVE  ~Working(t)' /\ OwnInv(t)'
  <2>1. ~Working(t)' /\ ~Working(t)
    BY DEF OnlyMoves, Leads, Working
  <2>2. Fresh(t)' /\ pc'[t] # "restart"
    BY DEF OnlyMoves, SerialInv, Fresh
  <2>3. Ways(t)'
    BY DEF OnlyMoves, SerialInv, Ways, Op
  <2>4. Calm(t)'
    BY DEF OnlyMoves, SerialInv, Calm, Op, Handler, Job
  <2>5. QED
    BY <2>1, <2>2, <2>3, <2>4 DEF OwnInv, There, InStep
<1>2. Alone'
  BY <1>1 DEF Alone
<1>3. \A t \in Tokens : OwnInv(t)'
  BY <1>1
<1>4. QED
  BY <1>2, <1>3 DEF SerialInv, OnlyMoves, OwnInv

\* Who is not about to write is not refused.
LEMMA WritesNothing ==
  ASSUME NEW t \in Tokens
  PROVE  /\ pc[t] \notin {"save", "key", "list", "unlist", "setup", "setup skipped", "restart"}
               => WritesOf(Handler(t)) = <<>>
         /\ note[t] \notin {"progress", "final", "failed", "unlist", "url"}
               => WritesOf(Job(t)) = <<>>
<1>1. ASSUME pc[t] \notin {"save", "key", "list", "unlist", "setup", "setup skipped", "restart"}
      PROVE  WritesOf(Handler(t)) = <<>>
  <2>1. Handler(t)[1] = t /\ Handler(t)[2] = "handler"
    BY DEF Handler
  <2>2. /\ ~(pc[t] \in {"save", "key"}) /\ ~(pc[t] \in {"list", "unlist"})
        /\ ~(pc[t] \in {"setup", "setup skipped", "restart"})
    BY <1>1
  <2>3. QED
    BY <2>1, <2>2, Zenon DEF WritesOf
<1>2. ASSUME note[t] \notin {"progress", "final", "failed", "unlist", "url"}
      PROVE  WritesOf(Job(t)) = <<>>
  <2>1. Job(t)[1] = t /\ Job(t)[2] # "handler"
    BY DEF Job
  <2>2. /\ ~(note[t] = "progress" \/ (note[t] = "final" /\ run[t] = "returned"))
        /\ ~(note[t] = "failed") /\ ~(note[t] \in {"unlist", "url"})
    BY <1>2
  <2>3. QED
    BY <2>1, <2>2, Zenon DEF WritesOf
<1>3. QED
  BY <1>1, <1>2

\* A write of request r or its job makes at most its own other thread stale.
LEMMA StaleAlone ==
  ASSUME SerialInv, NEW r \in Tokens, Leads(r), NEW a \in {Handler(r), Job(r)}, NEW id, NEW lock,
         Touches(a, id, lock) \/ Leaves(a)
  PROVE  /\ \A t \in Tokens \ {r} :
              /\ Handler(t) \in stale' => Handler(t) \in stale
              /\ Job(t) \in stale' => Job(t) \in stale
         /\ a \notin stale'
         /\ \A b \in {Handler(r), Job(r)} : b \in stale' => b \in stale \/ WritesOf(b) # <<>>
<1>1. \A b \in stale' : b \in stale \/ WritesOf(b) # <<>>
  BY DEF Touches, Leaves
<1>2. a \notin stale'
  BY DEF Touches, Leaves
<1>3. ASSUME NEW t \in Tokens \ {r}
      PROVE  WritesOf(Handler(t)) = <<>> /\ WritesOf(Job(t)) = <<>>
  <2>1. pc[t] \in {"idle", "done"} /\ note[t] \in {"none", "done"}
    BY DEF Leads, Working
  <2>2. QED
    BY <2>1, WritesNothing
<1>4. QED
  BY <1>1, <1>2, <1>3

-----------------------------------------------------------------------------
(* What the writes do to records, lists and credentials, over either store. *)

\* The instance is written where it exists, or with a copy that marks nothing.
LEMMA InstanceUpdated ==
  ASSUME StoreTypeOK, NEW copy, copy.listed \subseteq Bindings, copy.marked \subseteq Bindings,
         NEW p \in Params \union {NoParams}, SetServiceInstance(copy, p),
         Instance \in objects \/ copy.marked = {}
  PROVE  /\ objects' = objects \union {Instance} /\ secrets' = secrets
         /\ \A b \in listed' : b \in copy.listed \/ (b \in listed /\ b \notin copy.marked)
<1>1. CASE store = "crd" /\ Crd!SetServiceInstance(copy, p)
  <2>1. CASE Instance \in objects
    <3>1. listed' = Crd!intersectionOfBindings(copy.listed, copy.marked, listed)
      BY <1>1, <2>1 DEF Crd!SetServiceInstance
    <3>2. QED
      BY <1>1, <3>1 DEF Crd!SetServiceInstance, Crd!intersectionOfBindings
  <2>2. CASE Instance \notin objects
    <3>1. listed' = copy.listed \union copy.marked
      BY <1>1, <2>2 DEF Crd!SetServiceInstance
    <3>2. QED
      BY <1>1, <2>2, <3>1 DEF Crd!SetServiceInstance
  <2>3. QED
    BY <2>1, <2>2
<1>2. CASE store = "etcd" /\ Etcd!SetServiceInstance(copy, p)
  BY <1>2 DEF Etcd!SetServiceInstance
<1>3. QED
  BY <1>1, <1>2 DEF SetServiceInstance

\* The instance is written back without a binding.
LEMMA BindingUnlisted ==
  ASSUME StoreTypeOK, NEW copy \in Copies \union HeldCopies, NEW b \in Bindings,
         NEW p \in Params \union {NoParams}, Instance \in objects,
         SetServiceInstance(RemoveBinding(copy, b), p)
  PROVE  /\ objects' = objects /\ secrets' = secrets
         /\ \A x \in listed' : x # b /\ (x \in copy.listed \/ x \in listed)
<1>1. copy.listed \subseteq Bindings /\ copy.marked \subseteq Bindings
  BY DEF Copies, HeldCopies
<1>2. /\ RemoveBinding(copy, b).listed \subseteq Bindings
      /\ RemoveBinding(copy, b).marked \subseteq Bindings
  BY <1>1, CopiesChanged
<1>3. /\ objects' = objects /\ secrets' = secrets
      /\ \A x \in listed' : \/ x \in RemoveBinding(copy, b).listed
                            \/ x \in listed /\ x \notin RemoveBinding(copy, b).marked
  BY <1>2, InstanceUpdated
<1>4. CASE HasMap(copy)
  <2>1. /\ RemoveBinding(copy, b).listed = copy.listed \ {b}
        /\ RemoveBinding(copy, b).marked = copy.marked \union {b}
    BY <1>4 DEF RemoveBinding, Copies, HeldCopies
  <2>2. QED
    BY <1>3, <2>1
<1>5. CASE ~HasMap(copy)
  <2>1. store = "etcd" /\ copy.listed = {} /\ RemoveBinding(copy, b) = copy
    BY <1>5 DEF HasMap, RemoveBinding, StoreTypeOK
  <2>2. listed' = {}
    BY <2>1 DEF SetServiceInstance, Etcd!SetServiceInstance
  <2>3. QED
    BY <1>3, <2>2
<1>6. QED
  BY <1>4, <1>5

\* A record is deleted: that of the instance takes the list with it.
LEMMA RecordDeleted ==
  ASSUME NEW id \in Ids, DeleteObject(id)
  PROVE  /\ objects' = objects \ {id} /\ secrets' = secrets
         /\ id = Instance => listed' = {}
         /\ id # Instance => listed' = listed /\ marked' = marked
BY DEF DeleteObject, Crd!DeleteObject, Etcd!DeleteObject

\* The state of a job is written.
LEMMA StateStored ==
  ASSUME NEW id, NEW t, NEW s, NEW method, SetState(id, t, s, method)
  PROVE  UNCHANGED <<objects, listed, marked, secrets>>
BY DEF SetState, Crd!SetState, Etcd!SetState

-----------------------------------------------------------------------------
(* The steps of a handler.                                                 *)

\* What a step of a request or its job makes or forgets: the record that it is
\* about, before its bundle has run and after it has succeeded, and not as the last
\* thing it does.
Changes(r) ==
  \/ objects' = objects
  \/ /\ Op(r) \in {"provision", "bind"} /\ outcome[r] = "none"
     /\ Target(r) \notin objects /\ objects' = objects \union {Target(r)}
     /\ Working(r)'
  \/ /\ Op(r) \in {"deprovision", "unbind"} /\ objects' = objects \ {Target(r)}
     /\ Fared(r) = "succeeded" \/ (Op(r) = "unbind" /\ ~launch)
     /\ Working(r)'

\* Between its two writes an unbind is the only one to have an entry in the list
\* that does not exist.
LEMMA ListedNow ==
  ASSUME IInv, SerialInv, NEW r \in Tokens, Leads(r)
  PROVE  /\ "unlist" \notin {pc[r], note[r]} => listed \subseteq objects
         /\ listed \ {Target(r)} \subseteq objects
<1>1. \A t \in Tokens \ {r} : pc[t] # "unlist" /\ note[t] # "unlist"
  BY DEF Leads, Working
<1>2. QED
  BY <1>1 DEF SerialInv, ListedThere

\* What a handler's step knows.
Acts(r) ==
  /\ TypeOK /\ StoreTypeOK /\ Fits(r) /\ OwnInv(r) /\ Working(r) /\ Leads(r)
  /\ Target(r) \in Ids /\ Instance \in Ids
  /\ pc[r] \in Unstarted => note[r] = "none" /\ run[r] = "none"

\* Whoever acts is the only one under way.
LEMMA ActsAlone ==
  ASSUME IInv, SerialInv, NEW r \in Tokens, Working(r)
  PROVE  Acts(r)
<1>1. TypeOK /\ StoreTypeOK /\ Fits(r) /\ Started(r)
  BY DEF IInv, JobInv, TypeOK
<1>2. Leads(r) /\ OwnInv(r)
  BY DEF SerialInv, Alone, Leads, OwnInv
<1>3. Target(r) \in Ids /\ Instance \in Ids
  BY <1>1, Contents DEF Ids
<1>4. QED
  BY <1>1, <1>2, <1>3 DEF Acts, Started

\* A handler's step and what it writes: not the invariant's statements about the
\* store, which each of its calls has its own reason to keep.
LEMMA HandlerLeads ==
  ASSUME IInv, SerialInv, NEW r \in Tokens, HandlerStep(r)
  PROVE  /\ Acts(r) /\ OnlyMoves(r)
         /\ Op(r)' = Op(r) /\ Target(r)' = Target(r) /\ read' = read
         /\ pc'[r] # "restart" /\ Fresh(r)' /\ Ways(r)' /\ Calm(r)'
<1>1. Fits(r) /\ TypeOK
  BY DEF IInv, JobInv
<1>2. /\ HandlerMoves(r)
      /\ UNCHANGED <<run, note>> \/ RecordsJob(r)
  BY <1>1, ReadingMoves, WritingMoves, SetupMoves DEF HandlerStep, RecordsJob
<1>3. Acts(r)
  BY <1>2, ActsAlone DEF HandlerMoves, Working
<1>4. /\ Op(r)' = Op(r) /\ Target(r)' = Target(r) /\ read' = read
      /\ pc'[r] \notin {"idle", "restart"}
      /\ \A t \in Tokens \ {r} : pc'[t] = pc[t] /\ held'[t] = held[t]
  BY <1>1, <1>2 DEF HandlerMoves, PcMoves, HeldMoves, TypeOK, Op, Target
<1>5. \A t \in Tokens \ {r} : run'[t] = run[t] /\ note'[t] = note[t]
  BY <1>1, <1>2 DEF RecordsJob, TypeOK
<1>6. \/ \E id \in Ids, lock \in {"instanceLock", "bindingLock", "none"} : Touches(Handler(r), id, lock)
      \/ Leaves(Handler(r))
      \/ /\ UNCHANGED stale
         /\ pc[r] \notin {"save", "key", "list", "unlist", "setup", "setup skipped"}
  <2>1. CASE \/ CheckProvision(r) \/ CheckUpdate(r) \/ CheckDeprovision(r) \/ FindBind(r)
             \/ FindUnbind(r) \/ CheckUnbind(r) \/ RereadUnbind(r) \/ JobReturned(r)
             \/ DropProvisionSecret(r) \/ CopySecret(r) \/ DropBindingSecret(r)
    BY <2>1 DEF CheckProvision, CheckUpdate, CheckDeprovision, FindBind, FindUnbind, CheckUnbind,
                RereadUnbind, JobReturned, DropProvisionSecret, CopySecret, DropBindingSecret,
                Reading, At
  <2>2. CASE \/ SaveInstance(r) \/ SaveBinding(r) \/ SaveKey(r) \/ SetupJob(r) \/ ListBinding(r)
             \/ DropBinding(r) \/ UnlistBinding(r)
    BY <1>3, <2>2 DEF SaveInstance, SaveBinding, SaveKey, SetupJob, ListBinding, DropBinding,
                      UnlistBinding, StoresBinding, Refused, At, Acts
  <2>3. QED
    BY <2>1, <2>2 DEF HandlerStep
<1>7. /\ Handler(r) \notin stale'
      /\ Job(r) \in stale' => Job(r) \in stale \/ WritesOf(Job(r)) # <<>>
      /\ \A t \in Tokens \ {r} :
           /\ Handler(t) \in stale' => Handler(t) \in stale
           /\ Job(t) \in stale' => Job(t) \in stale
  <2>1. CASE UNCHANGED stale /\ pc[r] \notin {"save", "key", "list", "unlist", "setup", "setup skipped"}
    BY <1>3, <2>1 DEF Acts, OwnInv, Calm
  <2>2. CASE \/ \E id \in Ids, lock \in {"instanceLock", "bindingLock", "none"} : Touches(Handler(r), id, lock)
             \/ Leaves(Handler(r))
    BY <1>3, <2>2, StaleAlone DEF Acts
  <2>3. QED
    BY <1>6, <2>1, <2>2
<1>8. OnlyMoves(r)
  <2>1. UNCHANGED <<req, outcome, phase>>
    BY <1>2 DEF HandlerMoves, processVars
  <2>2. ASSUME NEW t \in Tokens \ {r}
        PROVE  /\ req'[t] = req[t] /\ pc'[t] = pc[t] /\ held'[t] = held[t]
               /\ run'[t] = run[t] /\ outcome'[t] = outcome[t] /\ note'[t] = note[t]
    BY <1>4, <1>5, <2>1
  <2>3. QED
    BY <1>7, <2>1, <2>2, Zenon DEF OnlyMoves
<1>9. Fresh(r)'
  <2>1. outcome'[r] = outcome[r] /\ (run'[r] = run[r] \/ run[r] = "none")
    BY <1>1, <1>2, <1>3 DEF HandlerMoves, RecordsJob, Acts
  <2>2. QED
    BY <1>3, <1>4, <2>1 DEF Fresh, Acts, OwnInv
<1>10. Op(r) = "unbind" /\ note[r] # "none" => JobReturned(r) /\ pc[r] = "wait"
  <2>1. ASSUME Op(r) = "unbind", note[r] # "none"
        PROVE  pc[r] = "wait"
    BY <1>2, <1>3, <2>1 DEF Acts, OwnInv, Ways, HandlerMoves
  <2>2. QED
    BY <2>1 DEF HandlerStep, CheckProvision, CheckUpdate, CheckDeprovision, FindBind, FindUnbind,
                CheckUnbind, RereadUnbind, DropProvisionSecret, CopySecret, DropBindingSecret,
                SaveInstance, SaveBinding, SaveKey, SetupJob, ListBinding, DropBinding,
                UnlistBinding, At
<1>11. Ways(r)'
  <2>1. CASE UNCHANGED <<run, note>>
    <3>1. Op(r) = "unbind" /\ note[r] # "none" => pc'[r] = "done"
      BY <1>1, <1>10 DEF JobReturned, Answers, AnswersFor, Goes, TypeOK
    <3>2. QED
      BY <1>3, <1>4, <2>1, <3>1 DEF Ways, Acts, OwnInv
  <2>2. CASE RecordsJob(r)
    <3>1. note'[r] \in {"progress", "final"}
      BY <1>1, <2>2 DEF RecordsJob, TypeOK
    <3>2. pc[r] \in Unstarted /\ pc'[r] \notin Unstarted
      BY <2>2 DEF RecordsJob
    <3>3. SetupJob(r)
      <4>1. note'[r] # note[r]
        BY <1>3, <3>1, <3>2 DEF Acts
      <4>2. QED
        BY <1>1, <4>1, ReadingMoves, WritingMoves DEF HandlerStep
    <3>4. Op(r) = "unbind" => pc'[r] \in {"wait", "done"}
      BY <1>1, <3>3 DEF SetupJob, Goes, Answers, AnswersFor, TypeOK
    <3>5. QED
      BY <1>4, <3>1, <3>4 DEF Ways
  <2>3. QED
    BY <1>2, <2>1, <2>2
<1>12. Calm(r)'
  <2>1. Job(r) \in stale' => note[r] \in {"progress", "final", "failed", "unlist", "url"}
    BY <1>3, <1>7, WritesNothing DEF Acts, OwnInv, Calm
  <2>2. CASE RecordsJob(r)
    BY <1>3, <1>7, <2>1, <2>2 DEF Calm, RecordsJob, Acts, Handler, Job
  <2>3. CASE UNCHANGED <<run, note>>
    <3>1. Op(r) = "unbind" => Job(r) \notin stale'
      <4>1. CASE note[r] = "none"
        BY <2>1, <4>1
      <4>2. CASE note[r] # "none"
        BY <1>3, <1>10, <4>2 DEF JobReturned, Reading, Acts, OwnInv, Calm
      <4>3. QED
        BY <4>1, <4>2
    <3>2. QED
      BY <1>4, <1>7, <2>1, <2>3, <3>1 DEF Calm, Handler, Job
  <2>4. QED
    BY <1>2, <2>2, <2>3
<1>13. QED
  BY <1>3, <1>4, <1>8, <1>9, <1>11, <1>12

\* Neither records nor lists change: what they say of each other stays.
LEMMA ListsStill ==
  ASSUME SerialInv, NEW r \in Tokens, OnlyMoves(r), Target(r)' = Target(r),
         UNCHANGED <<objects, listed>>, Instance \in secrets' => Instance \in secrets,
         "unlist" \in {pc[r], note[r]} => "unlist" \in {pc'[r], note'[r]},
         note[r] = "secret" => note'[r] = "secret" \/ Instance \notin secrets'
  PROVE  ListedThere' /\ SecretThere'
<1>1. \A t \in Tokens \ {r} :
        pc'[t] = pc[t] /\ note'[t] = note[t] /\ Target(t)' = Target(t)
  BY DEF OnlyMoves, Target
<1>2. ListedThere'
  <2>1. SUFFICES ASSUME NEW b \in listed'
                 PROVE  (b \in objects \/ \E t \in Tokens : b = Target(t) /\ "unlist" \in {pc[t], note[t]})'
    BY DEF ListedThere
  <2>2. CASE b \in objects
    BY <2>2
  <2>3. ASSUME NEW t \in Tokens, b = Target(t), "unlist" \in {pc[t], note[t]}
        PROVE  b = Target(t)' /\ "unlist" \in {pc'[t], note'[t]}
    BY <1>1, <2>3
  <2>4. QED
    BY <2>2, <2>3 DEF SerialInv, ListedThere
<1>3. SecretThere'
  BY <1>1 DEF SerialInv, SecretThere
<1>4. QED
  BY <1>2, <1>3

\* The handler reads.
LEMMA HandlerReads ==
  ASSUME IInv, SerialInv, NEW r \in Tokens,
         \/ CheckProvision(r) \/ CheckUpdate(r) \/ CheckDeprovision(r) \/ FindBind(r)
         \/ FindUnbind(r) \/ CheckUnbind(r) \/ RereadUnbind(r) \/ JobReturned(r)
  PROVE  SerialInv' /\ Changes(r)
<1>1. /\ Acts(r) /\ OnlyMoves(r) /\ Op(r)' = Op(r) /\ Target(r)' = Target(r) /\ read' = read
      /\ pc'[r] # "restart" /\ Fresh(r)' /\ Ways(r)' /\ Calm(r)'
  BY HandlerLeads DEF HandlerStep
<1>2. UNCHANGED <<objects, listed, marked, secrets, note>> /\ pc[r] # "unlist"
  BY DEF CheckProvision, CheckUpdate, CheckDeprovision, FindBind, FindUnbind, CheckUnbind,
         RereadUnbind, JobReturned, Reading, At, storeVars, jobVars
<1>3. ListedThere' /\ SecretThere'
  BY <1>1, <1>2, ListsStill
<1>4. There(r) /\ InStep(r) /\ Fits(r) /\ TypeOK
  BY <1>1 DEF Acts, OwnInv
<1>5. pc[r] \in Unstarted /\ pc'[r] = "done" => ~Working(r)'
  BY <1>1, <1>2 DEF Acts, Working
<1>6. pc[r] \notin {"idle", "done"}
  BY DEF CheckProvision, CheckUpdate, CheckDeprovision, FindBind, FindUnbind, CheckUnbind,
         RereadUnbind, JobReturned, At
<1> USE DEF At, Goes, Answers, AnswersFor, AnswersInProgress, Reading, requestVars
<1>7. Working(r)' => There(r)' /\ InStep(r)'
  <2>1. CASE CheckProvision(r)
    <3>1. pc[r] \in Unstarted /\ pc'[r] = "done"
      BY <1>4, <2>1 DEF CheckProvision, TypeOK, Unstarted
    <3>2. QED
      BY <1>5, <3>1
  <2>2. CASE CheckUpdate(r)
    <3>1. pc[r] \in Unstarted /\ pc'[r] \in {"done", "save"} /\ held' = held /\ Op(r) = "update"
      BY <1>4, <2>2 DEF CheckUpdate, TypeOK, Unstarted
    <3>2. QED
      BY <1>1, <1>2, <1>4, <1>6, <3>1 DEF There, InStep, Working
  <2>3. CASE CheckDeprovision(r)
    <3>1. /\ pc[r] = "check" /\ Op(r) = "deprovision" /\ held' = held
          /\ \/ pc'[r] = "done"
             \/ pc'[r] \in {"setup", "setup skipped"} /\ held[r].listed = {}
      BY <1>4, <2>3 DEF CheckDeprovision, validateDeprovision, TypeOK
    <3>2. held[r].listed = listed
      BY <1>4, <1>6, <3>1 DEF InStep, Working
    <3>3. CASE pc'[r] = "done"
      BY <1>5, <3>1, <3>3 DEF Unstarted
    <3>4. QED
      BY <1>1, <1>2, <1>4, <1>6, <3>1, <3>2, <3>3 DEF There, InStep, Working
  <2>4. CASE FindBind(r)
    <3>1. /\ pc[r] = "find" /\ pc'[r] \in {"done", "save"} /\ Op(r) = "bind"
      BY <1>4, <2>4 DEF FindBind, TypeOK
    <3>2. held'[r].listed = held[r].listed /\ held'[r].marked = held[r].marked
      <4>1. PICK creds \in BOOLEAN : held' = [held EXCEPT ![r].creds = creds]
        <5>1. (Instance \in secrets) \in BOOLEAN
          OBVIOUS
        <5>2. held' = [held EXCEPT ![r].creds = (Instance \in secrets)]
          BY <2>4 DEF FindBind
        <5>3. QED
          BY <5>1, <5>2, Zenon
      <4>2. held \in [Tokens -> HeldCopies]
        BY <1>4 DEF TypeOK
      <4>3. QED
        BY <4>1, <4>2 DEF HeldCopies
    <3>3. CASE pc'[r] = "done"
      BY <1>5, <3>1, <3>3 DEF Unstarted
    <3>4. QED
      BY <1>1, <1>2, <1>4, <1>6, <3>1, <3>2, <3>3 DEF There, InStep, Working
  <2>5. CASE FindUnbind(r) \/ CheckUnbind(r)
    <3>1. held' = held /\ Op(r) = "unbind"
      BY <2>5 DEF FindUnbind, CheckUnbind
    <3>2. QED
      BY <1>1, <1>2, <1>4, <1>6, <3>1 DEF There, InStep, Working
  <2>6. CASE RereadUnbind(r)
    <3>1. Op(r) = "unbind" /\ (held' = held \/ held'[r].listed = listed)
      <4>1. Hold(GetServiceInstance, FALSE).listed = listed
        BY DEF Hold, GetServiceInstance
      <4>2. held \in [Tokens -> HeldCopies]
        BY <1>4 DEF TypeOK
      <4>3. held' = held \/ held' = [held EXCEPT ![r] = Hold(GetServiceInstance, FALSE)]
        BY <2>6 DEF RereadUnbind, HoldsInstance
      <4>4. QED
        BY <2>6, <4>1, <4>2, <4>3 DEF RereadUnbind
    <3>2. listed \ {Target(r)} \subseteq objects
      BY <1>1, ListedNow DEF Acts
    <3>3. QED
      BY <1>1, <1>2, <1>4, <1>6, <3>1, <3>2 DEF There, InStep, Working
  <2>7. CASE JobReturned(r)
    <3>1. /\ pc[r] = "wait" /\ pc'[r] \in {"done", "secret", "list"} /\ held' = held
      BY <1>4, <2>7 DEF JobReturned, TypeOK
    <3>2. QED
      BY <1>1, <1>2, <1>4, <1>6, <3>1 DEF There, InStep, Working
  <2>8. QED
    BY <2>1, <2>2, <2>3, <2>4, <2>5, <2>6, <2>7
<1>8. OwnInv(r)'
  BY <1>1, <1>7 DEF OwnInv, There, InStep
<1>9. QED
  BY <1>1, <1>2, <1>3, <1>8, OneSerial DEF Acts, Changes

\* The handler writes neither records nor lists: it records its job, or copies or
\* deletes credentials, or stores again the binding that is there, or its write is
\* refused.
LEMMA HandlerLeavesLists ==
  ASSUME IInv, SerialInv, NEW r \in Tokens,
         \/ SetupJob(r) \/ DropProvisionSecret(r) \/ CopySecret(r) \/ DropBindingSecret(r)
         \/ SaveKey(r)
         \/ (SaveInstance(r) \/ ListBinding(r)) /\ Refused(r, "error")
         \/ DropBinding(r) /\ Target(r) \notin objects
  PROVE  SerialInv' /\ Changes(r)
<1>1. /\ Acts(r) /\ OnlyMoves(r) /\ Op(r)' = Op(r) /\ Target(r)' = Target(r) /\ read' = read
      /\ pc'[r] # "restart" /\ Fresh(r)' /\ Ways(r)' /\ Calm(r)'
  BY HandlerLeads DEF HandlerStep
<1>2. There(r) /\ InStep(r) /\ Fits(r) /\ TypeOK /\ Working(r)
  BY <1>1 DEF Acts, OwnInv
<1>3. /\ UNCHANGED <<objects, listed, marked>> /\ (Instance \in secrets' => Instance \in secrets)
      /\ UNCHANGED held
      /\ \/ pc[r] \in Unstarted /\ pc'[r] = "done" /\ note' = note
         \/ {pc[r], pc'[r]} \intersect {"find", "save", "check"} = {}
      /\ pc[r] # "unlist"
      /\ note' = note \/ (note[r] = "none" /\ note'[r] \in {"progress", "final"})
  <2> USE DEF At, Goes, Answers, AnswersFor, HandlerWrites, requestVars, jobVars
  <2>1. CASE SetupJob(r)
    <3>1. CASE /\ pc[r] \in {"setup", "setup skipped"}
               /\ SetState(Target(r), r, "not yet started", Op(r))
               /\ JobStarts(r, IF pc[r] = "setup" THEN "running" ELSE "skipping")
               /\ \/ AnswersFor(r, "accepted", r)
                  \/ Goes(r, "key")
                  \/ Goes(r, "wait")
               /\ UNCHANGED <<requestVars, processVars>>
      <4>1. UNCHANGED <<objects, listed, marked, secrets, held>>
        BY <3>1, StateStored
      <4>2. note[r] = "none" /\ note'[r] \in {"progress", "final"}
        BY <1>1, <1>2, <3>1 DEF Acts, Unstarted, JobStarts, Notes, TypeOK
      <4>3. pc'[r] \in {"done", "key", "wait"}
        BY <1>2, <3>1 DEF TypeOK
      <4>4. QED
        BY <3>1, <4>1, <4>2, <4>3
    <3>2. CASE /\ pc[r] \in {"setup", "setup skipped"}
               /\ Answers(r, "error")
               /\ UNCHANGED storeVars
               /\ HandlerWrites(r)
      BY <1>2, <3>2 DEF TypeOK, storeVars
    <3>3. QED
      BY <2>1, <3>1, <3>2 DEF SetupJob
  <2>2. CASE DropProvisionSecret(r) \/ DropBindingSecret(r)
    BY <1>2, <2>2 DEF DropProvisionSecret, DropBindingSecret, DeleteSecret, TypeOK
  <2>3. CASE CopySecret(r)
    <3>1. Target(r) # Instance
      BY <1>2, <2>3 DEF CopySecret, Fits, BindMethods
    <3>2. pc[r] = "secret" /\ pc'[r] \in {"done", "list"}
      BY <1>2, <2>3 DEF CopySecret, TypeOK
    <3>3. QED
      BY <2>3, <3>1, <3>2 DEF CopySecret, CreateSecret, storeVars
  <2>4. CASE SaveKey(r)
    <3>1. Op(r) = "bind" /\ pc[r] = "key" /\ Target(r) \in objects /\ Target(r) \in Ids
      BY <1>1, <1>2, <2>4 DEF SaveKey, There, Acts
    <3>2. UNCHANGED <<objects, listed, marked, secrets>>
      <4>1. \/ SetBindInstance(Target(r), req[r].params, r)
            \/ UNCHANGED storeVars
        BY <2>4 DEF SaveKey, StoresBinding
      <4>2. CASE SetBindInstance(Target(r), req[r].params, r)
        <5>1. /\ objects' = objects \union {Target(r)}
              /\ UNCHANGED <<listed, marked, secrets>>
          BY <4>2 DEF SetBindInstance, Crd!SetBindInstance, Etcd!SetBindInstance
        <5>2. QED
          BY <3>1, <5>1
      <4>3. QED
        BY <4>1, <4>2 DEF storeVars
    <3>3. pc'[r] = "done"
      BY <1>2, <2>4 DEF SaveKey, StoresBinding, TypeOK
    <3>4. QED
      BY <2>4, <3>1, <3>2, <3>3 DEF SaveKey
  <2>5. CASE (SaveInstance(r) \/ ListBinding(r)) /\ Refused(r, "error")
    <3>1. pc[r] \in {"save", "list"} /\ pc'[r] = "done" /\ UNCHANGED <<storeVars, held, note>>
      BY <1>2, <2>5 DEF Refused, SaveInstance, ListBinding, TypeOK
    <3>2. QED
      BY <3>1 DEF storeVars, Unstarted
  <2>6. CASE DropBinding(r) /\ Target(r) \notin objects
    <3>1. ~DeleteObject(Target(r))
      BY <2>6 DEF DeleteObject, Crd!DeleteObject, Etcd!DeleteObject
    <3>2. pc[r] = "drop" /\ pc'[r] = "done" /\ UNCHANGED <<storeVars, held, note>>
      BY <1>2, <2>6, <3>1 DEF DropBinding, TypeOK
    <3>3. QED
      BY <3>2 DEF storeVars, Unstarted
  <2>7. QED
    BY <2>1, <2>2, <2>3, <2>4, <2>5, <2>6
<1>4. ListedThere' /\ SecretThere'
  BY <1>1, <1>3, ListsStill
<1>5. Working(r)' => There(r)' /\ InStep(r)'
  <2>1. CASE pc[r] \in Unstarted /\ pc'[r] = "done" /\ note' = note
    BY <1>1, <2>1 DEF Acts, Working
  <2>2. CASE {pc[r], pc'[r]} \intersect {"find", "save", "check"} = {}
    <3>1. pc[r] \notin {"find", "save", "check"} /\ pc'[r] \notin {"find", "save", "check"}
      BY <2>2
    <3>2. note'[r] = note[r] \/ note'[r] \in {"progress", "final"}
      BY <1>3
    <3>3. There(r)'
      BY <1>1, <1>2, <1>3, <3>1 DEF There
    <3>4. InStep(r)'
      BY <1>1, <1>2, <1>3, <3>1, <3>2 DEF InStep
    <3>5. QED
      BY <3>3, <3>4
  <2>3. QED
    BY <1>3, <2>1, <2>2
<1>6. OwnInv(r)'
  BY <1>1, <1>5 DEF OwnInv, There, InStep
<1>7. QED
  BY <1>1, <1>3, <1>4, <1>6, OneSerial DEF Acts, Changes

\* The handler writes records or lists.
LEMMA HandlerStores ==
  ASSUME IInv, SerialInv, NEW r \in Tokens,
         \/ SaveInstance(r) \/ SaveBinding(r) \/ ListBinding(r) \/ DropBinding(r)
         \/ UnlistBinding(r)
  PROVE  SerialInv' /\ Changes(r)
<1>1. /\ Acts(r) /\ OnlyMoves(r) /\ Op(r)' = Op(r) /\ Target(r)' = Target(r) /\ read' = read
      /\ pc'[r] # "restart" /\ Fresh(r)' /\ Ways(r)' /\ Calm(r)'
  BY HandlerLeads DEF HandlerStep
<1>2. There(r) /\ InStep(r) /\ Fits(r) /\ TypeOK /\ StoreTypeOK /\ Working(r) /\ Leads(r)
  BY <1>1 DEF Acts, OwnInv
<1>3. UNCHANGED <<held, note>>
  BY DEF SaveInstance, SaveBinding, ListBinding, DropBinding, UnlistBinding, HandlerWrites,
         requestVars, jobVars
<1>4. /\ held[r] \in HeldCopies /\ held[r].listed \subseteq Bindings /\ held[r].marked \subseteq Bindings
      /\ held[r].params \in Params \union {NoParams} /\ req[r].params \in Params \union {NoParams}
      /\ Target(r) \in Ids
  BY <1>2, Contents
<1>5. ASSUME There(r)', InStep(r)', ListedThere', SecretThere'
      PROVE  SerialInv'
  BY <1>1, <1>5, OneSerial DEF OwnInv, Acts
<1>6. ASSUME listed' \subseteq objects'
      PROVE  ListedThere'
  BY <1>6 DEF ListedThere
<1>7. ASSUME objects \intersect {Instance} \subseteq objects', secrets' = secrets
      PROVE  SecretThere'
  <2>1. \A t \in Tokens : note[t] = "secret" => note'[t] = "secret"
    BY <1>3
  <2>2. QED
    BY <1>7, <2>1 DEF SerialInv, SecretThere
<1> USE DEF At, Goes, Answers
<1>8. CASE SaveInstance(r)
  <2>1. CASE Refused(r, "error")
    BY <1>8, <2>1, HandlerLeavesLists
  <2>2. CASE SetServiceInstance(held[r], req[r].params) /\ Goes(r, "setup")
    <3>1. pc[r] = "save" /\ Op(r) \in {"provision", "update"} /\ pc'[r] = "setup" /\ note[r] = "none"
      BY <1>1, <1>2, <1>8, <2>2 DEF SaveInstance, Acts, Unstarted, TypeOK
    <3>2. /\ Instance \in objects \/ held[r].marked = {}
          /\ held[r].listed \subseteq objects
          /\ listed \subseteq objects
      BY <1>2, <3>1, ListedNow DEF There, InStep
    <3>3. /\ objects' = objects \union {Instance} /\ secrets' = secrets
          /\ \A b \in listed' : b \in held[r].listed \/ (b \in listed /\ b \notin held[r].marked)
      BY <1>2, <1>4, <2>2, <3>2, InstanceUpdated
    <3>4. There(r)' /\ InStep(r)'
      BY <1>1, <1>2, <1>3, <3>1, <3>2, <3>3 DEF There, InStep
    <3>5. Changes(r)
      <4>1. outcome[r] = "none" /\ Target(r) = Instance /\ Working(r)'
        BY <1>1, <1>2, <3>1 DEF Acts, OwnInv, Fresh, Fits, BindMethods, Working, Unstarted
      <4>2. Op(r) = "provision" <=> Instance \notin objects
        BY <1>2, <3>1 DEF There
      <4>3. QED
        BY <3>1, <3>3, <4>1, <4>2 DEF Changes
    <3>6. QED
      BY <1>5, <1>6, <1>7, <3>2, <3>3, <3>4, <3>5
  <2>3. QED
    BY <1>8, <2>1, <2>2 DEF SaveInstance
<1>9. CASE SaveBinding(r)
  <2>1. pc[r] = "save" /\ Op(r) = "bind" /\ note[r] = "none" /\ Handler(r) \notin stale
    BY <1>1, <1>2, <1>9 DEF SaveBinding, Acts, Unstarted, OwnInv, Calm
  <2>2. SetBindInstance(Target(r), req[r].params, NoToken) /\ pc'[r] \in {"setup", "secret"}
    BY <1>2, <1>9, <2>1 DEF SaveBinding, StoresBinding, TypeOK
  <2>3. objects' = objects \union {Target(r)} /\ UNCHANGED <<listed, marked, secrets>>
    BY <2>2 DEF SetBindInstance, Crd!SetBindInstance, Etcd!SetBindInstance
  <2>4. listed \subseteq objects /\ held[r].listed \subseteq objects /\ Instance \in objects
    BY <1>2, <2>1, ListedNow DEF There, InStep
  <2>5. There(r)' /\ InStep(r)'
    BY <1>1, <1>2, <1>3, <2>1, <2>2, <2>3, <2>4 DEF There, InStep
  <2>6. Changes(r)
    <3>1. outcome[r] = "none" /\ Working(r)'
      BY <1>1, <2>1, <2>2 DEF Acts, OwnInv, Fresh, Working, Unstarted
    <3>2. QED
      BY <2>1, <2>3, <3>1 DEF Changes
  <2>7. QED
    BY <1>5, <1>6, <1>7, <2>3, <2>4, <2>5, <2>6
<1>10. CASE ListBinding(r)
  <2>1. CASE Refused(r, "error")
    BY <1>10, <2>1, HandlerLeavesLists
  <2>2. CASE /\ SetServiceInstance(AddBinding(held[r], Target(r)), held[r].params)
             /\ Answers(r, IF held[r].creds THEN "done" ELSE "error")
    <3>1. pc[r] = "list" /\ Op(r) = "bind" /\ pc'[r] = "done" /\ Target(r) \in Bindings
      BY <1>2, <1>10, <2>2 DEF ListBinding, Fits, BindMethods, AnswersFor, TypeOK
    <3>2. /\ Instance \in objects /\ Target(r) \in objects /\ held[r].listed \subseteq objects
          /\ listed \subseteq objects
      BY <1>2, <3>1, ListedNow DEF There, InStep, Fits
    <3>3. /\ AddBinding(held[r], Target(r)).listed = held[r].listed \union {Target(r)}
          /\ AddBinding(held[r], Target(r)).marked = held[r].marked \ {Target(r)}
      BY <1>4 DEF AddBinding, HeldCopies
    <3>4. /\ objects' = objects /\ secrets' = secrets
          /\ \A b \in listed' : b \in held[r].listed \/ b = Target(r) \/ b \in listed
      <4>1. /\ AddBinding(held[r], Target(r)).listed \subseteq Bindings
            /\ AddBinding(held[r], Target(r)).marked \subseteq Bindings
        BY <1>4, <3>1, <3>3
      <4>2. /\ StoreTypeOK /\ held[r].params \in Params \union {NoParams} /\ Instance \in objects
            /\ SetServiceInstance(AddBinding(held[r], Target(r)), held[r].params)
        BY <1>2, <1>4, <2>2, <3>2
      <4>3. /\ objects' = objects \union {Instance} /\ secrets' = secrets
            /\ \A b \in listed' : \/ b \in AddBinding(held[r], Target(r)).listed
                                  \/ b \in listed
        BY ONLY <4>1, <4>2, InstanceUpdated
      <4>4. QED
        BY <3>2, <3>3, <4>3
    <3>5. There(r)' /\ InStep(r)'
      BY <1>1, <1>2, <1>3, <3>1, <3>2, <3>4 DEF There, InStep
    <3>6. QED
      BY <1>5, <1>6, <1>7, <3>2, <3>4, <3>5 DEF Changes
  <2>3. QED
    BY <1>10, <2>1, <2>2 DEF ListBinding
<1>11. CASE DropBinding(r)
  <2>1. CASE Target(r) \notin objects
    BY <1>11, <2>1, HandlerLeavesLists
  <2>2. CASE DeleteObject(Target(r)) /\ Goes(r, "unlist")
    <3>1. /\ pc[r] = "drop" /\ Op(r) = "unbind" /\ pc'[r] = "unlist" /\ note[r] = "none"
          /\ Target(r) \in Bindings /\ Target(r) # Instance
      BY <1>1, <1>2, <1>11, <2>2 DEF DropBinding, Acts, OwnInv, Ways, Fits, BindMethods, TypeOK
    <3>2. objects' = objects \ {Target(r)} /\ UNCHANGED <<listed, marked, secrets>>
      BY <1>4, <2>2, <3>1, RecordDeleted
    <3>3. listed \ {Target(r)} \subseteq objects /\ Instance \in objects
      BY <1>2, <3>1, ListedNow DEF There
    <3>4. There(r)' /\ InStep(r)'
      BY <1>1, <1>2, <1>3, <3>1, <3>2, <3>3 DEF There, InStep
    <3>5. ListedThere'
      BY <1>1, <3>1, <3>2, <3>3 DEF ListedThere
    <3>6. Changes(r)
      BY <1>2, <3>1, <3>2 DEF Changes, Fits, Working
    <3>7. QED
      BY <1>5, <1>7, <3>1, <3>2, <3>3, <3>4, <3>5, <3>6
  <2>3. QED
    BY <1>11, <2>1, <2>2 DEF DropBinding
<1>12. CASE UnlistBinding(r)
  <2>1. /\ pc[r] = "unlist" /\ Op(r) = "unbind" /\ Handler(r) \notin stale
        /\ note[r] = "none" /\ Target(r) \in Bindings
    BY <1>1, <1>2, <1>12 DEF UnlistBinding, Acts, OwnInv, Ways, Calm, Fits, BindMethods
  <2>2. /\ SetServiceInstance(RemoveBinding(held[r], Target(r)), held[r].params)
        /\ pc'[r] = "secret"
    BY <1>2, <1>12, <2>1 DEF UnlistBinding, Refused, TypeOK
  <2>3. Instance \in objects /\ listed \ {Target(r)} \subseteq objects /\ held[r].listed \ {Target(r)} \subseteq objects
    BY <1>2, <2>1, ListedNow DEF There, InStep
  <2>4. /\ objects' = objects /\ secrets' = secrets
        /\ \A b \in listed' : b # Target(r) /\ (b \in held[r].listed \/ b \in listed)
    BY <1>2, <1>4, <2>1, <2>2, <2>3, BindingUnlisted
  <2>5. There(r)' /\ InStep(r)'
    BY <1>1, <1>2, <1>3, <2>1, <2>2, <2>3, <2>4 DEF There, InStep
  <2>6. QED
    BY <1>5, <1>6, <1>7, <2>3, <2>4, <2>5 DEF Changes
<1>13. QED
  BY <1>8, <1>9, <1>10, <1>11, <1>12

\* Whatever a handler does.
LEMMA HandlerSerial ==
  ASSUME IInv, SerialInv, NEW r \in Tokens, HandlerStep(r)
  PROVE  SerialInv' /\ Changes(r)
<1>1. CASE \/ CheckProvision(r) \/ CheckUpdate(r) \/ CheckDeprovision(r) \/ FindBind(r)
           \/ FindUnbind(r) \/ CheckUnbind(r) \/ RereadUnbind(r) \/ JobReturned(r)
  BY <1>1, HandlerReads
<1>2. CASE \/ SetupJob(r) \/ DropProvisionSecret(r) \/ CopySecret(r) \/ DropBindingSecret(r)
           \/ SaveKey(r)
  BY <1>2, HandlerLeavesLists
<1>3. CASE \/ SaveInstance(r) \/ SaveBinding(r) \/ ListBinding(r) \/ DropBinding(r)
           \/ UnlistBinding(r)
  BY <1>3, HandlerStores
<1>4. QED
  BY <1>1, <1>2, <1>3 DEF HandlerStep

-----------------------------------------------------------------------------
(* The steps of a runner and of the subscriber.                            *)

\* A job returns; one that has published credentials of the instance was of a
\* provision.
LEMMA RunnerSerial ==
  ASSUME IInv, SerialInv, NEW r \in Tokens, RunnerStep(r)
  PROVE  /\ Acts(r) /\ OnlyMoves(r) /\ Op(r)' = Op(r) /\ Target(r)' = Target(r)
         /\ SerialInv' /\ objects' = objects
         /\ outcome[r] = "none" /\ Fared(r)' \in {"succeeded", "failed"} /\ Working(r)'
<1>1. /\ run[r] \in {"running", "skipping"} /\ UNCHANGED stale /\ RunnerSteps(r)
      /\ \E o \in {"failed", "action not found", "succeeded"} : Returns(r, o)
      /\ \/ UNCHANGED storeVars
         \/ Op(r) \in {"provision", "bind"} /\ CreateSecret(Target(r))
         \/ DeleteSecret(Target(r))
  BY DEF RunnerStep, RunnerEnds, RunnerSkips
<1>2. note[r] \in {"progress", "final"} /\ pc[r] \notin Unstarted
  BY <1>1, Underway
<1>3. Acts(r)
  BY <1>2, ActsAlone DEF Working
<1>4. TypeOK /\ There(r) /\ InStep(r) /\ Fits(r) /\ OwnInv(r) /\ Working(r)
  BY <1>3 DEF Acts, OwnInv
<1>5. UNCHANGED <<req, held, pc, note, read, phase, stale>>
  BY <1>1 DEF RunnerSteps, requestVars, processVars
<1>6. run'[r] = "returned"
  BY <1>1, <1>4 DEF Returns, TypeOK
<1>7. \A t \in Tokens \ {r} : run'[t] = run[t] /\ outcome'[t] = outcome[t]
  BY <1>1, <1>4 DEF Returns, TypeOK
<1>8. UNCHANGED <<objects, listed, marked>>
  BY <1>1 DEF storeVars, CreateSecret, DeleteSecret
<1>9. OnlyMoves(r) /\ Op(r)' = Op(r) /\ Target(r)' = Target(r)
  BY <1>5, <1>7 DEF OnlyMoves, Op, Target
<1>10. Fresh(r)'
  BY <1>2, <1>5, <1>6 DEF Fresh, Unstarted
<1>11. Ways(r)' /\ Calm(r)'
  BY <1>4, <1>5, <1>9 DEF OwnInv, Ways, Calm, Handler, Job
<1>12. There(r)' /\ InStep(r)'
  BY <1>4, <1>5, <1>8, <1>9 DEF There, InStep
<1>13. ListedThere'
  BY <1>5, <1>8 DEF SerialInv, ListedThere, Target
<1>14. SecretThere'
  <2>1. CASE Op(r) = "provision"
    <3>1. Instance \in objects
      BY <1>2, <1>4, <2>1 DEF There, Unstarted
    <3>2. QED
      BY <1>8, <3>1 DEF SecretThere
  <2>2. CASE Op(r) # "provision"
    <3>1. Op(r) = "bind" => Target(r) # Instance
      BY <1>4 DEF Fits, BindMethods
    <3>2. Instance \in secrets' => Instance \in secrets
      BY <1>1, <2>2, <3>1 DEF storeVars, CreateSecret, DeleteSecret
    <3>3. QED
      BY <1>5, <1>8, <3>2 DEF SerialInv, SecretThere
  <2>3. QED
    BY <2>1, <2>2
<1>15. OwnInv(r)'
  BY <1>4, <1>5, <1>10, <1>11, <1>12 DEF OwnInv
<1>16. SerialInv' /\ objects' = objects /\ Working(r)'
  BY <1>2, <1>3, <1>5, <1>8, <1>9, <1>13, <1>14, <1>15, OneSerial DEF Acts, Working
<1>17. outcome[r] = "none"
  BY <1>1, <1>4 DEF OwnInv, Fresh
<1>18. Fared(r)' \in {"succeeded", "failed"}
  <2>1. outcome'[r] # "none"
    BY <1>1, <1>4 DEF Returns, TypeOK
  <2>2. QED
    BY <2>1 DEF Fared, FinalState
<1>19. QED
  BY <1>3, <1>9, <1>16, <1>17, <1>18

\* A step of the subscriber and what it writes, but for the store.
LEMMA SubscriberLeads ==
  ASSUME IInv, SerialInv, NEW r \in Tokens, SubscriberStep(r)
  PROVE  /\ Acts(r) /\ OnlyMoves(r) /\ Op(r)' = Op(r) /\ Target(r)' = Target(r)
         /\ UNCHANGED <<pc, held, run, outcome>>
         /\ pc[r] \notin Unstarted /\ note[r] \notin {"none", "done"}
         /\ Fresh(r)' /\ Ways(r)' /\ Calm(r)'
<1> USE DEF SubscriberStep
<1>1. /\ SubscriberSteps(r) /\ note[r] \notin {"none", "done"}
      /\ \E call \in NotePC \ {"none"} : Notes(r, call) /\ (call = "url" => note[r] = "dashboard")
                                       /\ (call = "dashboard" => Op(r) \in {"provision", "update", "bind"})
  <2>1. CASE \/ NotifyProgress(r) \/ DeleteInstance(r) \/ DeleteInstanceSecret(r)
             \/ RecordCleanupFailure(r) \/ ReadInstance(r) \/ ReadBinding(r) \/ DeleteBinding(r)
             \/ UnlistAfterUnbind(r) \/ ReadForDashboard(r) \/ SaveDashboard(r)
    <3>1. /\ SubscriberSteps(r) /\ note[r] \notin {"none", "done"}
          /\ \/ \E call \in {"final", "secret", "failed", "done", "binding", "drop", "unlist"} : Notes(r, call)
             \/ note[r] = "dashboard" /\ Notes(r, "url")
      <4>1. CASE NotifyProgress(r) \/ RecordCleanupFailure(r)
        BY <4>1 DEF NotifyProgress, RecordCleanupFailure
      <4>2. CASE DeleteInstance(r) \/ DeleteInstanceSecret(r)
        BY <4>2 DEF DeleteInstance, DeleteInstanceSecret
      <4>3. CASE ReadInstance(r) \/ ReadBinding(r) \/ DeleteBinding(r)
        BY <4>3 DEF ReadInstance, ReadBinding, DeleteBinding
      <4>4. CASE UnlistAfterUnbind(r) \/ ReadForDashboard(r) \/ SaveDashboard(r)
        BY <4>4 DEF UnlistAfterUnbind, ReadForDashboard, SaveDashboard
      <4>5. QED
        BY <2>1, <4>1, <4>2, <4>3, <4>4
    <3>2. QED
      BY <3>1 DEF NotePC
  <2>2. CASE NotifyFinal(r)
    <3>1. CleanUp(r) \in {"done", "delete", "instance"}
      BY Zenon DEF CleanUp
    <3>2. CleanUp(r) = "done" /\ outcome[r] = "succeeded" => Op(r) \notin {"deprovision", "unbind"}
      <4>1. outcome[r] = "succeeded" => FinalState(r) = "succeeded"
        BY DEF FinalState
      <4>2. QED
        BY <4>1, Zenon DEF CleanUp
    <3>3. Op(r) \in Dashboards => Op(r) \in Methods
      OBVIOUS
    <3>4. QED
      BY <2>2, <3>1, <3>2, <3>3 DEF NotifyFinal, NotePC, Methods
  <2>3. QED
    BY <2>1, <2>2
<1>2. Acts(r)
  BY <1>1, ActsAlone DEF Working
<1>3. TypeOK /\ OwnInv(r) /\ Started(r)
  BY <1>2 DEF Acts, IInv, JobInv
<1>4. UNCHANGED <<req, held, pc, run, outcome, phase>>
  BY <1>1 DEF SubscriberSteps, requestVars, processVars
<1>5. PICK call \in NotePC \ {"none"} :
        /\ note'[r] = call /\ \A t \in Tokens \ {r} : note'[t] = note[t]
        /\ call = "url" => note[r] = "dashboard"
        /\ call = "dashboard" => Op(r) \in {"provision", "update", "bind"}
  BY <1>1, <1>3 DEF Notes, TypeOK
<1>6. Op(r)' = Op(r) /\ Target(r)' = Target(r)
  BY <1>4 DEF Op, Target
<1>7. pc[r] \notin Unstarted
  BY <1>1, <1>3 DEF Started
<1>8. /\ Job(r) \notin stale'
      /\ Handler(r) \in stale' => Handler(r) \in stale \/ WritesOf(Handler(r)) # <<>>
      /\ \A t \in Tokens \ {r} :
           /\ Handler(t) \in stale' => Handler(t) \in stale
           /\ Job(t) \in stale' => Job(t) \in stale
  <2>1. CASE UNCHANGED stale /\ note[r] \notin {"progress", "final", "failed", "unlist", "url"}
    BY <1>3, <2>1 DEF OwnInv, Calm
  <2>2. CASE \/ \E id \in Ids, lock \in {"instanceLock", "bindingLock", "none"} : Touches(Job(r), id, lock)
             \/ Leaves(Job(r))
    BY <1>2, <2>2, StaleAlone DEF Acts
  <2>3. CASE NotifyProgress(r) \/ NotifyFinal(r) \/ RecordCleanupFailure(r)
    BY <1>2, <2>2, <2>3 DEF NotifyProgress, NotifyFinal, RecordCleanupFailure, RecordsState, StateLost, Acts
  <2>4. CASE \/ DeleteInstance(r) \/ DeleteInstanceSecret(r) \/ ReadInstance(r) \/ ReadBinding(r)
             \/ DeleteBinding(r) \/ ReadForDashboard(r)
    BY <1>2, <2>1, <2>2, <2>4 DEF DeleteInstance, DeleteInstanceSecret, ReadInstance, ReadBinding,
                                  DeleteBinding, ReadForDashboard, Acts
  <2>5. CASE UnlistAfterUnbind(r) \/ SaveDashboard(r)
    BY <1>2, <2>2, <2>5 DEF UnlistAfterUnbind, SaveDashboard, NoteRefused, Acts
  <2>6. QED
    BY <2>3, <2>4, <2>5
<1>9. OnlyMoves(r)
  <2>1. \A t \in Tokens \ {r} : note'[t] = note[t]
    BY <1>5
  <2>2. QED
    BY <1>4, <1>8, <2>1, Zenon DEF OnlyMoves
<1>10. Fresh(r)'
  BY <1>3, <1>4 DEF OwnInv, Fresh
<1>11. Ways(r)'
  BY <1>1, <1>3, <1>4, <1>5, <1>6 DEF OwnInv, Ways
<1>12. Calm(r)'
  <2>1. Handler(r)' = Handler(r) /\ Job(r)' = Job(r)
    BY DEF Handler, Job
  <2>2. Handler(r) \in stale' => pc[r] \in {"save", "key", "list", "unlist", "setup", "setup skipped"}
    BY <1>3, <1>8, WritesNothing DEF OwnInv, Calm
  <2>3. Op(r) = "unbind" => Handler(r) \notin stale'
    <3>1. ASSUME Op(r) = "unbind"
          PROVE  pc[r] \in {"wait", "done"} /\ Handler(r) \notin stale
      BY <1>1, <1>3, <3>1 DEF OwnInv, Ways, Calm
    <3>2. QED
      BY <2>2, <3>1
  <2>4. QED
    BY <1>4, <1>5, <1>6, <1>8, <2>1, <2>2, <2>3 DEF Calm
<1>13. QED
  BY <1>1, <1>2, <1>4, <1>6, <1>7, <1>9, <1>10, <1>11, <1>12

\* The subscriber writes neither records nor lists, and reads no instance.
LEMMA SubscriberLeavesLists ==
  ASSUME IInv, SerialInv, NEW r \in Tokens,
         \/ NotifyProgress(r) \/ NotifyFinal(r) \/ RecordCleanupFailure(r)
         \/ DeleteInstanceSecret(r) \/ ReadBinding(r)
         \/ DeleteInstance(r) /\ Instance \notin objects
         \/ DeleteBinding(r) /\ Target(r) \notin objects
         \/ SaveDashboard(r) /\ NoteRefused(r)
  PROVE  SerialInv' /\ Changes(r)
<1>1. SubscriberStep(r)
  BY DEF SubscriberStep
<1>2. /\ Acts(r) /\ OnlyMoves(r) /\ Op(r)' = Op(r) /\ Target(r)' = Target(r)
      /\ UNCHANGED <<pc, held, run, outcome>>
      /\ pc[r] \notin Unstarted /\ note[r] \notin {"none", "done"}
      /\ Fresh(r)' /\ Ways(r)' /\ Calm(r)'
  BY <1>1, SubscriberLeads
<1>3. There(r) /\ InStep(r) /\ Fits(r) /\ TypeOK /\ Working(r) /\ pc[r] # "restart"
  BY <1>2 DEF Acts, OwnInv
<1>4. ASSUME NEW id, NEW s, RecordsState(r, id, s) \/ StateLost(r, id)
      PROVE  UNCHANGED <<objects, listed, marked, secrets>>
  BY <1>4 DEF RecordsState, StateLost, storeVars, SetState, Crd!SetState, Etcd!SetState
<1>5. /\ UNCHANGED <<objects, listed, marked, read>>
      /\ note[r] # "unlist"
      /\ Instance \in secrets' => Instance \in secrets /\ note[r] # "secret"
      /\ note'[r] \notin {"unlist", "url"}
      /\ note'[r] \in {"binding", "drop"} => note[r] = "binding"
  <2>1. CASE NotifyProgress(r)
    <3>1. UNCHANGED <<objects, listed, marked, secrets>>
      BY <1>4, <2>1 DEF NotifyProgress
    <3>2. QED
      BY <1>3, <2>1, <3>1 DEF NotifyProgress, Notes, TypeOK
  <2>2. CASE NotifyFinal(r)
    <3>1. UNCHANGED <<objects, listed, marked, secrets>>
      BY <1>4, <2>2 DEF NotifyFinal
    <3>2. CleanUp(r) \in {"done", "delete", "instance"}
      BY Zenon DEF CleanUp
    <3>3. QED
      BY <1>3, <2>2, <3>1, <3>2 DEF NotifyFinal, Notes, TypeOK
  <2>3. CASE RecordCleanupFailure(r)
    <3>1. UNCHANGED <<objects, listed, marked, secrets>>
      BY <1>4, <2>3 DEF RecordCleanupFailure
    <3>2. QED
      BY <1>3, <2>3, <3>1 DEF RecordCleanupFailure, Notes, TypeOK
  <2>4. CASE DeleteInstanceSecret(r)
    BY <1>3, <2>4 DEF DeleteInstanceSecret, DeleteSecret, Notes, TypeOK
  <2>5. CASE ReadBinding(r)
    BY <1>3, <2>5 DEF ReadBinding, Notes, TypeOK, storeVars
  <2>6. CASE DeleteInstance(r) /\ Instance \notin objects
    <3>1. ~DeleteObject(Instance)
      BY <2>6 DEF DeleteObject, Crd!DeleteObject, Etcd!DeleteObject
    <3>2. QED
      BY <1>3, <2>6, <3>1 DEF DeleteInstance, Notes, TypeOK, storeVars
  <2>7. CASE DeleteBinding(r) /\ Target(r) \notin objects
    <3>1. ~DeleteObject(Target(r))
      BY <2>7 DEF DeleteObject, Crd!DeleteObject, Etcd!DeleteObject
    <3>2. QED
      BY <1>3, <2>7, <3>1 DEF DeleteBinding, Notes, TypeOK, storeVars
  <2>8. CASE SaveDashboard(r) /\ NoteRefused(r)
    BY <1>3, <2>8 DEF SaveDashboard, NoteRefused, Notes, TypeOK, storeVars
  <2>9. QED
    BY <2>1, <2>2, <2>3, <2>4, <2>5, <2>6, <2>7, <2>8
<1>6. ListedThere' /\ SecretThere'
  <2>1. "unlist" \in {pc[r], note[r]} => "unlist" \in {pc'[r], note'[r]}
    BY <1>2, <1>5
  <2>2. QED
    BY <1>2, <1>5, <2>1, ListsStill
<1>7. There(r)' /\ InStep(r)'
  BY <1>2, <1>3, <1>5 DEF There, InStep, Unstarted
<1>8. QED
  BY <1>2, <1>3, <1>5, <1>6, <1>7, OneSerial DEF OwnInv, Acts, Changes

\* The subscriber reads the instance, or writes records or lists.
LEMMA SubscriberStores ==
  ASSUME IInv, SerialInv, NEW r \in Tokens,
         \/ ReadInstance(r) \/ ReadForDashboard(r)
         \/ DeleteInstance(r) \/ DeleteBinding(r) \/ UnlistAfterUnbind(r) \/ SaveDashboard(r)
  PROVE  SerialInv' /\ Changes(r)
<1>1. SubscriberStep(r)
  BY DEF SubscriberStep
<1>2. /\ Acts(r) /\ OnlyMoves(r) /\ Op(r)' = Op(r) /\ Target(r)' = Target(r)
      /\ UNCHANGED <<pc, held, run, outcome>>
      /\ pc[r] \notin Unstarted /\ note[r] \notin {"none", "done"}
      /\ Fresh(r)' /\ Ways(r)' /\ Calm(r)'
  BY <1>1, SubscriberLeads
<1>3. /\ There(r) /\ InStep(r) /\ Ways(r) /\ Calm(r) /\ Fits(r) /\ Working(r) /\ pc[r] # "restart"
      /\ TypeOK /\ StoreTypeOK /\ Leads(r) /\ Instance \in Ids
  BY <1>2 DEF Acts, OwnInv
<1>4. /\ read[r] \in Copies /\ read[r].listed \subseteq Bindings /\ read[r].marked \subseteq Bindings
      /\ read[r].params \in Params \union {NoParams} /\ Target(r) \in Ids
  BY <1>3, Contents
<1>5. ASSUME There(r)', InStep(r)', ListedThere', SecretThere'
      PROVE  SerialInv'
  BY <1>2, <1>3, <1>5, OneSerial DEF OwnInv
<1>6. ASSUME listed' \subseteq objects'
      PROVE  ListedThere'
  BY <1>6 DEF ListedThere
<1>7. ASSUME Instance \in objects, Instance \in objects'
      PROVE  SecretThere'
  BY <1>7 DEF SecretThere
<1>8. listed \ {Target(r)} \subseteq objects
  BY <1>3, ListedNow
<1>9. Op(r) \in {"provision", "update", "bind"} =>
        Instance \in objects /\ listed \subseteq objects
  <2>1. Op(r) \in {"provision", "update", "bind"} => Instance \in objects /\ Target(r) \in objects
    BY <1>2, <1>3 DEF There, Fits, BindMethods, Unstarted
  <2>2. QED
    BY <1>8, <2>1
<1>10. note[r] \in {"delete", "drop"} => Fared(r) = "succeeded"
  BY DEF IInv, JobInv, Truthful, Fared, FinalState
<1> USE DEF Notes
<1>11. CASE ReadInstance(r)
  <2>1. note[r] = "instance" /\ Op(r) = "unbind" /\ Instance \in objects
    BY <1>3, <1>11 DEF ReadInstance, Fits, There
  <2>2. /\ UNCHANGED <<objects, listed, marked, secrets>> /\ note'[r] = "binding"
        /\ read'[r].listed = listed
    BY <1>3, <1>11, <2>1 DEF ReadInstance, GetServiceInstance, TypeOK, storeVars
  <2>3. There(r)' /\ InStep(r)'
    BY <1>2, <1>3, <1>8, <2>1, <2>2 DEF There, InStep
  <2>4. ListedThere' /\ SecretThere'
    BY <1>2, <2>1, <2>2, ListsStill
  <2>5. QED
    BY <1>5, <2>2, <2>3, <2>4 DEF Changes
<1>12. CASE ReadForDashboard(r)
  <2>1. /\ note[r] = "dashboard" /\ Op(r) \in {"provision", "update", "bind"}
        /\ Instance \in objects /\ listed \subseteq objects
    BY <1>3, <1>9, <1>12 DEF ReadForDashboard, Ways
  <2>2. /\ UNCHANGED <<objects, listed, marked, secrets>> /\ note'[r] = "url"
        /\ read'[r].listed = listed
    BY <1>3, <1>12, <2>1 DEF ReadForDashboard, GetServiceInstance, TypeOK, storeVars
  <2>3. There(r)' /\ InStep(r)'
    BY <1>2, <1>3, <2>1, <2>2 DEF There, InStep
  <2>4. QED
    BY <1>5, <1>6, <1>7, <2>1, <2>2, <2>3 DEF Changes
<1>13. CASE DeleteInstance(r)
  <2>1. CASE Instance \notin objects
    BY <1>13, <2>1, SubscriberLeavesLists
  <2>2. CASE DeleteObject(Instance) /\ Notes(r, "secret")
    <3>1. note[r] = "delete" /\ Op(r) = "deprovision" /\ note'[r] = "secret" /\ read' = read
      BY <1>3, <1>13, <2>2 DEF DeleteInstance, Fits, TypeOK
    <3>2. listed' = {}
      BY <1>3, <2>2, RecordDeleted
    <3>3. There(r)' /\ InStep(r)'
      BY <1>2, <1>3, <3>1, <3>2 DEF There, InStep, Unstarted
    <3>4. ListedThere' /\ SecretThere'
      BY <3>1, <3>2 DEF ListedThere, SecretThere
    <3>5. Changes(r)
      <4>1. Target(r) = Instance /\ objects' = objects \ {Instance} /\ Working(r)'
        BY <1>3, <2>2, <3>1, RecordDeleted DEF Fits, BindMethods, Working
      <4>2. QED
        BY <1>10, <3>1, <4>1 DEF Changes
    <3>6. QED
      BY <1>5, <3>3, <3>4, <3>5
  <2>3. QED
    BY <1>13, <2>1, <2>2 DEF DeleteInstance
<1>14. CASE DeleteBinding(r)
  <2>1. CASE Target(r) \notin objects
    BY <1>14, <2>1, SubscriberLeavesLists
  <2>2. CASE DeleteObject(Target(r)) /\ Notes(r, "unlist")
    <3>1. /\ note[r] = "drop" /\ Op(r) = "unbind" /\ note'[r] = "unlist" /\ read' = read
          /\ Target(r) # Instance /\ Instance \in objects
      BY <1>3, <1>14, <2>2 DEF DeleteBinding, Fits, BindMethods, There, TypeOK
    <3>2. objects' = objects \ {Target(r)} /\ UNCHANGED <<listed, marked, secrets>>
      BY <1>4, <2>2, <3>1, RecordDeleted
    <3>3. There(r)' /\ InStep(r)'
      BY <1>2, <1>3, <3>1, <3>2 DEF There, InStep
    <3>4. ListedThere'
      BY <1>2, <1>8, <3>1, <3>2 DEF ListedThere
    <3>5. Changes(r)
      BY <1>10, <3>1, <3>2 DEF Changes, Working
    <3>6. QED
      BY <1>5, <1>7, <3>1, <3>2, <3>3, <3>4, <3>5
  <2>3. QED
    BY <1>14, <2>1, <2>2 DEF DeleteBinding
<1>15. CASE UnlistAfterUnbind(r)
  <2>1. /\ note[r] = "unlist" /\ Op(r) = "unbind" /\ Job(r) \notin stale
        /\ Target(r) \in Bindings /\ Instance \in objects
        /\ read[r].listed \ {Target(r)} \subseteq objects
    BY <1>3, <1>15 DEF UnlistAfterUnbind, Calm, Fits, BindMethods, There, InStep
  <2>2. /\ SetServiceInstance(RemoveBinding(read[r], Target(r)), read[r].params)
        /\ note'[r] = "done" /\ read' = read
    BY <1>3, <1>15, <2>1 DEF UnlistAfterUnbind, NoteRefused, TypeOK
  <2>3. /\ objects' = objects /\ secrets' = secrets
        /\ \A b \in listed' : b # Target(r) /\ (b \in read[r].listed \/ b \in listed)
    BY <1>3, <1>4, <2>1, <2>2, BindingUnlisted
  <2>4. There(r)' /\ InStep(r)'
    BY <1>2, <1>3, <2>1, <2>2, <2>3 DEF There, InStep
  <2>5. QED
    BY <1>5, <1>6, <1>7, <1>8, <2>1, <2>3, <2>4 DEF Changes
<1>16. CASE SaveDashboard(r)
  <2>1. CASE NoteRefused(r)
    BY <1>16, <2>1, SubscriberLeavesLists
  <2>2. CASE SetServiceInstance(read[r], read[r].params)
    <3>1. /\ note[r] = "url" /\ note'[r] = "done" /\ read' = read
          /\ Instance \in objects /\ listed \subseteq objects /\ read[r].listed \subseteq objects
      BY <1>3, <1>9, <1>16 DEF SaveDashboard, Ways, InStep, TypeOK
    <3>2. /\ objects' = objects \union {Instance} /\ secrets' = secrets
          /\ \A b \in listed' : b \in read[r].listed \/ b \in listed
      BY <1>3, <1>4, <2>2, <3>1, InstanceUpdated
    <3>3. objects' = objects
      BY <3>1, <3>2
    <3>4. There(r)' /\ InStep(r)'
      <4>1. Op(r) \in {"provision", "update", "bind"}
        BY <1>3, <3>1 DEF Ways
      <4>2. QED
        BY <1>2, <1>3, <3>1, <3>3, <4>1 DEF There, InStep
    <3>5. QED
      BY <1>5, <1>6, <1>7, <3>1, <3>2, <3>3, <3>4 DEF Changes
  <2>3. QED
    BY <1>16, <2>1, <2>2 DEF SaveDashboard
<1>17. QED
  BY <1>11, <1>12, <1>13, <1>14, <1>15, <1>16

\* Whatever the subscriber does.
LEMMA SubscriberSerial ==
  ASSUME IInv, SerialInv, NEW r \in Tokens, SubscriberStep(r)
  PROVE  SerialInv' /\ Changes(r)
<1>1. CASE \/ NotifyProgress(r) \/ NotifyFinal(r) \/ RecordCleanupFailure(r)
           \/ DeleteInstanceSecret(r) \/ ReadBinding(r)
  BY <1>1, SubscriberLeavesLists
<1>2. CASE \/ ReadInstance(r) \/ ReadForDashboard(r)
           \/ DeleteInstance(r) \/ DeleteBinding(r) \/ UnlistAfterUnbind(r) \/ SaveDashboard(r)
  BY <1>2, SubscriberStores
<1>3. QED
  BY <1>1, <1>2 DEF SubscriberStep

-----------------------------------------------------------------------------
(* Requests, and the invariance.                                           *)

\* How a request is taken up.
TakenUp(r) ==
  \/ Op(r)' = "provision" /\ UNCHANGED held /\ (pc'[r] = "save" <=> Instance \notin objects)
  \/ pc'[r] = "done"
  \/ /\ Instance \in objects /\ held'[r].listed = listed /\ held'[r].marked = marked
     /\ \/ Op(r)' \in {"update", "deprovision"} /\ pc'[r] = "check"
        \/ Op(r)' \in {"bind", "unbind"} /\ pc'[r] = "find"

\* No request is under way: one may come, and finds everything in step.
LEMMA RequestSerial ==
  ASSUME Overlap = "none", IInv, SerialInv, NEW r \in Tokens, Request(r)
  PROVE  /\ Resting /\ OnlyMoves(r) /\ SerialInv'
         /\ UNCHANGED objects /\ outcome'[r] = "none"
<1>1. Asked(r)
  BY RequestFrame
<1>2. Resting
  BY DEF Request, Provision, Update, Deprovision, Bind, Unbind, Arrives
<1>3. \A t \in Tokens : ~Working(t)
  BY <1>2 DEF Resting, Working
<1>4. TypeOK /\ Started(r) /\ OwnInv(r) /\ pc[r] = "idle"
  BY <1>1 DEF IInv, JobInv, SerialInv, OwnInv, Asked
<1>5. /\ note[r] = "none" /\ run[r] = "none" /\ outcome[r] = "none"
      /\ held[r].listed = {} /\ held[r].marked = {}
  BY <1>4 DEF Started, OwnInv, Fresh, Unstarted
<1>6. UNCHANGED <<objects, listed, marked, secrets, run, outcome, note, read, stale, phase>>
  BY <1>1 DEF Asked, storeVars, jobVars, processVars
<1>7. \A t \in Tokens \ {r} : req'[t] = req[t] /\ pc'[t] = pc[t] /\ held'[t] = held[t]
  BY <1>1, <1>4 DEF Asked, Goes, Answers, AnswersFor, TypeOK
<1>8. Leads(r) /\ OnlyMoves(r)
  <2>1. UNCHANGED <<run, outcome, note, stale, phase>>
    BY <1>6
  <2>2. Leads(r)
    BY <1>3 DEF Leads
  <2>3. QED
    BY <1>7, <2>1, <2>2, Zenon DEF OnlyMoves
<1>9. TakenUp(r)
  <2>1. /\ held \in [Tokens -> HeldCopies] /\ req \in [Tokens -> Requests]
        /\ pc \in [Tokens -> HandlerPC]
        /\ Hold(GetServiceInstance, FALSE).listed = listed
        /\ Hold(GetServiceInstance, FALSE).marked = marked
    BY <1>4 DEF TypeOK, Hold, GetServiceInstance
  <2> USE DEF Arrives, HoldsInstance, Goes, Answers, AnswersFor, Op, TakenUp
  <2>2. CASE Provision(r)
    <3>1. PICK p \in Params :
            /\ req' = [req EXCEPT ![r] = [op |-> "provision", target |-> Instance, params |-> p]]
            /\ UNCHANGED held
            /\ \/ Instance \notin objects /\ pc' = [pc EXCEPT ![r] = "save"]
               \/ Instance \in objects /\ pc' = [pc EXCEPT ![r] = "check"]
               \/ Instance \in objects /\ pc' = [pc EXCEPT ![r] = "done"]
      BY <2>2 DEF Provision
    <3>2. QED
      BY <2>1, <3>1
  <2>3. CASE Update(r)
    <3>1. PICK p \in Params :
            /\ req' = [req EXCEPT ![r] = [op |-> "update", target |-> Instance, params |-> p]]
            /\ \/ pc' = [pc EXCEPT ![r] = "done"]
               \/ /\ Instance \in objects /\ pc' = [pc EXCEPT ![r] = "check"]
                  /\ held' = [held EXCEPT ![r] = Hold(GetServiceInstance, FALSE)]
      BY <2>3 DEF Update
    <3>2. QED
      BY <2>1, <3>1
  <2>4. CASE Deprovision(r)
    <3>1. /\ req' = [req EXCEPT ![r] = [op |-> "deprovision", target |-> Instance, params |-> NoParams]]
          /\ \/ pc' = [pc EXCEPT ![r] = "done"]
             \/ /\ Instance \in objects /\ pc' = [pc EXCEPT ![r] = "check"]
                /\ held' = [held EXCEPT ![r] = Hold(GetServiceInstance, FALSE)]
      BY <2>4 DEF Deprovision
    <3>2. QED
      BY <2>1, <3>1
  <2>5. ASSUME NEW b \in Bindings, Bind(r, b)
        PROVE  TakenUp(r)
    <3>1. PICK p \in Params :
            /\ req' = [req EXCEPT ![r] = [op |-> "bind", target |-> b, params |-> p]]
            /\ \/ pc' = [pc EXCEPT ![r] = "done"]
               \/ /\ Instance \in objects /\ pc' = [pc EXCEPT ![r] = "find"]
                  /\ held' = [held EXCEPT ![r] = Hold(GetServiceInstance, FALSE)]
      BY <2>5 DEF Bind
    <3>2. QED
      BY <2>1, <3>1
  <2>6. ASSUME NEW b \in Bindings, Unbind(r, b)
        PROVE  TakenUp(r)
    <3>1. /\ req' = [req EXCEPT ![r] = [op |-> "unbind", target |-> b, params |-> NoParams]]
          /\ \/ pc' = [pc EXCEPT ![r] = "done"]
             \/ /\ Instance \in objects /\ pc' = [pc EXCEPT ![r] = "find"]
                /\ held' = [held EXCEPT ![r] = Hold(GetServiceInstance, FALSE)]
      BY <2>6 DEF Unbind
    <3>2. QED
      BY <2>1, <3>1
  <2>7. QED
    BY <2>2, <2>3, <2>4, <2>5, <2>6 DEF Request
<1>10. listed \subseteq objects /\ (Instance \in secrets => Instance \in objects)
  <2>1. \A t \in Tokens : "unlist" \notin {pc[t], note[t]} /\ note[t] # "secret"
    BY <1>3 DEF Working
  <2>2. QED
    BY <2>1 DEF SerialInv, ListedThere, SecretThere
<1>11. ListedThere' /\ SecretThere'
  BY <1>6, <1>10 DEF ListedThere, SecretThere
<1>12. pc'[r] \notin {"idle", "restart"}
  BY <1>1, <1>4 DEF Asked, Goes, Answers, AnswersFor, TypeOK
<1>13. Fresh(r)' /\ Ways(r)'
  BY <1>5, <1>6, <1>12 DEF Fresh, Ways
<1>14. Calm(r)'
  BY <1>4, <1>5, <1>6 DEF OwnInv, Calm, Handler, Job
<1>15. There(r)' /\ InStep(r)'
  <2>0. Op(r)' \in Methods
    BY <1>1, <1>4 DEF Asked, TypeOK, Op
  <2>1. CASE pc'[r] = "done"
    BY <1>5, <1>6, <2>1 DEF There, InStep, Working
  <2>2. CASE Op(r)' = "provision" /\ UNCHANGED held /\ (pc'[r] = "save" <=> Instance \notin objects)
    BY <1>5, <1>6, <2>0, <2>2 DEF There, InStep
  <2>3. CASE /\ Instance \in objects /\ held'[r].listed = listed /\ held'[r].marked = marked
             /\ \/ Op(r)' \in {"update", "deprovision"} /\ pc'[r] = "check"
                \/ Op(r)' \in {"bind", "unbind"} /\ pc'[r] = "find"
    BY <1>5, <1>6, <1>10, <2>0, <2>3 DEF There, InStep
  <2>4. QED
    BY <1>9, <2>1, <2>2, <2>3 DEF TakenUp
<1>16. QED
  BY <1>2, <1>5, <1>6, <1>8, <1>11, <1>12, <1>13, <1>14, <1>15, OneSerial DEF OwnInv

\* The broker begins with everything in step.
LEMMA SerialInit ==
  ASSUME Init
  PROVE  SerialInv
<1>1. /\ phase = "serving" /\ stale = {} /\ listed \subseteq objects
      /\ secrets \in {{}, objects}
  BY DEF Init
<1>2. ASSUME NEW t \in Tokens
      PROVE  /\ pc[t] = "idle" /\ note[t] = "none" /\ outcome[t] = "none"
             /\ held[t].listed = {} /\ held[t].marked = {}
  BY DEF Init, Hold, NoCopy
<1>3. \A t \in Tokens : ~Working(t)
  BY <1>2 DEF Working
<1>4. \A t \in Tokens : pc[t] # "restart" /\ Fresh(t) /\ There(t) /\ InStep(t) /\ Ways(t) /\ Calm(t)
  BY <1>1, <1>2, <1>3 DEF Fresh, There, InStep, Ways, Calm
<1>5. ListedThere /\ SecretThere /\ Alone
  <2>1. ListedThere
    BY <1>1 DEF ListedThere
  <2>2. SecretThere
    <3>1. secrets \subseteq objects
      BY <1>1
    <3>2. QED
      BY <3>1 DEF SecretThere
  <2>3. Alone
    BY <1>3 DEF Alone
  <2>4. QED
    BY <2>1, <2>2, <2>3
<1>6. QED
  BY <1>1, <1>4, <1>5 DEF SerialInv

\* The broker does not die, so there is nothing to recover.
LEMMA NeitherDiesNorRecovers ==
  ASSUME MaxCrashes = 0, IInv, SerialInv
  PROVE  ~Crash /\ ~Recover
<1>1. ~Crash
  BY DEF IInv, TypeOK, Crash
<1>2. phase = "serving" /\ \A r \in Tokens : pc[r] # "restart"
  BY DEF SerialInv
<1>3. \A r \in Tokens : ~RecoverJob(r) /\ ~RestartJob(r)
  BY <1>2 DEF RecoverJob, RestartJob
<1>4. ~Restart /\ ~RecoveryStops /\ ~RecoveryEnds
  BY <1>2 DEF Restart, RecoveryStops, RecoveryEnds
<1>5. QED
  BY <1>1, <1>3, <1>4 DEF Recover

\* Every step keeps it.
LEMMA SerialNext ==
  ASSUME Overlap = "none", MaxCrashes = 0, IInv, SerialInv, [Next]_vars
  PROVE  SerialInv'
<1>1. CASE UNCHANGED vars
  <2>1. UNCHANGED <<objects, listed, marked, secrets, req, pc, held, run, outcome, note, read, stale, phase>>
    BY <1>1 DEF vars, storeVars, requestVars, jobVars, processVars
  <2>2. Alone' /\ ListedThere' /\ SecretThere'
    BY <2>1 DEF SerialInv, Alone, Working, ListedThere, SecretThere, Target
  <2>3. \A r \in Tokens : There(r)' /\ InStep(r)'
    BY <2>1 DEF SerialInv, Working, There, InStep, Op, Target
  <2>4. \A r \in Tokens : pc'[r] # "restart" /\ Fresh(r)' /\ Ways(r)' /\ Calm(r)'
    BY <2>1 DEF SerialInv, Fresh, Ways, Calm, Op, Handler, Job
  <2>5. QED
    BY <2>1, <2>2, <2>3, <2>4 DEF SerialInv
<1>2. ASSUME NEW r \in Tokens, Request(r) \/ HandlerStep(r) \/ RunnerStep(r) \/ SubscriberStep(r)
      PROVE  SerialInv'
  BY <1>2, RequestSerial, HandlerSerial, RunnerSerial, SubscriberSerial
<1>3. QED
  BY <1>1, <1>2, NeitherDiesNorRecovers DEF Next

\* Requests that come one at a time, to a broker that lives on, find records, lists
\* and credentials in step and leave them so.
THEOREM SerialInvariant ==
  ASSUME Overlap = "none", MaxCrashes = 0
  PROVE  Spec => []SerialInv
<1>1. Init => SerialInv
  BY SerialInit
<1>2. IInv /\ SerialInv /\ [Next]_vars => SerialInv'
  BY SerialNext
<1>3. QED
  BY <1>1, <1>2, Invariant, PTL DEF Spec

-----------------------------------------------------------------------------
(* What the invariant says of each step.                                   *)

\* A step of a handler, of a runner or of the subscriber, as ServiceLife sees it.
LEMMA ThreadSerial ==
  ASSUME IInv, SerialInv, NEW r \in Tokens,
         HandlerStep(r) \/ RunnerStep(r) \/ SubscriberStep(r)
  PROVE  /\ Acts(r) /\ OnlyMoves(r) /\ Op(r)' = Op(r) /\ Target(r)' = Target(r)
         /\ \/ Changes(r) /\ outcome'[r] = outcome[r]
            \/ /\ objects' = objects /\ outcome[r] = "none" /\ Working(r)'
               /\ Fared(r)' \in {"succeeded", "failed"}
<1>1. CASE HandlerStep(r)
  <2>1. Fits(r) /\ TypeOK
    BY DEF IInv, JobInv
  <2>2. HandlerMoves(r)
    BY <1>1, <2>1, ReadingMoves, WritingMoves, SetupMoves DEF HandlerStep, RecordsJob
  <2>3. QED
    BY <1>1, <2>2, HandlerLeads, HandlerSerial DEF HandlerMoves
<1>2. CASE RunnerStep(r)
  BY <1>2, RunnerSerial
<1>3. CASE SubscriberStep(r)
  BY <1>3, SubscriberLeads, SubscriberSerial
<1>4. QED
  BY <1>1, <1>2, <1>3

\* Only a deprovision takes the instance away, and only a provision that did not
\* find it brings it back.
LEMMA InstanceGoesAndComes ==
  ASSUME Overlap = "none", MaxCrashes = 0, IInv, SerialInv, Next
  PROVE  /\ Instance \in objects \ objects' => listed = {}
         /\ Instance \in objects' \ objects =>
              \E t \in Tokens : Op(t) = "provision" /\ pc[t] = "save"
<1>1. ASSUME NEW r \in Tokens, Request(r)
      PROVE  objects' = objects
  BY <1>1, RequestSerial
<1>2. ASSUME NEW r \in Tokens, HandlerStep(r) \/ RunnerStep(r) \/ SubscriberStep(r)
      PROVE  /\ Instance \in objects \ objects' => listed = {}
             /\ Instance \in objects' \ objects => Op(r) = "provision" /\ pc[r] = "save"
  <2>1. Acts(r) /\ (objects' = objects \/ Changes(r))
    BY <1>2, ThreadSerial
  <2>2. Fits(r) /\ Fresh(r) /\ There(r) /\ InStep(r) /\ Working(r) /\ Started(r)
    BY <2>1 DEF Acts, OwnInv, IInv, JobInv
  <2>3. CASE objects' = objects
    BY <2>3
  <2>4. CASE Op(r) \in {"provision", "bind"} /\ objects' = objects \union {Target(r)}
    <3>1. Instance \in objects' \ objects => Target(r) = Instance
      BY <2>4
    <3>2. QED
      BY <2>2, <2>4, <3>1 DEF Fits, BindMethods, There
  <2>5. CASE /\ Op(r) \in {"deprovision", "unbind"} /\ objects' = objects \ {Target(r)}
             /\ Fared(r) = "succeeded" \/ Op(r) = "unbind"
    <3>1. Instance \in objects \ objects' => Op(r) = "deprovision" /\ Fared(r) = "succeeded"
      BY <2>2, <2>5 DEF Fits, BindMethods
    <3>2. Fared(r) = "succeeded" => pc[r] # "check"
      BY <2>2 DEF Fared, Fresh, Started, Unstarted
    <3>3. QED
      BY <2>2, <2>5, <3>1, <3>2 DEF InStep
  <2>6. QED
    BY <2>1, <2>3, <2>4, <2>5 DEF Changes
<1>3. ~Crash /\ ~Recover
  BY NeitherDiesNorRecovers
<1>4. QED
  BY <1>1, <1>2, <1>3 DEF Next

\* The CRD store holds no false entries: whatever a step does to it, it leaves none.
Unmarked == store = "crd" => marked = {}

\* One step leaves the store what it is and, over CRDs, without false entries.
MarksNothing == store' = store /\ (store = "crd" => marked' = marked)

\* Each write of the data access objects.
LEMMA WritesMark ==
  ASSUME NEW id, NEW t, NEW s, NEW copy, NEW p,
         \/ UNCHANGED storeVars \/ CreateSecret(id) \/ DeleteSecret(id) \/ DeleteObject(id)
         \/ SetServiceInstance(copy, p) \/ SetBindInstance(id, p, t) \/ SetState(id, t, s, copy)
  PROVE  MarksNothing
<1> USE DEF MarksNothing
<1>1. CASE UNCHANGED storeVars \/ CreateSecret(id) \/ DeleteSecret(id)
  BY <1>1 DEF CreateSecret, DeleteSecret, storeVars
<1>2. CASE DeleteObject(id)
  BY <1>2 DEF DeleteObject, Crd!DeleteObject, Etcd!DeleteObject
<1>3. CASE SetServiceInstance(copy, p)
  BY <1>3 DEF SetServiceInstance, Crd!SetServiceInstance, Etcd!SetServiceInstance
<1>4. CASE SetBindInstance(id, p, t)
  BY <1>4 DEF SetBindInstance, Crd!SetBindInstance, Etcd!SetBindInstance
<1>5. CASE SetState(id, t, s, copy)
  BY <1>5 DEF SetState, Crd!SetState, Etcd!SetState
<1>6. QED
  BY <1>1, <1>2, <1>3, <1>4, <1>5

\* Each step of a thread.
LEMMA ThreadMarks ==
  ASSUME NEW r \in Tokens, HandlerStep(r) \/ RunnerStep(r) \/ SubscriberStep(r)
  PROVE  MarksNothing
<1>1. CASE HandlerStep(r)
  <2>1. CASE \/ CheckProvision(r) \/ CheckUpdate(r) \/ CheckDeprovision(r) \/ FindBind(r)
             \/ FindUnbind(r) \/ CheckUnbind(r) \/ RereadUnbind(r) \/ JobReturned(r)
    <3>1. UNCHANGED storeVars
      BY <2>1 DEF CheckProvision, CheckUpdate, CheckDeprovision, FindBind, FindUnbind, CheckUnbind,
                  RereadUnbind, JobReturned, Reading
    <3>2. QED
      BY <3>1, WritesMark
  <2>2. CASE SaveInstance(r) \/ ListBinding(r) \/ UnlistBinding(r)
    BY <2>2, WritesMark DEF SaveInstance, ListBinding, UnlistBinding, Refused
  <2>3. CASE SaveBinding(r) \/ SaveKey(r)
    BY <2>3, WritesMark DEF SaveBinding, SaveKey, StoresBinding
  <2>4. CASE SetupJob(r)
    BY <2>4, WritesMark DEF SetupJob
  <2>5. CASE DropProvisionSecret(r) \/ CopySecret(r) \/ DropBinding(r) \/ DropBindingSecret(r)
    BY <2>5, WritesMark DEF DropProvisionSecret, CopySecret, DropBinding, DropBindingSecret
  <2>6. QED
    BY <1>1, <2>1, <2>2, <2>3, <2>4, <2>5 DEF HandlerStep
<1>2. CASE RunnerStep(r)
  BY <1>2, WritesMark DEF RunnerStep, RunnerEnds, RunnerSkips
<1>3. CASE SubscriberStep(r)
  <2>1. CASE NotifyProgress(r) \/ NotifyFinal(r) \/ RecordCleanupFailure(r)
    BY <2>1, WritesMark
       DEF NotifyProgress, NotifyFinal, RecordCleanupFailure, RecordsState, StateLost
  <2>2. CASE DeleteInstance(r) \/ DeleteInstanceSecret(r) \/ DeleteBinding(r)
    BY <2>2, WritesMark DEF DeleteInstance, DeleteInstanceSecret, DeleteBinding
  <2>3. CASE ReadInstance(r) \/ ReadBinding(r) \/ ReadForDashboard(r)
    <3>1. UNCHANGED storeVars
      BY <2>3 DEF ReadInstance, ReadBinding, ReadForDashboard
    <3>2. QED
      BY <3>1, WritesMark
  <2>4. CASE UnlistAfterUnbind(r) \/ SaveDashboard(r)
    BY <2>4, WritesMark DEF UnlistAfterUnbind, SaveDashboard, NoteRefused
  <2>5. QED
    BY <1>3, <2>1, <2>2, <2>3, <2>4 DEF SubscriberStep
<1>4. QED
  BY <1>1, <1>2, <1>3

\* Each step of a broker that lives on.
LEMMA UnmarkedNext ==
  ASSUME Overlap = "none", MaxCrashes = 0, IInv, SerialInv, Unmarked, [Next]_vars
  PROVE  Unmarked'
<1>1. ASSUME NEW r \in Tokens, Request(r)
      PROVE  UNCHANGED storeVars
  BY <1>1, RequestFrame DEF IInv, Asked
<1>2. ASSUME NEW r \in Tokens, HandlerStep(r) \/ RunnerStep(r) \/ SubscriberStep(r)
      PROVE  MarksNothing
  BY <1>2, ThreadMarks
<1>3. UNCHANGED vars => UNCHANGED storeVars
  BY DEF vars
<1>4. UNCHANGED storeVars => MarksNothing
  BY WritesMark
<1>5. Next => MarksNothing
  BY <1>1, <1>2, <1>4, NeitherDiesNorRecovers DEF Next
<1>6. MarksNothing
  BY <1>3, <1>4, <1>5
<1>7. QED
  BY <1>6 DEF MarksNothing, Unmarked

\* Only the check of a deprovision refuses it.
LEMMA CheckRefuses ==
  ASSUME Overlap = "none", MaxCrashes = 0, IInv, SerialInv, [Next]_vars, NEW r \in Tokens,
         At(r, {"deprovision"}, "check"), pc'[r] = "done", answer'[r].code = "refused"
  PROVE  CheckDeprovision(r) /\ ~validateDeprovision(r)
<1> USE DEF At
<1>1. Working(r) /\ TypeOK
  BY DEF Working, IInv
<1>2. ASSUME NEW t \in Tokens, Request(t)
      PROVE  pc'[r] = pc[r]
  <2>1. Asked(t) /\ pc[t] = "idle"
    BY <1>1, <1>2, RequestFrame DEF Asked
  <2>2. QED
    BY <1>1, <2>1 DEF Asked, Goes, Answers, AnswersFor, TypeOK
<1>3. ASSUME NEW t \in Tokens, HandlerStep(t) \/ RunnerStep(t) \/ SubscriberStep(t)
      PROVE  t = r
  <2>1. Working(t)
    BY <1>3, ThreadSerial DEF Acts
  <2>2. QED
    BY <1>1, <2>1 DEF SerialInv, Alone
<1>4. RunnerStep(r) \/ SubscriberStep(r) => UNCHANGED pc
  BY DEF RunnerStep, RunnerEnds, RunnerSkips, RunnerSteps, SubscriberStep, SubscriberSteps,
         NotifyProgress, NotifyFinal, DeleteInstance, DeleteInstanceSecret, RecordCleanupFailure,
         ReadInstance, ReadBinding, DeleteBinding, UnlistAfterUnbind, ReadForDashboard, SaveDashboard
<1>5. UNCHANGED vars => UNCHANGED pc
  BY DEF vars
<1>6. HandlerStep(r)
  BY <1>2, <1>3, <1>4, <1>5, NeitherDiesNorRecovers DEF Next
<1>7. CheckDeprovision(r)
  BY <1>6 DEF HandlerStep, CheckProvision, CheckUpdate, FindBind, FindUnbind, CheckUnbind,
              RereadUnbind, SaveInstance, SaveBinding, SetupJob, SaveKey, JobReturned,
              DropProvisionSecret, CopySecret, ListBinding, DropBinding, UnlistBinding,
              DropBindingSecret
<1>8. ~validateDeprovision(r)
  <2>1. \A code \in Codes, t \in Tokens \union {NoToken} :
          AnswersFor(r, code, t) => answer'[r].code = code
    BY <1>1 DEF AnswersFor, TypeOK
  <2>2. \A call \in HandlerPC : Goes(r, call) => pc'[r] = call
    BY <1>1 DEF Goes, TypeOK
  <2>3. JobsInProgress(Target(r), Op(r)) \subseteq Tokens
    BY DEF JobsInProgress, JobsByState, Crd!JobsByState, Etcd!JobsByState
  <2>4. AnswersInProgress(r) => answer'[r].code = "in progress"
    BY <2>1, <2>3 DEF AnswersInProgress, Codes
  <2>5. ~AnswersFor(r, "error", NoToken) /\ ~AnswersFor(r, "done", NoToken)
    BY <2>1 DEF Codes
  <2>6. ~Goes(r, "setup") /\ ~Goes(r, "setup skipped")
    BY <2>2 DEF HandlerPC
  <2>7. QED
    BY <1>7, <2>4, <2>5, <2>6 DEF CheckDeprovision, Answers
<1>9. QED
  BY <1>7, <1>8

\* With requests one at a time a deprovision is refused only while a binding exists:
\* the list that it is held against is the store's, and names none that is removed;
\* over etcd an unbind may also have left a false entry.
THEOREM RefusedIfBound ==
  ASSUME Overlap = "none", MaxCrashes = 0
  PROVE  Spec => RefusedWhileBound
<1>1. Init => Unmarked
  BY DEF Init, Unmarked
<1>2. IInv /\ SerialInv /\ Unmarked /\ [Next]_vars => Unmarked'
  BY UnmarkedNext
<1>3. ASSUME IInv, SerialInv, Unmarked, [Next]_vars, NEW r \in Tokens,
             At(r, {"deprovision"}, "check"), pc'[r] = "done", answer'[r].code = "refused"
      PROVE  objects \intersect Bindings # {} \/ (store = "etcd" /\ marked # {})
  <2>1. held[r].listed \union held[r].marked # {}
    BY <1>3, CheckRefuses DEF validateDeprovision
  <2>2. Working(r) /\ pc[r] = "check" /\ Op(r) = "deprovision"
    BY <1>3 DEF Working, At
  <2>3. Acts(r)
    BY <1>3, <2>2, ActsAlone
  <2>4. held[r].listed = listed /\ held[r].marked = marked
    BY <2>2, <2>3 DEF Acts, OwnInv, InStep
  <2>5. listed \subseteq objects /\ listed \subseteq Bindings /\ store \in {"crd", "etcd"}
    <3>1. note[r] = "none"
      BY <2>2, <2>3 DEF Acts, Unstarted
    <3>2. QED
      BY <1>3, <2>2, <2>3, <3>1, ListedNow DEF Acts, StoreTypeOK
  <2>6. QED
    BY <1>3, <2>1, <2>4, <2>5 DEF Unmarked
<1>4. IInv /\ SerialInv /\ Unmarked /\ [Next]_vars
        => [\A r \in Tokens :
              At(r, {"deprovision"}, "check") /\ pc'[r] = "done" /\ answer'[r].code = "refused" =>
                \/ objects \intersect Bindings # {}
                \/ store = "etcd" /\ marked # {}]_vars
  BY <1>3
<1>5. QED
  BY <1>1, <1>2, <1>4, Invariant, SerialInvariant, PTL DEF Spec, RefusedWhileBound

\* Nor do the credentials of an instance outlive it.
THEOREM NoSecretOutlives ==
  ASSUME Overlap = "none", MaxCrashes = 0
  PROVE  Spec => []NoSecretLeft
<1>1. SerialInv => NoSecretLeft
  BY DEF SerialInv, SecretThere, NoSecretLeft, Resting
<1>2. QED
  BY <1>1, SerialInvariant, PTL

\* An instance is not removed while a binding is in its list: what deprovision found
\* in the list when it was asked for is still all that there is when its cleanup
\* deletes the instance.
THEOREM RemovedWhenUnbound ==
  ASSUME Overlap = "none", MaxCrashes = 0
  PROVE  Spec => RemovedUnbound
<1>1. IInv /\ SerialInv /\ [Next]_vars => [(Instance \in objects \ objects') => listed = {}]_vars
  BY InstanceGoesAndComes
<1>2. QED
  BY <1>1, Invariant, SerialInvariant, PTL DEF Spec, RemovedUnbound

\* Once removed it comes back only with a provision: no write of a copy that was read
\* before brings it back.
THEOREM StaysRemoved ==
  ASSUME Overlap = "none", MaxCrashes = 0
  PROVE  Spec => RemovedStaysRemoved
<1>1. IInv /\ SerialInv /\ [Next]_vars =>
        [(Instance \in objects' \ objects) =>
           \E t \in Tokens : Op(t) = "provision" /\ pc[t] = "save"]_vars
  BY InstanceGoesAndComes
<1>2. QED
  BY <1>1, Invariant, SerialInvariant, PTL DEF Spec, RemovedStaysRemoved

-----------------------------------------------------------------------------
(* One request at a time, the broker implements ServiceLife: safety.       *)

\* The refinement mapping of Life.
Task == IF AtWork = {} THEN [op |-> "none", id |-> Instance]
        ELSE [op |-> Op(Worker), id |-> Target(Worker)]
Work == IF AtWork = {} THEN "none" ELSE Fared(Worker)

\* What AtWork is when at most r is.
LEMMA OneAtWork ==
  ASSUME NEW W \in BOOLEAN, NEW S, NEW r, S = IF W THEN {r} ELSE {}
  PROVE  /\ W => S # {} /\ (CHOOSE x \in S : TRUE) = r
         /\ ~W => S = {}
<1>1. CASE W
  <2>1. S = {r}
    BY <1>1
  <2>2. \E x \in S : TRUE
    BY <2>1
  <2>3. (CHOOSE x \in S : TRUE) \in S
    BY <2>2
  <2>4. QED
    BY <1>1, <2>1, <2>3
<1>2. QED
  BY <1>1

\* The mapping when only r may be under way, before a step of it.
LEMMA MappedNow ==
  ASSUME NEW r \in Tokens, Leads(r)
  PROVE  /\ Working(r) => Task = [op |-> Op(r), id |-> Target(r)] /\ Work = Fared(r)
         /\ ~Working(r) => Task = [op |-> "none", id |-> Instance] /\ Work = "none"
<1>1. AtWork = {t \in Tokens : Working(t)}
  BY DEF AtWork, Working
<1>2. CASE Working(r)
  <2>1. AtWork = {r}
    BY <1>1, <1>2 DEF Leads
  <2>2. Worker = r /\ AtWork # {}
    BY <2>1, OneAtWork DEF Worker
  <2>3. QED
    BY <1>2, <2>2 DEF Task, Work
<1>3. CASE ~Working(r)
  <2>1. AtWork = {}
    BY <1>1, <1>3 DEF Leads
  <2>2. QED
    BY <1>3, <2>1 DEF Task, Work
<1>4. QED
  BY <1>2, <1>3

\* After a step of it.
LEMMA MappedNext ==
  ASSUME NEW r \in Tokens, Leads(r)'
  PROVE  /\ Working(r)' => Task' = [op |-> Op(r)', id |-> Target(r)'] /\ Work' = Fared(r)'
         /\ ~Working(r)' => Task' = [op |-> "none", id |-> Instance] /\ Work' = "none"
<1>1. AtWork' = {t \in Tokens : Working(t)'}
  BY DEF AtWork, Working
<1>2. CASE Working(r)'
  <2>1. AtWork' = {r}
    BY <1>1, <1>2 DEF Leads
  <2>2. Worker' = r /\ AtWork' # {}
    BY <2>1, OneAtWork DEF Worker
  <2>3. QED
    BY <1>2, <2>2 DEF Task, Work
<1>3. CASE ~Working(r)'
  <2>1. AtWork' = {}
    BY <1>1, <1>3 DEF Leads
  <2>2. QED
    BY <1>3, <2>1 DEF Task, Work
<1>4. QED
  BY <1>2, <1>3

\* Whether bind and unbind run bundles is settled when the broker starts.
LEMMA ThreadsKeepLaunch ==
  ASSUME IInv, NEW r \in Tokens, HandlerStep(r) \/ RunnerStep(r) \/ SubscriberStep(r)
  PROVE  launch' = launch
<1>1. CASE HandlerStep(r)
  <2>1. Fits(r) /\ TypeOK
    BY DEF IInv, JobInv
  <2>2. HandlerMoves(r)
    BY <1>1, <2>1, ReadingMoves, WritingMoves, SetupMoves DEF HandlerStep, RecordsJob
  <2>3. QED
    BY <2>2 DEF HandlerMoves, processVars
<1>2. CASE RunnerStep(r)
  BY <1>2 DEF RunnerStep, RunnerEnds, RunnerSkips, RunnerSteps, processVars
<1>3. CASE SubscriberStep(r)
  <2>1. SubscriberSteps(r)
    BY <1>3 DEF SubscriberStep, NotifyProgress, NotifyFinal, DeleteInstance, DeleteInstanceSecret,
                RecordCleanupFailure, ReadInstance, ReadBinding, DeleteBinding, UnlistAfterUnbind,
                ReadForDashboard, SaveDashboard
  <2>2. QED
    BY <2>1 DEF SubscriberSteps, processVars
<1>4. QED
  BY <1>1, <1>2, <1>3

\* What ServiceLife sees of the broker.
LEMMA LifeSees ==
  /\ Life!vars = <<objects, Task, Work, launch>>
  /\ Life!vars' = <<objects', Task', Work', launch'>>
BY DEF Life!vars, Task, Work

\* The broker begins as ServiceLife does.
LEMMA LifeInit == Init => Life!Init
<1> SUFFICES ASSUME Init PROVE Life!Init
  OBVIOUS
<1>1. AtWork = {}
  BY DEF Init, AtWork
<1>2. objects \in SUBSET Ids /\ launch \in BOOLEAN
  BY DEF Init
<1>3. QED
  BY <1>1, <1>2 DEF Life!Init, Life!Ids, Life!Nothing, Ids

\* Every step of the broker is one of ServiceLife, or none.
LEMMA LifeNext ==
  ASSUME Overlap = "none", MaxCrashes = 0, IInv, IInv', SerialInv, SerialInv', [Next]_vars
  PROVE  [Life!Next]_(Life!vars)
<1>1. CASE UNCHANGED vars
  <2>1. UNCHANGED <<objects, launch, req, pc, note, outcome>>
    BY <1>1 DEF vars, storeVars, requestVars, jobVars, processVars
  <2>2. AtWork' = AtWork
    BY <2>1 DEF AtWork
  <2>3. Worker' = Worker
    BY <2>2 DEF Worker
  <2>4. Task' = Task /\ Work' = Work
    BY <2>1, <2>2, <2>3 DEF Task, Work, Op, Target, Fared, FinalState
  <2>5. QED
    BY <2>1, <2>4, LifeSees
<1>2. ASSUME NEW r \in Tokens, Request(r)
      PROVE  [Life!Next]_(Life!vars)
  <2>1. /\ Resting /\ OnlyMoves(r) /\ objects' = objects /\ outcome'[r] = "none" /\ launch' = launch
    BY <1>2, RequestSerial, RequestFrame DEF Asked, processVars
  <2>2. Leads(r) /\ ~Working(r)
    BY <2>1 DEF Resting, Leads, Working
  <2>3. Leads(r)'
    BY <2>1, <2>2 DEF OnlyMoves, Leads, Working
  <2>4. Task = [op |-> "none", id |-> Instance] /\ Work = "none"
    BY <2>2, MappedNow
  <2>5. CASE ~Working(r)'
    <3>1. Task' = Task /\ Work' = Work
      BY <2>3, <2>4, <2>5, MappedNext
    <3>2. QED
      BY <2>1, <3>1, LifeSees
  <2>6. CASE Working(r)'
    <3>1. /\ Task' = [op |-> Op(r)', id |-> Target(r)'] /\ Work' = "none"
      BY <2>1, <2>3, <2>6, MappedNext DEF Fared
    <3>2. /\ Op(r)' \in Methods /\ Target(r)' \in Ids
          /\ Op(r)' \in BindMethods => Target(r)' \in Bindings
          /\ Op(r)' \notin BindMethods => Target(r)' = Instance
      BY <2>6 DEF SerialInv, There, IInv, JobInv, Fits, Ids
    <3>3. Target(r)' = Instance <=> Op(r)' \in {"provision", "update", "deprovision"}
      BY <3>2 DEF Methods, BindMethods
    <3>4. Life!Ask
      BY <2>1, <2>4, <3>1, <3>2, <3>3
         DEF Life!Ask, Life!Nothing, Life!Kinds, Life!Ids, Task, Work, Methods, Ids
    <3>5. QED
      BY <3>4 DEF Life!Next
  <2>7. QED
    BY <2>5, <2>6
<1>3. ASSUME NEW r \in Tokens, HandlerStep(r) \/ RunnerStep(r) \/ SubscriberStep(r)
      PROVE  [Life!Next]_(Life!vars)
  <2>1. /\ Acts(r) /\ OnlyMoves(r) /\ Op(r)' = Op(r) /\ Target(r)' = Target(r)
        /\ \/ Changes(r) /\ outcome'[r] = outcome[r]
           \/ /\ objects' = objects /\ outcome[r] = "none" /\ Working(r)'
              /\ Fared(r)' \in {"succeeded", "failed"}
    BY <1>3, ThreadSerial
  <2>2. launch' = launch
    BY <1>3, ThreadsKeepLaunch
  <2>3. Leads(r) /\ Working(r) /\ Op(r) \in Methods
    BY <2>1 DEF Acts, OwnInv, There
  <2>4. Leads(r)'
    BY <2>1, <2>3 DEF OnlyMoves, Leads, Working
  <2>5. Task = [op |-> Op(r), id |-> Target(r)] /\ Work = Fared(r)
    BY <2>3, MappedNow
  <2>6. Working(r)' => Task' = Task /\ Work' = Fared(r)'
    BY <2>1, <2>4, <2>5, MappedNext
  <2>7. outcome'[r] = outcome[r] => Fared(r)' = Fared(r)
    BY <2>1 DEF Fared, FinalState
  <2>8. Task # [op |-> "none", id |-> Instance]
    BY <2>3, <2>5 DEF Methods
  <2>9. CASE ~Working(r)'
    <3>1. objects' = objects
      BY <2>1, <2>9 DEF Changes
    <3>2. Task' = [op |-> "none", id |-> Instance] /\ Work' = "none"
      BY <2>4, <2>9, MappedNext
    <3>3. Life!End
      BY <2>2, <2>8, <3>1, <3>2 DEF Life!End, Life!Nothing, Task, Work
    <3>4. QED
      BY <3>3 DEF Life!Next
  <2>10. CASE Working(r)' /\ objects' = objects /\ outcome'[r] = outcome[r]
    BY <2>2, <2>5, <2>6, <2>7, <2>10, LifeSees
  <2>11. CASE Working(r)' /\ objects' = objects /\ outcome[r] = "none" /\ Fared(r)' \in {"succeeded", "failed"}
    <3>1. Work = "none"
      BY <2>5, <2>11 DEF Fared
    <3>2. Life!Work
      BY <2>2, <2>6, <2>8, <2>11, <3>1 DEF Life!Work, Life!Nothing, Task, Work
    <3>3. QED
      BY <3>2 DEF Life!Next
  <2>12. CASE /\ Working(r)' /\ outcome'[r] = outcome[r]
              /\ Op(r) \in {"provision", "bind"} /\ outcome[r] = "none"
              /\ Target(r) \notin objects /\ objects' = objects \union {Target(r)}
    <3>1. Work = "none" /\ Work' = Work /\ Task' = Task
      BY <2>5, <2>6, <2>7, <2>12 DEF Fared
    <3>2. Task.op \in {"provision", "bind"} /\ Task.id = Target(r)
      BY <2>5, <2>12
    <3>3. Life!Create
      BY <2>2, <2>12, <3>1, <3>2 DEF Life!Create, Task, Work
    <3>4. QED
      BY <3>3 DEF Life!Next
  <2>13. CASE /\ Working(r)' /\ outcome'[r] = outcome[r]
              /\ Op(r) \in {"deprovision", "unbind"} /\ objects' = objects \ {Target(r)}
              /\ Fared(r) = "succeeded" \/ (Op(r) = "unbind" /\ ~launch)
    <3>1. Work' = Work /\ Task' = Task
      BY <2>5, <2>6, <2>7, <2>13
    <3>2. /\ Task.op \in {"deprovision", "unbind"} /\ Task.id = Target(r)
          /\ Work = "succeeded" \/ (Task.op = "unbind" /\ ~launch)
      BY <2>5, <2>13
    <3>3. Life!Forget
      BY <2>2, <2>13, <3>1, <3>2 DEF Life!Forget, Task, Work
    <3>4. QED
      BY <3>3 DEF Life!Next
  <2>14. QED
    BY <2>1, <2>9, <2>10, <2>11, <2>12, <2>13 DEF Changes
<1>4. QED
  BY <1>1, <1>2, <1>3, NeitherDiesNorRecovers DEF Next

\* Handlers, jobs and cleanups, with all their calls to either store, amount to steps
\* of ServiceLife: a record is made before the bundle has run and forgotten once it
\* has succeeded.  That every operation ends (the rest of LifeSpec) is left to TLC.
THEOREM ImplementsLife ==
  ASSUME Overlap = "none", MaxCrashes = 0
  PROVE  Spec => Life!Init /\ [][Life!Next]_(Life!vars)
<1>1. IInv /\ IInv' /\ SerialInv /\ SerialInv' /\ [Next]_vars => [Life!Next]_(Life!vars)
  BY LifeNext
<1>2. QED
  BY <1>1, LifeInit, Invariant, SerialInvariant, PTL DEF Spec
=============================================================================

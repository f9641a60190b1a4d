------------------------- MODULE BindingListProofs -------------------------
(***************************************************************************)
(* Over CRDs no writer of an instance loses a binding that another has     *)
(* added, whatever stale copies are written back, for any number of        *)
(* requests at the same time and any number of crashes.                    *)
(***************************************************************************)
EXTENDS BrokerProofs

-----------------------------------------------------------------------------
(* The inductive invariant.                                                *)

\* What may take binding b from the list: its unbind, or a deprovision.
Undoing(b) ==
  \E t \in Tokens : Op(t) = "deprovision" \/ (Op(t) = "unbind" /\ Target(t) = b)

\* An idle request says nothing yet, and has no answer.
Unasked(r) == pc[r] = "idle" => Op(r) = "none" /\ answer[r].code = "none"

\* No copy of an instance marks a binding: the CRD store keeps no marks, so that a
\* write takes away at most the binding its own caller removes.
Unmarked == marked = {} /\ \A r \in Tokens : held[r].marked = {} /\ read[r].marked = {}

\* BoundIsListed with what it rests on.
ListInv ==
  /\ store = "crd"
  /\ Unmarked
  /\ Instance \notin objects => listed = {}
  /\ \A r \in Tokens : Unasked(r)
  /\ BoundIsListed

USE StoreAssumption, BrokerAssumption

-----------------------------------------------------------------------------
(* What a write does to the list.                                          *)

\* The instance is written: what its writer marks goes, what it holds is there.
LEMMA ListWritten ==
  ASSUME StoreTypeOK, store = "crd", Instance \notin objects => listed = {},
         NEW copy, copy.listed \subseteq Bindings, copy.marked \subseteq Bindings,
         NEW p \in Params \union {NoParams}, SetServiceInstance(copy, p)
  PROVE  /\ UNCHANGED <<store, marked>> /\ Instance \in objects'
         /\ \A b \in listed : b \in listed' \/ b \in copy.marked
         /\ copy.marked = {} => copy.listed \subseteq listed'
<1>1. Crd!SetServiceInstance(copy, p)
  BY DEF SetServiceInstance
<1>2. UNCHANGED <<store, marked>> /\ Instance \in objects'
  BY <1>1 DEF Crd!SetServiceInstance
<1>3. CASE Instance \in objects
  <2>1. listed' = Crd!intersectionOfBindings(copy.listed, copy.marked, listed)
    BY <1>1, <1>3 DEF Crd!SetServiceInstance
  <2>2. QED
    BY <1>2, <2>1 DEF Crd!intersectionOfBindings
<1>4. CASE Instance \notin objects
  <2>1. listed' = copy.listed \union copy.marked
    BY <1>1, <1>4 DEF Crd!SetServiceInstance
  <2>2. QED
    BY <1>2, <1>4, <2>1
<1>5. QED
  BY <1>3, <1>4

\* A record is deleted: only that of the instance takes the list with it.
LEMMA ListDeleted ==
  ASSUME store = "crd", NEW id \in Ids, DeleteObject(id)
  PROVE  /\ UNCHANGED <<store, marked>>
         /\ objects' = objects \ {id}
         /\ listed' = IF id = Instance THEN {} ELSE listed
BY DEF DeleteObject, Crd!DeleteObject

-----------------------------------------------------------------------------
(* One step and the list.                                                  *)

\* Job r and its handler take at most their own binding from the list.
ListKept(r) ==
  /\ UNCHANGED <<store, marked>>
  /\ Instance \notin objects' => listed' = {}
  /\ \A b \in listed \ listed' :
       Op(r) = "deprovision" \/ (Op(r) = "unbind" /\ b = Target(r))

\* What is left to show of a step of job r or its handler.
LEMMA OneLists ==
  ASSUME IInv, ListInv, NEW r \in Tokens, ListKept(r),
         \A t \in Tokens \ {r} :
           /\ req'[t] = req[t] /\ pc'[t] = pc[t] /\ answer'[t] = answer[t]
           /\ held'[t] = held[t] /\ read'[t] = read[t],
         held'[r].marked = {}, read'[r].marked = {},
         req'[r] = req[r] \/ pc[r] = "idle", pc'[r] # "idle",
         Op(r)' = "bind" /\ answer'[r].code = "done"
           => (req'[r] = req[r] /\ answer[r].code = "done") \/ Target(r)' \in listed'
  PROVE  ListInv'
<1> USE DEF ListInv
<1>1. (store = "crd")' /\ (Instance \notin objects => listed = {})'
  BY DEF ListKept
<1>2. Unmarked'
  BY DEF ListKept, Unmarked
<1>3. \A t \in Tokens : Unasked(t)'
  BY DEF Unasked, Op
<1>4. ASSUME NEW t \in Tokens, Op(t) = "deprovision" \/ Op(t) = "unbind"
      PROVE  Op(t)' = Op(t) /\ Target(t)' = Target(t)
  <2>1. pc[t] # "idle"
    BY <1>4 DEF Unasked
  <2>2. req'[t] = req[t]
    BY <2>1
  <2>3. QED
    BY <2>2 DEF Op, Target
<1>5. \A b : Undoing(b) => Undoing(b)'
  BY <1>4 DEF Undoing
<1>6. ASSUME NEW t \in Tokens, Op(t)' = "bind", answer'[t].code = "done"
      PROVE  (Target(t) \in listed \/ Undoing(Target(t)))'
  <2>1. CASE req'[t] = req[t] /\ answer[t].code = "done"
    <3>1. Op(t) = "bind" /\ Target(t)' = Target(t)
      BY <1>6, <2>1 DEF Op, Target
    <3>2. Target(t) \in listed \/ Undoing(Target(t))
      BY <2>1, <3>1 DEF BoundIsListed, Undoing
    <3>3. Target(t) \in listed \ listed' => Undoing(Target(t))
      BY DEF ListKept, Undoing
    <3>4. QED
      BY <1>5, <3>1, <3>2, <3>3 DEF Undoing
  <2>2. CASE Target(t)' \in listed'
    BY <2>2
  <2>3. QED
    BY <1>6, <2>1, <2>2
<1>7. BoundIsListed'
  BY <1>6 DEF BoundIsListed, Undoing
<1>8. QED
  BY <1>1, <1>2, <1>3, <1>7

\* A handler reads or writes: the binding of a bind that is answered with
\* credentials is in the list.
Lists(r) ==
  /\ ListKept(r)
  /\ held'[r].marked = {}
  /\ Op(r) = "bind" /\ answer'[r].code = "done"
       => answer[r].code = "done" \/ Target(r) \in listed'

\* A bind is answered without credentials, or goes on.
LEMMA NotDone ==
  ASSUME TypeOK, NEW r \in Tokens,
         \/ \E call \in HandlerPC : Goes(r, call)
         \/ \E code \in Codes \ {"done"}, t \in Tokens \union {NoToken} : AnswersFor(r, code, t)
         \/ \E code \in Codes \ {"done"} : Answers(r, code)
  PROVE  answer'[r].code = "done" => answer[r].code = "done"
BY DEF TypeOK, Goes, Answers, AnswersFor

\* Every step of a handler but those that write the instance.
LEMMA HandlerLists ==
  ASSUME IInv, ListInv, NEW r \in Tokens, HandlerStep(r)
  PROVE  Lists(r)
<1> USE DEF Lists, At, HandlerWrites, requestVars, storeVars, Codes
<1>1. /\ TypeOK /\ StoreTypeOK /\ Fits(r) /\ Target(r) \in Ids /\ Instance \in Ids
      /\ Op(r) \in Methods \union {"none"} /\ store = "crd"
      /\ marked = {} /\ held[r].marked = {}
      /\ Instance \notin objects => listed = {}
  BY Contents DEF IInv, TypeOK, JobInv, Ids, ListInv, Unmarked
<1>2. UNCHANGED storeVars => ListKept(r)
  BY <1>1 DEF ListKept
<1>3. ASSUME NEW copy, copy.listed \subseteq Bindings, copy.marked \subseteq Bindings,
             copy.marked = {} \/ (Op(r) = "unbind" /\ copy.marked \subseteq {Target(r)}),
             NEW p \in Params \union {NoParams}, SetServiceInstance(copy, p)
      PROVE  ListKept(r) /\ (copy.marked = {} => copy.listed \subseteq listed')
  BY <1>1, <1>3, ListWritten DEF ListKept
<1>4. ASSUME NEW id \in Ids, CreateSecret(id) \/ DeleteSecret(id)
      PROVE  ListKept(r)
  BY <1>1, <1>4 DEF CreateSecret, DeleteSecret, ListKept
<1>5. held[r] \in HeldCopies
  BY Contents, <1>1
<1>6. CASE CheckProvision(r) \/ CheckUpdate(r) \/ CheckDeprovision(r) \/ FindUnbind(r)
           \/ CheckUnbind(r) \/ JobReturned(r)
  <2>1. Reading(r)
    BY <1>6 DEF CheckProvision, CheckUpdate, CheckDeprovision, FindUnbind, CheckUnbind, JobReturned
  <2>2. Op(r) = "bind" => \E call \in HandlerPC : Goes(r, call)
    BY <1>6 DEF HandlerPC, CheckProvision, CheckUpdate, CheckDeprovision, FindUnbind, CheckUnbind, JobReturned
  <2>3. QED
    BY <1>1, <1>2, <2>1, <2>2, NotDone DEF Reading
<1>7. CASE FindBind(r)
  <2>1. UNCHANGED storeVars /\ held' = [held EXCEPT ![r].creds = (Instance \in secrets)]
    BY <1>7, Zenon DEF FindBind
  <2>2. held'[r].marked = held[r].marked
    BY <1>1, <1>5, <2>1 DEF HeldCopies, TypeOK
  <2>3. keys[Target(r)] \in Tokens \union {NoToken}
    BY <1>1, <1>7 DEF FindBind, Fits, BindMethods, StoreTypeOK
  <2>4. \/ \E call \in HandlerPC : Goes(r, call)
        \/ \E code \in Codes \ {"done"}, t \in Tokens \union {NoToken} : AnswersFor(r, code, t)
        \/ \E code \in Codes \ {"done"} : Answers(r, code)
    BY <1>7, <2>3 DEF FindBind, HandlerPC
  <2>5. QED
    BY <1>1, <1>2, <2>1, <2>2, <2>4, NotDone
<1>8. CASE RereadUnbind(r)
  <2>1. Hold(GetServiceInstance, FALSE).marked = {}
    BY <1>1 DEF Hold, GetServiceInstance
  <2>2. UNCHANGED held \/ held' = [held EXCEPT ![r] = Hold(GetServiceInstance, FALSE)]
    BY <1>8 DEF RereadUnbind, HoldsInstance
  <2>3. held'[r].marked = {}
    BY <1>1, <2>1, <2>2 DEF TypeOK
  <2>4. QED
    BY <1>1, <1>2, <1>8, <2>3 DEF RereadUnbind
<1>9. CASE SaveInstance(r)
  <2>1. ListKept(r)
    BY <1>1, <1>2, <1>3, <1>9, Contents DEF SaveInstance, Refused
  <2>2. QED
    BY <1>1, <1>9, <2>1 DEF SaveInstance
<1>10. CASE SaveBinding(r) \/ SaveKey(r)
  <2>1. PICK key \in Tokens \union {NoToken} :
          UNCHANGED storeVars \/ SetBindInstance(Target(r), req[r].params, key)
    BY <1>10 DEF SaveBinding, SaveKey, StoresBinding
  <2>2. ListKept(r)
    BY <1>1, <1>2, <2>1, BindingWritten, Contents DEF ListKept
  <2>3. \/ \E call \in HandlerPC : Goes(r, call)
        \/ \E code \in Codes \ {"done"}, t \in Tokens \union {NoToken} : AnswersFor(r, code, t)
        \/ \E code \in Codes \ {"done"} : Answers(r, code)
    BY <1>10 DEF SaveBinding, SaveKey, StoresBinding, HandlerPC
  <2>4. QED
    BY <1>1, <1>10, <2>2, <2>3, NotDone DEF SaveBinding, SaveKey
<1>11. CASE SetupJob(r)
  <2>1. UNCHANGED storeVars \/ SetState(Target(r), r, "not yet started", Op(r))
    BY <1>11 DEF SetupJob
  <2>2. ListKept(r)
    BY <1>1, <1>2, <2>1 DEF SetState, Crd!SetState, ListKept
  <2>3. \/ \E call \in HandlerPC : Goes(r, call)
        \/ \E code \in Codes \ {"done"}, t \in Tokens \union {NoToken} : AnswersFor(r, code, t)
        \/ \E code \in Codes \ {"done"} : Answers(r, code)
    BY <1>11 DEF SetupJob, HandlerPC
  <2>4. QED
    BY <1>1, <1>11, <2>2, <2>3, NotDone DEF SetupJob
<1>12. CASE DropProvisionSecret(r) \/ DropBindingSecret(r)
  <2>1. ListKept(r) /\ Op(r) # "bind" /\ UNCHANGED held
    BY <1>1, <1>4, <1>12 DEF DropProvisionSecret, DropBindingSecret
  <2>2. QED
    BY <1>1, <2>1
<1>13. CASE CopySecret(r)
  <2>1. ListKept(r)
    BY <1>1, <1>2, <1>4, <1>13 DEF CopySecret
  <2>2. \/ \E call \in HandlerPC : Goes(r, call)
        \/ \E code \in Codes \ {"done"} : Answers(r, code)
    BY <1>13 DEF CopySecret, HandlerPC
  <2>3. QED
    BY <1>1, <1>13, <2>1, <2>2, NotDone DEF CopySecret
<1>14. CASE ListBinding(r)
  <2>1. CASE Refused(r, "error")
    BY <1>1, <1>2, <1>14, <2>1, NotDone DEF ListBinding, Refused
  <2>2. CASE SetServiceInstance(AddBinding(held[r], Target(r)), held[r].params)
    <3>1. Target(r) \in Bindings
      BY <1>1, <1>14 DEF ListBinding, Fits, BindMethods
    <3>2. /\ AddBinding(held[r], Target(r)).listed = held[r].listed \union {Target(r)}
          /\ AddBinding(held[r], Target(r)).marked = {}
      BY <1>1, <1>5 DEF AddBinding, HeldCopies
    <3>3. ListKept(r) /\ Target(r) \in listed'
      BY <1>1, <1>3, <2>2, <3>1, <3>2, Contents
    <3>4. QED
      BY <1>1, <1>14, <3>3 DEF ListBinding
  <2>3. QED
    BY <1>14, <2>1, <2>2 DEF ListBinding
<1>15. CASE DropBinding(r)
  <2>1. Target(r) # Instance
    BY <1>1, <1>15 DEF DropBinding, Fits, BindMethods
  <2>2. ListKept(r)
    BY <1>1, <1>2, <1>15, <2>1, ListDeleted DEF DropBinding, ListKept
  <2>3. QED
    BY <1>1, <1>15, <2>2 DEF DropBinding
<1>16. CASE UnlistBinding(r)
  <2>1. CASE Refused(r, "error")
    BY <1>1, <1>2, <1>16, <2>1 DEF UnlistBinding, Refused
  <2>2. CASE SetServiceInstance(RemoveBinding(held[r], Target(r)), held[r].params)
    <3>1. Target(r) \in Bindings
      BY <1>1, <1>16 DEF UnlistBinding, Fits, BindMethods
    <3>2. /\ RemoveBinding(held[r], Target(r)).listed \subseteq Bindings
          /\ RemoveBinding(held[r], Target(r)).marked = {Target(r)}
      BY <1>1, <1>5, <3>1, Contents DEF RemoveBinding, HasMap, HeldCopies
    <3>3. Op(r) = "unbind" /\ held[r].params \in Params \union {NoParams}
      BY <1>1, <1>16, Contents DEF UnlistBinding
    <3>4. RemoveBinding(held[r], Target(r)).marked \subseteq Bindings
      BY <3>1, <3>2
    <3>5. ListKept(r)
      BY <1>3, <2>2, <3>2, <3>3, <3>4
    <3>6. QED
      BY <1>1, <1>16, <3>5 DEF UnlistBinding
  <2>3. QED
    BY <1>16, <2>1, <2>2 DEF UnlistBinding
<1>17. QED
  BY <1>6, <1>7, <1>8, <1>9, <1>10, <1>11, <1>12, <1>13, <1>14, <1>15, <1>16 DEF HandlerStep

\* A step of a handler and the list.
LEMMA HandlerKeepsList ==
  ASSUME IInv, ListInv, NEW r \in Tokens, HandlerStep(r)
  PROVE  ListInv'
<1>1. TypeOK /\ Fits(r)
  BY DEF IInv, JobInv
<1>2. HandlerMoves(r)
  BY <1>1, ReadingMoves, WritingMoves, SetupMoves DEF HandlerStep, RecordsJob
<1>3. Lists(r)
  BY HandlerLists
<1>4. /\ req' = req /\ read' = read /\ pc'[r] # "idle" /\ Op(r)' = Op(r) /\ Target(r)' = Target(r)
      /\ \A t \in Tokens \ {r} : /\ pc'[t] = pc[t] /\ answer'[t] = answer[t]
                                /\ held'[t] = held[t]
  BY <1>1, <1>2 DEF HandlerMoves, PcMoves, AnswerMoves, HeldMoves, TypeOK, Op, Target
<1>5. read'[r].marked = {}
  BY <1>4 DEF ListInv, Unmarked
<1>6. QED
  BY <1>3, <1>4, <1>5, OneLists DEF Lists

\* Requests only read the list.
LEMMA RequestKeepsList ==
  ASSUME IInv, ListInv, NEW r \in Tokens, Request(r)
  PROVE  ListInv'
<1>1. TypeOK /\ Asked(r)
  BY RequestFrame DEF IInv
<1>2. /\ UNCHANGED storeVars /\ read' = read
      /\ \A t \in Tokens \ {r} : /\ req'[t] = req[t] /\ pc'[t] = pc[t]
                                /\ answer'[t] = answer[t] /\ held'[t] = held[t]
      /\ pc[r] = "idle" /\ pc'[r] # "idle"
  BY <1>1 DEF Asked, Goes, Answers, AnswersFor, TypeOK, jobVars
<1>3. held'[r].marked = {} /\ read'[r].marked = {}
  <2>1. Hold(GetServiceInstance, FALSE).marked = {}
    BY DEF Hold, GetServiceInstance, ListInv, Unmarked
  <2>2. QED
    BY <1>1, <1>2, <2>1 DEF Asked, TypeOK, ListInv, Unmarked
<1>4. answer'[r].code # "done"
  <2>1. answer[r].code = "none"
    BY <1>2 DEF ListInv, Unasked
  <2>2. QED
    BY <1>1, <2>1 DEF Asked, Goes, Answers, AnswersFor, TypeOK
<1>5. ListKept(r)
  BY <1>2 DEF ListKept, ListInv, storeVars
<1>6. QED
  BY <1>2, <1>3, <1>4, <1>5, OneLists

\* Jobs touch the list in their cleanups and where the dashboard URL is stored.
LEMMA JobKeepsList ==
  ASSUME IInv, ListInv, NEW r \in Tokens, RunnerStep(r) \/ SubscriberStep(r)
  PROVE  ListInv'
<1> USE DEF storeVars
<1>1. /\ TypeOK /\ StoreTypeOK /\ Fits(r) /\ Target(r) \in Ids /\ Instance \in Ids /\ store = "crd"
      /\ marked = {} /\ read[r].marked = {} /\ read[r] \in Copies
      /\ Instance \notin objects => listed = {}
  BY Contents DEF IInv, TypeOK, JobInv, Ids, ListInv, Unmarked
<1>2. UNCHANGED storeVars => ListKept(r)
  BY <1>1 DEF ListKept
<1>3. ASSUME NEW copy, copy.listed \subseteq Bindings, copy.marked \subseteq Bindings,
             copy.marked = {} \/ (Op(r) = "unbind" /\ copy.marked \subseteq {Target(r)}),
             NEW p \in Params \union {NoParams}, SetServiceInstance(copy, p)
      PROVE  ListKept(r)
  BY <1>1, <1>3, ListWritten DEF ListKept
<1>4. ASSUME NEW id \in Ids, CreateSecret(id) \/ DeleteSecret(id)
      PROVE  ListKept(r)
  BY <1>1, <1>4 DEF CreateSecret, DeleteSecret, ListKept
<1>5. ASSUME NEW id \in Ids, NEW s, SetState(id, r, s, Op(r))
      PROVE  ListKept(r)
  BY <1>1, <1>5 DEF SetState, Crd!SetState, ListKept
<1>6. UNCHANGED <<req, held, pc, answer>>
  BY DEF RunnerStep, RunnerEnds, RunnerSkips, RunnerSteps, SubscriberStep, SubscriberSteps, requestVars,
         NotifyProgress, NotifyFinal, DeleteInstance, DeleteInstanceSecret, RecordCleanupFailure,
         ReadInstance, ReadBinding, DeleteBinding, UnlistAfterUnbind, ReadForDashboard, SaveDashboard
<1>7. ListKept(r)
  <2>1. CASE RunnerStep(r)
    BY <1>1, <1>2, <1>4, <2>1 DEF RunnerStep, RunnerEnds, RunnerSkips
  <2>2. CASE NotifyProgress(r) \/ NotifyFinal(r) \/ RecordCleanupFailure(r)
    BY <1>1, <1>2, <1>5, <2>2
       DEF NotifyProgress, NotifyFinal, RecordCleanupFailure, RecordsState, StateLost
  <2>3. CASE DeleteInstance(r)
    BY <1>1, <1>2, <2>3, ListDeleted DEF DeleteInstance, ListKept, Fits
  <2>4. CASE DeleteInstanceSecret(r)
    BY <1>1, <1>4, <2>4 DEF DeleteInstanceSecret
  <2>5. CASE ReadInstance(r) \/ ReadBinding(r) \/ ReadForDashboard(r)
    BY <1>2, <2>5 DEF ReadInstance, ReadBinding, ReadForDashboard
  <2>6. CASE DeleteBinding(r)
    <3>1. Target(r) # Instance
      BY <1>1, <2>6 DEF DeleteBinding, Fits, BindMethods
    <3>2. QED
      BY <1>1, <1>2, <2>6, <3>1, ListDeleted DEF DeleteBinding, ListKept
  <2>7. CASE UnlistAfterUnbind(r)
    <3>1. Target(r) \in Bindings /\ Op(r) = "unbind" /\ read[r].params \in Params \union {NoParams}
      BY <1>1, <2>7, Contents DEF UnlistAfterUnbind, Fits, BindMethods
    <3>2. /\ RemoveBinding(read[r], Target(r)).listed \subseteq Bindings
          /\ RemoveBinding(read[r], Target(r)).marked = {Target(r)}
      BY <1>1, <3>1, Contents DEF RemoveBinding, HasMap, Copies
    <3>3. CASE SetServiceInstance(RemoveBinding(read[r], Target(r)), read[r].params)
      <4>1. RemoveBinding(read[r], Target(r)).marked \subseteq Bindings
        BY <3>1, <3>2
      <4>2. QED
        BY <1>3, <3>1, <3>2, <3>3, <4>1
    <3>4. QED
      BY <1>2, <2>7, <3>3 DEF UnlistAfterUnbind, NoteRefused
  <2>8. CASE SaveDashboard(r)
    <3>1. CASE SetServiceInstance(read[r], read[r].params)
      <4>1. /\ read[r].listed \subseteq Bindings /\ read[r].marked \subseteq Bindings
            /\ read[r].params \in Params \union {NoParams}
        BY <1>1, Contents
      <4>2. QED
        BY <1>1, <1>3, <3>1, <4>1
    <3>2. QED
      BY <1>2, <2>8, <3>1 DEF SaveDashboard, NoteRefused
  <2>9. QED
    BY <2>1, <2>2, <2>3, <2>4, <2>5, <2>6, <2>7, <2>8 DEF SubscriberStep
<1>8. /\ read'[r].marked = {}
      /\ \A t \in Tokens \ {r} : read'[t] = read[t]
  <2>1. UNCHANGED read \/ read' = [read EXCEPT ![r] = GetServiceInstance]
    BY DEF RunnerStep, RunnerEnds, RunnerSkips, RunnerSteps, SubscriberStep,
         NotifyProgress, NotifyFinal, DeleteInstance, DeleteInstanceSecret, RecordCleanupFailure,
         ReadInstance, ReadBinding, DeleteBinding, UnlistAfterUnbind, ReadForDashboard, SaveDashboard
  <2>2. GetServiceInstance.marked = {}
    BY <1>1 DEF GetServiceInstance
  <2>3. QED
    BY <1>1, <2>1, <2>2 DEF TypeOK
<1>9. pc[r] # "idle"
  <2>1. run[r] # "none"
    BY DEF RunnerStep, RunnerEnds, RunnerSkips, SubscriberStep,
           NotifyProgress, NotifyFinal, DeleteInstance, DeleteInstanceSecret, RecordCleanupFailure,
           ReadInstance, ReadBinding, DeleteBinding, UnlistAfterUnbind, ReadForDashboard, SaveDashboard,
           IInv, JobInv, Started
  <2>2. QED
    BY <2>1, Underway DEF Unstarted
<1>10. held'[r].marked = {}
  BY <1>6 DEF ListInv, Unmarked
<1>11. Op(r)' = Op(r) /\ Target(r)' = Target(r)
  BY <1>6 DEF Op, Target
<1>12. QED
  BY <1>6, <1>7, <1>8, <1>9, <1>10, <1>11, OneLists

\* Nothing is listed or taken from the list, and no request says anything else.
LEMMA ListUntouched ==
  ASSUME ListInv, UNCHANGED <<store, objects, listed, marked, req, held>>,
         \A r \in Tokens :
           /\ pc'[r] = "idle" => pc[r] = "idle"
           /\ answer'[r] = answer[r] \/ (pc[r] # "idle" /\ answer'[r].code = "lost")
           /\ read'[r].marked = {}
  PROVE  ListInv'
<1>1. Unmarked' /\ (\A r \in Tokens : Unasked(r)')
  BY DEF ListInv, Unmarked, Unasked, Op
<1>2. BoundIsListed'
  BY DEF ListInv, BoundIsListed, Op, Target
<1>3. QED
  BY <1>1, <1>2 DEF ListInv

\* The broker dies and recovers: the list is where it was.
LEMMA ProcessKeepsList ==
  ASSUME IInv, ListInv, Crash \/ Recover
  PROVE  ListInv'
<1> USE DEF storeVars, requestVars, jobVars
<1>1. TypeOK /\ store = "crd" /\ \A r \in Tokens : read[r].marked = {}
  BY DEF IInv, ListInv, Unmarked
<1>2. CASE Crash
  BY <1>1, <1>2, ListUntouched DEF Crash, NoCopy
<1>3. CASE Restart \/ RecoveryStops \/ RecoveryEnds
  BY <1>1, <1>3, ListUntouched DEF Restart, RecoveryStops, RecoveryEnds
<1>4. ASSUME NEW r \in Tokens, RecoverJob(r)
      PROVE  ListInv'
  BY <1>1, <1>4, ListUntouched DEF RecoverJob, Goes, TypeOK
<1>5. ASSUME NEW r \in Tokens, RestartJob(r)
      PROVE  ListInv'
  <2>1. UNCHANGED <<store, objects, listed, marked, req, held, answer, read>>
    BY <1>1, <1>5 DEF RestartJob, SetState, Crd!SetState, JobStarts
  <2>2. \A t \in Tokens : pc'[t] = "idle" => pc[t] = "idle"
    BY <1>1, <1>5 DEF RestartJob, TypeOK
  <2>3. QED
    BY <1>1, <2>1, <2>2, ListUntouched
<1>6. QED
  BY <1>2, <1>3, <1>4, <1>5 DEF Recover

-----------------------------------------------------------------------------
(* The theorem.                                                            *)

\* Over CRDs the binding of a bind that was answered with its credentials stays in
\* the instance's list, through every write of a stale copy and every crash, until
\* somebody asks to undo it.
THEOREM BoundListed ==
  ASSUME Stores = {"crd"}
  PROVE  Spec => []BoundIsListed
<1>1. Init => ListInv
  BY DEF Init, ListInv, Unmarked, Unasked, BoundIsListed, Op, NoRequest, Hold, NoCopy
<1>2. IInv /\ ListInv /\ [Next]_vars => ListInv'
  <2>1. ASSUME IInv, ListInv, Next
        PROVE  ListInv'
    BY <2>1, HandlerKeepsList, RequestKeepsList, JobKeepsList, ProcessKeepsList DEF Next
  <2>2. ASSUME ListInv, UNCHANGED vars
        PROVE  ListInv'
    BY <2>2 DEF vars, storeVars, requestVars, jobVars, ListInv, Unmarked, Unasked, BoundIsListed, Op, Target
  <2>3. QED
    BY <2>1, <2>2
<1>3. ListInv => BoundIsListed
  BY DEF ListInv
<1>4. QED
  BY <1>1, <1>2, <1>3, Invariant, PTL DEF Spec
=============================================================================

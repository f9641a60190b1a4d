------------------------------- MODULE Store -------------------------------
(***************************************************************************)
(* What the broker persists about one service instance and its bindings,   *)
(* whichever of the two stores holds it: objects of the Kubernetes API     *)
(* server (CrdDao) or keys of etcd (EtcdDao), and the extracted            *)
(* credentials, which are Kubernetes secrets with either.                  *)
(***************************************************************************)
EXTENDS FiniteSets

CONSTANTS
  Instance,   \* the id of the service instance
  Bindings,   \* the ids its bindings may have
  Tokens,     \* the tokens jobs may have
  NoToken,    \* no job
  Params,     \* what the user's parameters may be
  NoParams    \* no parameters: the record does not exist

ASSUME StoreAssumption ==
  /\ Instance \notin Bindings
  /\ NoParams \notin Params
  /\ NoToken \notin Tokens

Ids == {Instance} \union Bindings
Methods == {"provision", "update", "deprovision", "bind", "unbind"}
BindMethods == {"bind", "unbind"}
JobStates == {"not yet started", "in progress", "succeeded", "failed"}
NoJobs == [t \in Tokens |-> "none"]

VARIABLES
  store,      \* dao.type, "crd" or "etcd"
  objects,    \* the ids that have a record
  params,     \* params[id]: the parameters of the record
  listed,     \* the bindings the instance's record holds as true
  marked,     \* the bindings it holds as false (etcd)
  keys,       \* keys[b]: the job CreateJobKey of the binding names (etcd)
  jobs,       \* jobs[id]: the job states kept under the id, token -> state
  recorded,   \* the ids that have had a job (etcd: /state/<id>/job exists)
  secrets     \* the ids that have extracted credentials

storeVars == <<store, objects, params, listed, marked, keys, jobs, recorded, secrets>>

StoreTypeOK ==
  /\ store \in {"crd", "etcd"}
  /\ objects \subseteq Ids
  /\ params \in [Ids -> Params \union {NoParams}]
  /\ listed \subseteq Bindings
  /\ marked \subseteq Bindings
  /\ keys \in [Bindings -> Tokens \union {NoToken}]
  /\ jobs \in [Ids -> [Tokens -> JobStates \union {"none"}]]
  /\ recorded \subseteq Ids
  /\ secrets \subseteq Ids

-----------------------------------------------------------------------------
(* bundle.ServiceInstance, the copy a caller of GetServiceInstance holds:  *)
(* BindingIDs maps bindings to true (listed) or false (marked).            *)

Copies == [listed : SUBSET Bindings, marked : SUBSET Bindings,
           params : Params \union {NoParams}]
NoCopy == [listed |-> {}, marked |-> {}, params |-> NoParams]

GetServiceInstance == [listed |-> listed, marked |-> marked, params |-> params[Instance]]

AddBinding(copy, b) ==
  [copy EXCEPT !.listed = @ \union {b}, !.marked = @ \ {b}]

\* The map of an instance of etcd is nil until it has an entry; that of a
\* converted BundleInstance never is.
HasMap(copy) == store = "crd" \/ copy.listed \union copy.marked # {}

\* RemoveBinding keeps the entry, as false.
RemoveBinding(copy, b) ==
  IF HasMap(copy)
    THEN [copy EXCEPT !.listed = @ \ {b}, !.marked = @ \union {b}]
    ELSE copy

-----------------------------------------------------------------------------
(* Extracted credentials.                                                  *)

CreateSecret(id) ==
  /\ secrets' = secrets \union {id}
  /\ UNCHANGED <<store, objects, params, listed, marked, keys, jobs, recorded>>

\* A plausible slip: only what still has its record loses its credentials.
DeletesWithObject(id) ==
  /\ secrets' = IF id \in objects THEN secrets \ {id} ELSE secrets
  /\ UNCHANGED <<store, objects, params, listed, marked, keys, jobs, recorded>>

\* DeleteExtractedCredentials: deleting what is not there is no error.
DeleteSecret(id) ==
  /\ secrets' = secrets \ {id}
  /\ UNCHANGED <<store, objects, params, listed, marked, keys, jobs, recorded>>
=============================================================================

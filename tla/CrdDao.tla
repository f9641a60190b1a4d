------------------------------- MODULE CrdDao -------------------------------
(***************************************************************************)
(* The CRD data access object (pkg/dao/crd/dao.go) on one service instance *)
(* and its bindings.  The instance is a BundleInstance object of the       *)
(* Kubernetes API server, each of its bindings a BundleBinding object; job *)
(* states are kept inside the object they are about.                       *)
(*                                                                         *)
(* Every write reads the object, changes the copy and puts it back; the    *)
(* API server refuses the put when somebody else has written or deleted    *)
(* the object in between.  Such a pair of calls is one step here, which    *)
(* takes effect at the put.                                                *)
(***************************************************************************)
EXTENDS Store

\* A plausible slip: the caller's bindings replace the stored ones.
CallersBindings(bound, removed, stored) == bound

\* A plausible slip: bindings marked as removed are not told from the others.
IgnoresMarks(bound, removed, stored) == stored \union bound

\* intersectionOfBindings: a caller that marks a stored binding as removed
\* removes the marked ones and adds none; another adds all those it knows of.
intersectionOfBindings(bound, removed, stored) ==
  IF stored \intersect removed # {} THEN stored \ removed
  ELSE stored \union bound

\* A plausible slip: the stored status is replaced by the caller's, which has
\* no jobs.
ForgetsJobs(id, js) == NoJobs

\* An update of an object keeps the jobs the stored one has.
KeepsJobs(id, js) == js

\* SetServiceInstance: an update when the instance exists, else a creation,
\* which stores every binding id the caller holds, removed ones too.
SetServiceInstance(copy, p) ==
  /\ objects' = objects \union {Instance}
  /\ params' = [params EXCEPT ![Instance] = p]
  /\ listed' = IF Instance \in objects
                 THEN intersectionOfBindings(copy.listed, copy.marked, listed)
                 ELSE copy.listed \union copy.marked
  /\ jobs' = [jobs EXCEPT ![Instance] = KeepsJobs(Instance, @)]
  /\ UNCHANGED <<store, marked, keys, recorded, secrets>>

\* SetBindInstance: a creation, or an update of the parameters.  The object has
\* no place for the CreateJobKey.
SetBindInstance(b, p, key) ==
  /\ objects' = objects \union {b}
  /\ params' = [params EXCEPT ![b] = p]
  /\ jobs' = [jobs EXCEPT ![b] = KeepsJobs(b, @)]
  /\ UNCHANGED <<store, listed, marked, keys, recorded, secrets>>

\* DeleteServiceInstance and DeleteBindInstance: the jobs go with the object.
DeleteObject(id) ==
  /\ id \in objects
  /\ objects' = objects \ {id}
  /\ params' = [params EXCEPT ![id] = NoParams]
  /\ jobs' = [jobs EXCEPT ![id] = NoJobs]
  /\ listed' = IF id = Instance THEN {} ELSE listed
  /\ UNCHANGED <<store, marked, keys, recorded, secrets>>

\* SetState looks for a BundleBinding when the job binds or unbinds, for a
\* BundleInstance otherwise.
HoldsJobsOf(id, method) == id \in objects /\ (id = Instance <=> method \notin BindMethods)

\* SetState: fails when there is no such object.
SetState(id, t, s, method) ==
  /\ HoldsJobsOf(id, method)
  /\ jobs' = [jobs EXCEPT ![id][t] = s]
  /\ UNCHANGED <<store, objects, params, listed, marked, keys, recorded, secrets>>

\* GetState: without any recorded job it is no error, but no state either.
GetState(id, t) ==
  CASE id \notin objects -> "not found"
    [] id \in objects /\ jobs[id] # NoJobs /\ jobs[id][t] = "none" -> "unknown token"
    [] OTHER -> jobs[id][t]

\* GetSvcInstJobsByState: the id is looked up among bindings and instances.
JobsUnknown(id) == id \notin objects
JobsByState(id, s) == {t \in Tokens : jobs[id][t] = s}

\* FindJobStateByState, over every object there is.
FindJobStateByState(s) == {t \in Tokens : \E id \in objects : jobs[id][t] = s}
=============================================================================

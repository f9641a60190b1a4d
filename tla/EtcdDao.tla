------------------------------ MODULE EtcdDao ------------------------------
(***************************************************************************)
(* The etcd data access object (pkg/dao/etcd/dao.go) on one service        *)
(* instance and its bindings.  Every record is one JSON value under a key  *)
(* of its own: /service_instance/<id>, /bind_instance/<id> and, apart from *)
(* the records they are about, /state/<id>/job/<token>.                    *)
(*                                                                         *)
(* A write is a put of the whole value: it is never refused, and what      *)
(* somebody else has written since the caller read it is lost.             *)
(***************************************************************************)
EXTENDS Store

\* What is put is what the caller holds.
SetServiceInstance(copy, p) ==
  /\ objects' = objects \union {Instance}
  /\ params' = [params EXCEPT ![Instance] = p]
  /\ listed' = copy.listed
  /\ marked' = copy.marked
  /\ UNCHANGED <<store, keys, jobs, recorded, secrets>>

\* The CreateJobKey is part of the value.
SetBindInstance(b, p, key) ==
  /\ objects' = objects \union {b}
  /\ params' = [params EXCEPT ![b] = p]
  /\ keys' = [keys EXCEPT ![b] = key]
  /\ UNCHANGED <<store, listed, marked, jobs, recorded, secrets>>

\* DeleteServiceInstance and DeleteBindInstance: job states have keys of their
\* own and stay.
DeleteObject(id) ==
  /\ id \in objects
  /\ objects' = objects \ {id}
  /\ params' = [params EXCEPT ![id] = NoParams]
  /\ IF id = Instance
       THEN listed' = {} /\ marked' = {} /\ UNCHANGED keys
       ELSE keys' = [keys EXCEPT ![id] = NoToken] /\ UNCHANGED <<listed, marked>>
  /\ UNCHANGED <<store, jobs, recorded, secrets>>

\* SetState asks for no record.
SetState(id, t, s) ==
  /\ jobs' = [jobs EXCEPT ![id][t] = s]
  /\ recorded' = recorded \union {id}
  /\ UNCHANGED <<store, objects, params, listed, marked, keys, secrets>>

\* GetState, GetStateByKey.
GetState(id, t) == IF jobs[id][t] = "none" THEN "not found" ELSE jobs[id][t]

\* getJobsForSvcInst: without a key for the id's jobs an error.
JobsUnknown(id) == id \notin recorded

\* GetSvcInstJobsByState.
JobsByState(id, s) == {t \in Tokens : jobs[id][t] = s}

\* FindJobStateByState: over every id, whether or not its record is there.
FindJobStateByState(s) == {t \in Tokens : \E id \in Ids : jobs[id][t] = s}
=============================================================================

-------------------------------- MODULE Dao --------------------------------
(***************************************************************************)
(* The data access object of the broker (pkg/dao/dao.go): the CRD or the   *)
(* etcd one, as the configuration says.                                    *)
(***************************************************************************)
EXTENDS Store

Crd == INSTANCE CrdDao
Etcd == INSTANCE EtcdDao

\* A write may be refused because of another's, or finds its object gone.
Conflicts == store = "crd"

\* Where there is no record, or (CRD) none that takes jobs of the method.
SetStateFails(id, method) == store = "crd" /\ ~Crd!HoldsJobsOf(id, method)

SetServiceInstance(copy, p) ==
  \/ store = "crd" /\ Crd!SetServiceInstance(copy, p)
  \/ store = "etcd" /\ Etcd!SetServiceInstance(copy, p)

SetBindInstance(b, p, key) ==
  \/ store = "crd" /\ Crd!SetBindInstance(b, p, key)
  \/ store = "etcd" /\ Etcd!SetBindInstance(b, p, key)

DeleteObject(id) ==
  \/ store = "crd" /\ Crd!DeleteObject(id)
  \/ store = "etcd" /\ Etcd!DeleteObject(id)

SetState(id, t, s, method) ==
  \/ store = "crd" /\ Crd!SetState(id, t, s, method)
  \/ store = "etcd" /\ Etcd!SetState(id, t, s)

GetState(id, t) == IF store = "crd" THEN Crd!GetState(id, t) ELSE Etcd!GetState(id, t)

JobsUnknown(id) == IF store = "crd" THEN Crd!JobsUnknown(id) ELSE Etcd!JobsUnknown(id)

JobsByState(id, s) ==
  IF store = "crd" THEN Crd!JobsByState(id, s) ELSE Etcd!JobsByState(id, s)

FindJobStateByState(s) ==
  IF store = "crd" THEN Crd!FindJobStateByState(s) ELSE Etcd!FindJobStateByState(s)
=============================================================================

------------------------------ MODULE Bootstrap ------------------------------
(***************************************************************************)
(* The catalogue of the broker: the specs (Bundle objects) it stores, how  *)
(* Bootstrap (pkg/broker/broker.go) brings them up to date with what the   *)
(* registries hold, and what the instances make of them.  A spec that no   *)
(* registry offers any more is first marked, which hides it from Catalog   *)
(* and Provision, and deleted by a later Bootstrap that finds it still     *)
(* marked and in use by no instance.                                       *)
(*                                                                         *)
(* A Bootstrap runs beside the requests and makes one store call per step. *)
(* The id of a spec is a hash of its registry's name and its own, so each  *)
(* spec has one registry; those that developers push have none here.       *)
(***************************************************************************)
EXTENDS Naturals

CONSTANTS
  Specs,          \* the ids a spec may have
  Registries,     \* the configured registries
  Pushed,         \* stands for the registry name of pushed specs
  From,           \* From[s]: the registry of spec s
  Fatal,          \* the registries with fail_on_error
  Instances,      \* the ids a service instance may have
  NoSpec,         \* no spec: the instance does not exist
  Bootstrappers,  \* the threads that bootstrap: the ticker, requests
  MaxEdits,       \* bound: how often developers push or remove specs
  MaxCrashes      \* bound: how often the broker dies

ASSUME BootstrapAssumption ==
  /\ Pushed \notin Registries
  /\ From \in [Specs -> Registries \union {Pushed}]
  /\ Fatal \subseteq Registries
  /\ NoSpec \notin Specs
  /\ MaxEdits \in Nat
  /\ MaxCrashes \in Nat

VARIABLES
  stored,     \* the specs whose object exists
  marked,     \* those of them that have Delete set
  overtaken,  \* history: the instances whose Provision had read a spec when it
              \* was marked, and which no list of the instances has shown since
  offered,    \* the specs the registries hold
  uses,       \* uses[i]: the spec instance i refers to
  held,       \* held[i]: the spec that a Provision of i has read
  pc,         \* pc[b]: the call Bootstrap b is about to make
  unwanted,   \* unwanted[b]: the marked specs it is about to delete
  lookups,    \* lookups[b]: the instances' specs it has yet to read
  known,      \* known[b]: its daoSpecs, the specs stored after its deletions
  unloaded,   \* unloaded[b]: the registries it has yet to load
  failed,     \* failed[b]: the registries that gave an error
  manifest,   \* manifest[b]: the specs it has loaded
  toSet,      \* toSet[b]: those of a batch it has yet to write
  removing,   \* the specs RemoveSpecs is about to delete
  edits,      \* how often developers have pushed or removed specs
  crashes     \* how often the broker has died

catalogVars == <<stored, marked, overtaken>>
instanceVars == <<uses, held>>
loadVars == <<known, unloaded, failed, manifest>>
sweepVars == <<unwanted, lookups>>
bootstrapVars == <<pc, sweepVars, loadVars, toSet>>
developerVars == <<removing, edits>>
vars == <<catalogVars, offered, instanceVars, bootstrapVars, developerVars, crashes>>

Calls == {"idle", "instances", "look up", "delete", "load", "set", "mark"}
RegistrySpecs == {s \in Specs : From[s] # Pushed}

TypeOK ==
  /\ stored \subseteq Specs
  /\ marked \subseteq stored
  /\ overtaken \subseteq Instances
  /\ offered \subseteq RegistrySpecs
  /\ uses \in [Instances -> Specs \union {NoSpec}]
  /\ held \in [Instances -> Specs \union {NoSpec}]
  /\ pc \in [Bootstrappers -> Calls]
  /\ unwanted \in [Bootstrappers -> SUBSET Specs]
  /\ lookups \in [Bootstrappers -> SUBSET Specs]
  /\ known \in [Bootstrappers -> SUBSET Specs]
  /\ unloaded \in [Bootstrappers -> SUBSET Registries]
  /\ failed \in [Bootstrappers -> SUBSET Registries]
  /\ manifest \in [Bootstrappers -> SUBSET Specs]
  /\ toSet \in [Bootstrappers -> SUBSET Specs]
  /\ removing \subseteq Specs
  /\ edits \in 0 .. MaxEdits
  /\ crashes \in 0 .. MaxCrashes

Nothing == [b \in Bootstrappers |-> {}]

Init ==
  /\ stored = {}
  /\ marked = {}
  /\ overtaken = {}
  /\ offered \in SUBSET RegistrySpecs
  /\ uses = [i \in Instances |-> NoSpec]
  /\ held = [i \in Instances |-> NoSpec]
  /\ pc = [b \in Bootstrappers |-> "idle"]
  /\ unwanted = Nothing
  /\ lookups = Nothing
  /\ known = Nothing
  /\ unloaded = Nothing
  /\ failed = Nothing
  /\ manifest = Nothing
  /\ toSet = Nothing
  /\ removing = {}
  /\ edits = 0
  /\ crashes = 0

-----------------------------------------------------------------------------
(* The data access object's operations on specs.                           *)

\* A plausible slip: a mark is written whether the spec is still there or not.
MarksUnseen(s, delete) ==
  /\ stored' = IF delete THEN stored ELSE stored \union {s}
  /\ marked' = IF delete THEN marked \union {s} ELSE marked \ {s}
  /\ UNCHANGED overtaken

\* SetSpec: an update or a creation, under bundleLock.  A deletion between its
\* read and its write makes it fail: as if it had come before the deletion.
SetSpec(s, delete) ==
  /\ stored' = stored \union {s}
  /\ marked' = IF delete THEN marked \union {s} ELSE marked \ {s}
  /\ overtaken' = overtaken \union {i \in Instances : delete /\ held[i] = s}

\* DeleteSpec is an error when the spec is not there.
DeleteSpec(s) ==
  /\ s \in stored
  /\ stored' = stored \ {s}
  /\ marked' = marked \ {s}
  /\ UNCHANGED overtaken

\* The specs that Catalog shows and Provision accepts.
Catalog == stored \ marked

InUse == {uses[i] : i \in Instances} \ {NoSpec}

-----------------------------------------------------------------------------
(* Bootstrap, first half: delete what was marked and is not in use.        *)

At(b, call) == pc[b] = call
Goes(b, call) == pc' = [pc EXCEPT ![b] = call]

Bootstraps ==
  UNCHANGED <<offered, instanceVars, developerVars, crashes>>

\* Bootstrap returns: what it held in memory is gone.
Returns(b) ==
  /\ Goes(b, "idle")
  /\ unwanted' = [unwanted EXCEPT ![b] = {}]
  /\ lookups' = [lookups EXCEPT ![b] = {}]
  /\ known' = [known EXCEPT ![b] = {}]
  /\ unloaded' = [unloaded EXCEPT ![b] = {}]
  /\ failed' = [failed EXCEPT ![b] = {}]
  /\ manifest' = [manifest EXCEPT ![b] = {}]
  /\ toSet' = [toSet EXCEPT ![b] = {}]

\* A plausible slip: all that is stored counts as marked.
AllSpecs(specs) == specs

getMarkedSpecs(specs) == specs \intersect marked

Begin(b) ==
  /\ At(b, "idle")
  /\ unwanted' = [unwanted EXCEPT ![b] = getMarkedSpecs(stored)]
  /\ Goes(b, "instances")
  /\ UNCHANGED <<catalogVars, lookups, loadVars, toSet>>
  /\ Bootstraps

\* A plausible slip: the instances are not looked at.
AllMarked(specs, used) == specs

\* getSafeToDeleteSpecs.
safeToDelete(specs, used) == specs \ used

\* BatchGetBundleInstances begins: the list of the instances.
ListInstances(b) ==
  /\ At(b, "instances")
  /\ lookups' = [lookups EXCEPT ![b] = InUse]
  /\ unwanted' = [unwanted EXCEPT ![b] = safeToDelete(@, InUse)]
  /\ overtaken' = {i \in overtaken : uses[i] = NoSpec}
  /\ Goes(b, "look up")
  /\ UNCHANGED <<stored, marked, loadVars, toSet>>
  /\ Bootstraps

\* It goes on to read the spec of each.  If one is missing nothing is deleted.
LookUpSpec(b, s) ==
  /\ At(b, "look up")
  /\ s \in lookups[b]
  /\ \/ /\ s \in stored
        /\ lookups' = [lookups EXCEPT ![b] = @ \ {s}]
        /\ UNCHANGED <<pc, unwanted>>
     \/ /\ s \notin stored
        /\ lookups' = [lookups EXCEPT ![b] = {}]
        /\ unwanted' = [unwanted EXCEPT ![b] = {}]
        /\ Goes(b, "delete")
  /\ UNCHANGED <<catalogVars, loadVars, toSet>>
  /\ Bootstraps

LookedUp(b) ==
  /\ At(b, "look up")
  /\ lookups[b] = {}
  /\ Goes(b, "delete")
  /\ UNCHANGED <<catalogVars, sweepVars, loadVars, toSet>>
  /\ Bootstraps

\* BatchDeleteSpecs: an error ends Bootstrap.
DeleteUnwanted(b, s) ==
  /\ At(b, "delete")
  /\ s \in unwanted[b]
  /\ \/ /\ DeleteSpec(s)
        /\ unwanted' = [unwanted EXCEPT ![b] = @ \ {s}]
        /\ UNCHANGED <<pc, lookups, loadVars, toSet>>
     \/ s \notin stored /\ Returns(b) /\ UNCHANGED catalogVars
  /\ Bootstraps

-----------------------------------------------------------------------------
(* Bootstrap, second half: load the registries, write what they hold, mark *)
(* what they do not.                                                       *)

Reread(b) ==
  /\ At(b, "delete")
  /\ unwanted[b] = {}
  /\ known' = [known EXCEPT ![b] = stored]
  /\ unloaded' = [unloaded EXCEPT ![b] = Registries]
  /\ Goes(b, "load")
  /\ UNCHANGED <<catalogVars, sweepVars, failed, manifest, toSet>>
  /\ Bootstraps

Loads(b, r) ==
  /\ At(b, "load")
  /\ r \in unloaded[b]
  /\ unloaded' = [unloaded EXCEPT ![b] = @ \ {r}]

LoadSpecs(b, r) ==
  /\ Loads(b, r)
  /\ manifest' = [manifest EXCEPT ![b] = @ \union {s \in offered : From[s] = r}]
  /\ UNCHANGED <<catalogVars, pc, sweepVars, known, failed, toSet>>
  /\ Bootstraps

\* A registry that fails delivers nothing, and may end Bootstrap.
RegistryFails(b, r) ==
  /\ \/ /\ At(b, "load")
        /\ r \in unloaded[b] \intersect Fatal
        /\ Returns(b)
     \/ /\ r \notin Fatal
        /\ Loads(b, r)
        /\ failed' = [failed EXCEPT ![b] = @ \union {r}]
        /\ UNCHANGED <<pc, sweepVars, known, manifest, toSet>>
  /\ UNCHANGED catalogVars
  /\ Bootstraps

\* All registries are asked: when none answered that is an error.
Loaded(b) ==
  /\ At(b, "load")
  /\ unloaded[b] = {}
  /\ IF failed[b] = Registries THEN Returns(b)
     ELSE /\ toSet' = [toSet EXCEPT ![b] = manifest[b]]
          /\ Goes(b, "set")
          /\ UNCHANGED <<sweepVars, loadVars>>
  /\ UNCHANGED catalogVars
  /\ Bootstraps

\* BatchSetSpecs(specManifest): getSpecManifest has cleared their marks.
SetLoaded(b, s) ==
  /\ At(b, "set")
  /\ s \in toSet[b]
  /\ SetSpec(s, FALSE)
  /\ toSet' = [toSet EXCEPT ![b] = @ \ {s}]
  /\ UNCHANGED <<pc, sweepVars, loadVars>>
  /\ Bootstraps

\* A plausible slip: what was in the store is compared the wrong way round.
NewSpecs(specs, loaded) == loaded \ specs

markSpecsForDeletion(specs, loaded) == specs \ loaded

LoadedSet(b) ==
  /\ At(b, "set")
  /\ toSet[b] = {}
  /\ toSet' = [toSet EXCEPT ![b] = markSpecsForDeletion(known[b], manifest[b])]
  /\ Goes(b, "mark")
  /\ UNCHANGED <<catalogVars, sweepVars, loadVars>>
  /\ Bootstraps

\* BatchSetSpecs(markedSpecs): a copy of each, with Delete set.
SetMarked(b, s) ==
  /\ At(b, "mark")
  /\ s \in toSet[b]
  /\ SetSpec(s, TRUE)
  /\ toSet' = [toSet EXCEPT ![b] = @ \ {s}]
  /\ UNCHANGED <<pc, sweepVars, loadVars>>
  /\ Bootstraps

Completes(b) == At(b, "mark") /\ toSet[b] = {}

End(b) ==
  /\ Completes(b)
  /\ Returns(b)
  /\ UNCHANGED catalogVars
  /\ Bootstraps

-----------------------------------------------------------------------------
(* What the registries, the instances and the developers do meanwhile.     *)

RegistriesChange ==
  /\ offered' \in SUBSET RegistrySpecs
  /\ UNCHANGED <<catalogVars, instanceVars, bootstrapVars, developerVars, crashes>>

Requests == UNCHANGED <<stored, marked, offered, bootstrapVars, developerVars, crashes>>

\* Provision reads the spec, and refuses one that is marked.
ReadSpec(i, s) ==
  /\ uses[i] = NoSpec
  /\ held[i] = NoSpec
  /\ s \in Catalog
  /\ held' = [held EXCEPT ![i] = s]
  /\ overtaken' = overtaken \ {i}
  /\ UNCHANGED uses
  /\ Requests

\* It stores the instance, which refers to the spec by its id.
SaveInstance(i) ==
  /\ held[i] # NoSpec
  /\ uses' = [uses EXCEPT ![i] = held[i]]
  /\ held' = [held EXCEPT ![i] = NoSpec]
  /\ UNCHANGED overtaken
  /\ Requests

\* GetServiceInstance fails without the spec, so Deprovision needs it too.
Deprovision(i) ==
  /\ uses[i] \in stored
  /\ uses' = [uses EXCEPT ![i] = NoSpec]
  /\ UNCHANGED <<held, overtaken>>
  /\ Requests

Developers == UNCHANGED <<offered, instanceVars, bootstrapVars, crashes>>

Edits ==
  /\ edits < MaxEdits
  /\ edits' = edits + 1

AddSpec(s) ==
  /\ From[s] = Pushed
  /\ Edits
  /\ SetSpec(s, FALSE)
  /\ UNCHANGED removing
  /\ Developers

\* RemoveSpec asks nobody whether the spec is in use.
RemoveSpec(s) ==
  /\ Edits
  /\ DeleteSpec(s)
  /\ UNCHANGED removing
  /\ Developers

\* RemoveSpecs lists the specs, then deletes them until one is missing.
ListSpecs ==
  /\ removing = {}
  /\ Edits
  /\ removing' = stored
  /\ UNCHANGED catalogVars
  /\ Developers

RemoveListed(s) ==
  /\ s \in removing
  /\ \/ DeleteSpec(s) /\ removing' = removing \ {s}
     \/ s \notin stored /\ removing' = {} /\ UNCHANGED catalogVars
  /\ UNCHANGED edits
  /\ Developers

\* The broker dies and comes back with what is stored.
Crash ==
  /\ crashes < MaxCrashes
  /\ crashes' = crashes + 1
  /\ held' = [i \in Instances |-> NoSpec]
  /\ pc' = [b \in Bootstrappers |-> "idle"]
  /\ unwanted' = Nothing
  /\ lookups' = Nothing
  /\ known' = Nothing
  /\ unloaded' = Nothing
  /\ failed' = Nothing
  /\ manifest' = Nothing
  /\ toSet' = Nothing
  /\ removing' = {}
  /\ UNCHANGED <<catalogVars, offered, uses, edits>>

-----------------------------------------------------------------------------
Step(b) ==
  \/ ListInstances(b) \/ LookedUp(b) \/ Reread(b) \/ Loaded(b)
  \/ LoadedSet(b) \/ End(b)
  \/ \E s \in Specs :
       \/ LookUpSpec(b, s) \/ DeleteUnwanted(b, s)
       \/ SetLoaded(b, s) \/ SetMarked(b, s)

Next ==
  \/ \E b \in Bootstrappers :
       \/ Begin(b) \/ Step(b)
       \/ \E r \in Registries : LoadSpecs(b, r) \/ RegistryFails(b, r)
  \/ RegistriesChange
  \/ \E i \in Instances :
       \/ \E s \in Specs : ReadSpec(i, s)
       \/ SaveInstance(i) \/ Deprovision(i)
  \/ \E s \in Specs : AddSpec(s) \/ RemoveSpec(s) \/ RemoveListed(s)
  \/ ListSpecs
  \/ Crash

\* The ticker starts Bootstrap again and again and threads run on.  A registry that
\* is asked over and over answers some time.  Nothing else need happen.
Fairness ==
  /\ \A b \in Bootstrappers :
       /\ WF_vars(Begin(b))
       /\ WF_vars(Step(b) \/ \E r \in Registries : LoadSpecs(b, r) \/ RegistryFails(b, r))
       /\ \A r \in Registries : SF_vars(LoadSpecs(b, r))
  /\ \A i \in Instances : WF_vars(SaveInstance(i))

Spec == Init /\ [][Next]_vars /\ Fairness
-----------------------------------------------------------------------------
(* Invariants of a catalogue that one thread bootstraps.                   *)

OneBootstrapper == \A b, c \in Bootstrappers : b = c

\* Only the first half of Bootstrap holds specs to delete.
SweepingOnly ==
  \A b \in Bootstrappers :
    unwanted[b] # {} => pc[b] \in {"instances", "look up", "delete"}

\* What Bootstrap is about to delete is still marked, unless it is gone.
UnwantedHidden ==
  \A b \in Bootstrappers : \A s \in unwanted[b] \intersect RegistrySpecs : s \notin Catalog

\* A Provision that holds a marked spec has read it before the mark.
MarkedOvertakes ==
  \A i \in Instances :
    /\ held[i] # NoSpec => uses[i] = NoSpec
    /\ held[i] \in marked => i \in overtaken

\* So has one that holds what is about to be deleted; once the instances are listed
\* nobody else refers to it.
UnwantedUnused ==
  \A b \in Bootstrappers : \A s \in unwanted[b] \intersect RegistrySpecs :
    \A i \in Instances \ overtaken :
      /\ held[i] # s
      /\ pc[b] \in {"look up", "delete"} => uses[i] # s

\* What the store holds is accounted for: known, loaded or yet to be marked.
Accounted ==
  \A b \in Bootstrappers :
    /\ pc[b] = "load" => stored \intersect RegistrySpecs \subseteq known[b]
    /\ pc[b] = "set" =>
         /\ toSet[b] \subseteq manifest[b]
         /\ stored \intersect RegistrySpecs \subseteq known[b] \union manifest[b]
    /\ pc[b] = "mark" =>
         Catalog \intersect RegistrySpecs \subseteq manifest[b] \union toSet[b]

IInv == TypeOK /\ SweepingOnly /\ UnwantedHidden /\ Accounted

-----------------------------------------------------------------------------
(* Properties.                                                             *)

\* Bootstrap b deletes spec s.
Sweeps(b, s) ==
  /\ s \in unwanted[b] \ unwanted'[b]
  /\ s \in stored \ stored'

\* The instances are listed long before the specs are deleted, and a Provision
\* reads its spec long before it stores the instance.  A spec of a registry is
\* deleted under an instance only where both checks were stale: the Provision had
\* read the spec before an earlier Bootstrap marked it, and stored the instance
\* after this one had listed them.  Whoever was listed, or read the spec later,
\* keeps it.
UsedSpecKept ==
  [][\A b \in Bootstrappers, s \in RegistrySpecs, i \in Instances :
       Sweeps(b, s) /\ uses'[i] = s => i \in overtaken]_vars

\* What Bootstrap deletes has left the catalogue before: the platform could see a
\* catalogue without it, and one refresh that missed a registry deletes nothing.
HiddenBeforeDeleted ==
  [][\A b \in Bootstrappers, s \in RegistrySpecs : Sweeps(b, s) => s \in marked]_vars

\* When a Bootstrap completes the catalogue shows of the registries' specs only
\* those it has loaded, whatever the registries, the developers or a crash of an
\* earlier Bootstrap have done since the store was read.
OnlyLoadedShown ==
  [][\A b \in Bootstrappers :
       Completes(b) /\ ~Completes(b)' =>
         crashes' # crashes \/ Catalog' \intersect RegistrySpecs \subseteq manifest[b]]_vars

\* An instance whose spec was removed by hand.
Orphan == InUse \ stored

\* A spec that is gone from its registry for good and that no instance refers to
\* is deleted in the end, unless an orphan makes every Bootstrap pass that over.
SweptInTheEnd ==
  \A s \in RegistrySpecs :
    <>[](s \notin offered /\ s \notin InUse) => <>[](s \notin stored \/ Orphan # {})
=============================================================================

-------------------------- MODULE BootstrapProofs --------------------------
(***************************************************************************)
(* Theorems about the catalogue, for every set of specs, registries and    *)
(* instances, any number of edits and crashes.                             *)
(***************************************************************************)
EXTENDS Bootstrap, TLAPS

USE BootstrapAssumption

\* A Bootstrap that returns leaves nothing in its local variables.
LEMMA TypeOfReturn ==
  ASSUME TypeOK, NEW b \in Bootstrappers, Returns(b)
  PROVE  /\ pc' \in [Bootstrappers -> Calls]
         /\ unwanted' \in [Bootstrappers -> SUBSET Specs]
         /\ lookups' \in [Bootstrappers -> SUBSET Specs]
         /\ known' \in [Bootstrappers -> SUBSET Specs]
         /\ unloaded' \in [Bootstrappers -> SUBSET Registries]
         /\ failed' \in [Bootstrappers -> SUBSET Registries]
         /\ manifest' \in [Bootstrappers -> SUBSET Specs]
         /\ toSet' \in [Bootstrappers -> SUBSET Specs]
<1>1. {} \in SUBSET Specs /\ {} \in SUBSET Registries /\ "idle" \in Calls
  BY DEF Calls
<1>2. QED
  BY <1>1 DEF TypeOK, Returns, Goes

\* The specs in use are specs.
LEMMA TypeOfInUse == TypeOK => InUse \subseteq Specs
BY DEF TypeOK, InUse

\* What the calls of a Bootstrap leave in its local variables has their types.
LEMMA TypeOfCalls ==
  ASSUME TypeOK, NEW b \in Bootstrappers, Begin(b) \/ Step(b)
  PROVE  TypeOK'
<1> USE DEF TypeOK, Bootstraps, Goes, Calls, catalogVars, instanceVars, loadVars,
            sweepVars, developerVars, RegistrySpecs
<1>1. CASE Begin(b)
  BY <1>1 DEF Begin, getMarkedSpecs
<1>2. CASE ListInstances(b)
  BY <1>2, TypeOfInUse DEF ListInstances, safeToDelete
<1>3. CASE LookedUp(b)
  BY <1>3 DEF LookedUp
<1>4. CASE Reread(b)
  BY <1>4 DEF Reread
<1>5. CASE Loaded(b)
  <2>1. CASE failed[b] = Registries
    BY <1>5, <2>1, TypeOfReturn DEF Loaded
  <2>2. CASE failed[b] # Registries
    BY <1>5, <2>2 DEF Loaded
  <2>3. QED
    BY <2>1, <2>2
<1>6. CASE LoadedSet(b)
  BY <1>6 DEF LoadedSet, markSpecsForDeletion
<1>7. CASE End(b)
  BY <1>7, TypeOfReturn DEF End
<1>8. ASSUME NEW s \in Specs, LookUpSpec(b, s)
      PROVE  TypeOK'
  <2> lookups[b] \ {s} \in SUBSET Specs
    OBVIOUS
  <2>1. CASE s \in stored
    <3>1. lookups' \in [Bootstrappers -> SUBSET Specs]
      BY <1>8, <2>1 DEF LookUpSpec
    <3>2. QED
      BY <1>8, <2>1, <3>1 DEF LookUpSpec
  <2>2. CASE s \notin stored
    BY <1>8, <2>2 DEF LookUpSpec
  <2>3. QED
    BY <2>1, <2>2
<1>9. ASSUME NEW s \in Specs, DeleteUnwanted(b, s)
      PROVE  TypeOK'
  <2> unwanted[b] \ {s} \in SUBSET Specs
    OBVIOUS
  <2>1. CASE s \in stored
    <3>1. unwanted' \in [Bootstrappers -> SUBSET Specs]
      BY <1>9, <2>1 DEF DeleteUnwanted
    <3>2. QED
      BY <1>9, <2>1, <3>1 DEF DeleteUnwanted, DeleteSpec
  <2>2. CASE s \notin stored
    BY <1>9, <2>2, TypeOfReturn DEF DeleteUnwanted, DeleteSpec
  <2>3. QED
    BY <2>1, <2>2
<1>10. ASSUME NEW s \in Specs, SetLoaded(b, s)
       PROVE  TypeOK'
  BY <1>10 DEF SetLoaded, SetSpec
<1>11. ASSUME NEW s \in Specs, SetMarked(b, s)
       PROVE  TypeOK'
  BY <1>11 DEF SetMarked, SetSpec
<1>12. QED
  BY <1>1, <1>2, <1>3, <1>4, <1>5, <1>6, <1>7, <1>8, <1>9, <1>10, <1>11 DEF Step

\* Every step keeps the types.
LEMMA TypeStep ==
  ASSUME TypeOK, [Next]_vars
  PROVE  TypeOK'
<1> USE DEF TypeOK, catalogVars, instanceVars, loadVars, sweepVars, developerVars,
            bootstrapVars, RegistrySpecs
<1>1. ASSUME NEW b \in Bootstrappers, Begin(b) \/ Step(b)
      PROVE  TypeOK'
  BY <1>1, TypeOfCalls
<1>2. ASSUME NEW b \in Bootstrappers, NEW r \in Registries, LoadSpecs(b, r)
      PROVE  TypeOK'
  BY <1>2 DEF LoadSpecs, Loads, Bootstraps
<1>3. ASSUME NEW b \in Bootstrappers, NEW r \in Registries, RegistryFails(b, r)
      PROVE  TypeOK'
  <2>1. CASE r \in Fatal
    BY <1>3, <2>1, TypeOfReturn DEF RegistryFails, Bootstraps
  <2>2. CASE r \notin Fatal
    BY <1>3, <2>2 DEF RegistryFails, Loads, Bootstraps
  <2>3. QED
    BY <2>1, <2>2
<1>4. CASE RegistriesChange
  BY <1>4 DEF RegistriesChange
<1>5. ASSUME NEW i \in Instances, NEW s \in Specs, ReadSpec(i, s)
      PROVE  TypeOK'
  BY <1>5 DEF ReadSpec, Requests
<1>6. ASSUME NEW i \in Instances, SaveInstance(i)
      PROVE  TypeOK'
  BY <1>6 DEF SaveInstance, Requests
<1>7. ASSUME NEW i \in Instances, Deprovision(i)
      PROVE  TypeOK'
  BY <1>7 DEF Deprovision, Requests
<1>8. ASSUME NEW s \in Specs, AddSpec(s)
      PROVE  TypeOK'
  BY <1>8 DEF AddSpec, SetSpec, Edits, Developers
<1>9. ASSUME NEW s \in Specs, RemoveSpec(s)
      PROVE  TypeOK'
  BY <1>9 DEF RemoveSpec, DeleteSpec, Edits, Developers
<1>10. ASSUME NEW s \in Specs, RemoveListed(s)
       PROVE  TypeOK'
  BY <1>10 DEF RemoveListed, DeleteSpec, Developers
<1>11. CASE ListSpecs
  BY <1>11 DEF ListSpecs, Edits, Developers
<1>12. CASE Crash
  <2>1. /\ Nothing \in [Bootstrappers -> SUBSET Specs]
        /\ Nothing \in [Bootstrappers -> SUBSET Registries]
        /\ [b \in Bootstrappers |-> "idle"] \in [Bootstrappers -> Calls]
    BY DEF Nothing, Calls
  <2>2. /\ held' \in [Instances -> Specs \union {NoSpec}]
        /\ crashes' \in 0 .. MaxCrashes
    BY <1>12 DEF Crash
  <2>3. QED
    BY <1>12, <2>1, <2>2 DEF Crash
<1>13. CASE UNCHANGED vars
  BY <1>13 DEF vars
<1>14. QED
  BY <1>1, <1>2, <1>3, <1>4, <1>5, <1>6, <1>7, <1>8, <1>9, <1>10, <1>11, <1>12,
     <1>13 DEF Next
-----------------------------------------------------------------------------
\* What the requests and the developers do.
Outside ==
  \/ RegistriesChange
  \/ \E i \in Instances :
       \/ \E s \in Specs : ReadSpec(i, s)
       \/ SaveInstance(i) \/ Deprovision(i)
  \/ \E s \in Specs : AddSpec(s) \/ RemoveSpec(s) \/ RemoveListed(s)
  \/ ListSpecs

\* It touches no Bootstrap, and takes specs of the registries out of the store
\* and the catalogue but puts none in.
LEMMA OutsideShrinks ==
  ASSUME TypeOK, Outside
  PROVE  /\ UNCHANGED bootstrapVars
         /\ stored' \intersect RegistrySpecs \subseteq stored
         /\ Catalog' \intersect RegistrySpecs \subseteq Catalog
<1> USE DEF Catalog, catalogVars, RegistrySpecs
<1>1. CASE RegistriesChange
  BY <1>1 DEF RegistriesChange
<1>2. ASSUME NEW i \in Instances,
             (\E s \in Specs : ReadSpec(i, s)) \/ SaveInstance(i) \/ Deprovision(i)
      PROVE  UNCHANGED <<bootstrapVars, stored, marked>>
  BY <1>2 DEF ReadSpec, SaveInstance, Deprovision, Requests
<1>3. ASSUME NEW s \in Specs, AddSpec(s)
      PROVE  /\ UNCHANGED bootstrapVars
             /\ stored' \intersect RegistrySpecs \subseteq stored
             /\ Catalog' \intersect RegistrySpecs \subseteq Catalog
  BY <1>3 DEF AddSpec, SetSpec, Developers
<1>4. ASSUME NEW s \in Specs, RemoveSpec(s) \/ RemoveListed(s)
      PROVE  /\ UNCHANGED bootstrapVars
             /\ stored' \intersect RegistrySpecs \subseteq stored
             /\ Catalog' \intersect RegistrySpecs \subseteq Catalog
  BY <1>4 DEF RemoveSpec, RemoveListed, DeleteSpec, Developers
<1>5. CASE ListSpecs
  BY <1>5 DEF ListSpecs, Developers
<1>6. QED
  BY <1>1, <1>2, <1>3, <1>4, <1>5 DEF Outside

\* Every step is one of a Bootstrap, of the others, a crash or a stutter.
LEMMA Steps ==
  ASSUME [Next]_vars
  PROVE  \/ \E b \in Bootstrappers : Begin(b) \/ Step(b)
         \/ \E b \in Bootstrappers, r \in Registries : LoadSpecs(b, r) \/ RegistryFails(b, r)
         \/ Outside
         \/ Crash
         \/ UNCHANGED vars
BY DEF Next, Outside

-----------------------------------------------------------------------------
\* A Bootstrap holds specs to delete in its first half only.
LEMMA SweepingOnlyStep ==
  ASSUME TypeOK, SweepingOnly, [Next]_vars
  PROVE  SweepingOnly'
<1> SUFFICES ASSUME NEW b \in Bootstrappers, unwanted'[b] # {}
             PROVE  pc'[b] \in {"instances", "look up", "delete"}
  BY DEF SweepingOnly
<1> unwanted[b] # {} => pc[b] \in {"instances", "look up", "delete"}
  BY DEF SweepingOnly
<1> USE DEF At, Goes
<1>1. ASSUME NEW c \in Bootstrappers, Returns(c)
      PROVE  pc'[b] \in {"instances", "look up", "delete"}
  BY <1>1 DEF Returns, TypeOK
<1>2. ASSUME NEW c \in Bootstrappers, Begin(c)
      PROVE  pc'[b] \in {"instances", "look up", "delete"}
  BY <1>2 DEF Begin, TypeOK
<1>3. ASSUME NEW c \in Bootstrappers, ListInstances(c)
      PROVE  pc'[b] \in {"instances", "look up", "delete"}
  BY <1>3 DEF ListInstances, TypeOK
<1>4. ASSUME NEW c \in Bootstrappers, LookedUp(c)
      PROVE  pc'[b] \in {"instances", "look up", "delete"}
  BY <1>4 DEF LookedUp, TypeOK, sweepVars
<1>5. ASSUME NEW c \in Bootstrappers, Reread(c)
      PROVE  pc'[b] \in {"instances", "look up", "delete"}
  BY <1>5 DEF Reread, TypeOK, sweepVars
<1>6. ASSUME NEW c \in Bootstrappers, Loaded(c)
      PROVE  pc'[b] \in {"instances", "look up", "delete"}
  BY <1>6, <1>1 DEF Loaded, TypeOK, sweepVars
<1>7. ASSUME NEW c \in Bootstrappers, LoadedSet(c)
      PROVE  pc'[b] \in {"instances", "look up", "delete"}
  BY <1>7 DEF LoadedSet, TypeOK, sweepVars
<1>8. ASSUME NEW c \in Bootstrappers, End(c)
      PROVE  pc'[b] \in {"instances", "look up", "delete"}
  BY <1>8, <1>1 DEF End
<1>9. ASSUME NEW c \in Bootstrappers, NEW s \in Specs, LookUpSpec(c, s)
      PROVE  pc'[b] \in {"instances", "look up", "delete"}
  BY <1>9 DEF LookUpSpec, TypeOK
<1>10. ASSUME NEW c \in Bootstrappers, NEW s \in Specs, DeleteUnwanted(c, s)
       PROVE  pc'[b] \in {"instances", "look up", "delete"}
  BY <1>10, <1>1 DEF DeleteUnwanted, TypeOK
<1>11. ASSUME NEW c \in Bootstrappers, NEW s \in Specs, SetLoaded(c, s) \/ SetMarked(c, s)
       PROVE  pc'[b] \in {"instances", "look up", "delete"}
  BY <1>11 DEF SetLoaded, SetMarked, sweepVars
<1>12. ASSUME NEW c \in Bootstrappers, NEW r \in Registries, LoadSpecs(c, r)
       PROVE  pc'[b] \in {"instances", "look up", "delete"}
  BY <1>12 DEF LoadSpecs, sweepVars
<1>13. ASSUME NEW c \in Bootstrappers, NEW r \in Registries, RegistryFails(c, r)
       PROVE  pc'[b] \in {"instances", "look up", "delete"}
  BY <1>13, <1>1 DEF RegistryFails, sweepVars
<1>14. CASE Outside
  BY <1>14, OutsideShrinks DEF bootstrapVars, sweepVars
<1>15. CASE Crash
  BY <1>15 DEF Crash, Nothing
<1>16. CASE UNCHANGED vars
  BY <1>16 DEF vars, bootstrapVars, sweepVars
<1>17. QED
  BY <1>2, <1>3, <1>4, <1>5, <1>6, <1>7, <1>8, <1>9, <1>10, <1>11, <1>12, <1>13,
     <1>14, <1>15, <1>16, Steps DEF Step

-----------------------------------------------------------------------------
\* What a Bootstrap is about to delete stays hidden while nobody else
\* bootstraps: it writes no spec itself before it has deleted.
LEMMA UnwantedHiddenStep ==
  ASSUME OneBootstrapper, TypeOK, SweepingOnly, UnwantedHidden, [Next]_vars
  PROVE  UnwantedHidden'
<1> SUFFICES ASSUME NEW b \in Bootstrappers, NEW s \in RegistrySpecs, s \in unwanted'[b]
             PROVE  s \notin Catalog'
  BY DEF UnwantedHidden
<1> USE DEF At, Goes, Catalog
<1>1. /\ \A c \in Bootstrappers : c = b
      /\ s \in unwanted[b] => s \notin Catalog
      /\ unwanted[b] # {} => pc[b] \in {"instances", "look up", "delete"}
  BY DEF OneBootstrapper, UnwantedHidden, SweepingOnly
<1>2. Returns(b) => unwanted'[b] = {}
  BY DEF Returns, TypeOK
<1>3. CASE Begin(b)
  BY <1>3 DEF Begin, getMarkedSpecs, TypeOK, catalogVars
<1>4. CASE ListInstances(b)
  BY <1>4, <1>1 DEF ListInstances, safeToDelete, TypeOK, catalogVars
<1>5. CASE LookedUp(b) \/ Reread(b)
  BY <1>5, <1>1 DEF LookedUp, Reread, catalogVars, sweepVars
<1>6. CASE Loaded(b)
  BY <1>6, <1>1, <1>2 DEF Loaded, catalogVars, sweepVars
<1>7. CASE LoadedSet(b) \/ End(b)
  BY <1>7, <1>1, <1>2 DEF LoadedSet, End, catalogVars, sweepVars
<1>8. ASSUME NEW t \in Specs, LookUpSpec(b, t)
      PROVE  s \notin Catalog'
  BY <1>8, <1>1 DEF LookUpSpec, TypeOK, catalogVars
<1>9. ASSUME NEW t \in Specs, DeleteUnwanted(b, t)
      PROVE  s \notin Catalog'
  BY <1>9, <1>1, <1>2 DEF DeleteUnwanted, DeleteSpec, TypeOK, catalogVars
<1>10. ASSUME NEW t \in Specs, SetLoaded(b, t) \/ SetMarked(b, t)
       PROVE  s \notin Catalog'
  BY <1>10, <1>1 DEF SetLoaded, SetMarked, sweepVars
<1>11. ASSUME NEW r \in Registries, LoadSpecs(b, r) \/ RegistryFails(b, r)
       PROVE  s \notin Catalog'
  BY <1>11, <1>1, <1>2 DEF LoadSpecs, RegistryFails, sweepVars, catalogVars
<1>12. CASE Outside
  BY <1>12, <1>1, OutsideShrinks DEF bootstrapVars, sweepVars
<1>13. CASE Crash
  BY <1>13 DEF Crash, Nothing
<1>14. CASE UNCHANGED vars
  BY <1>14, <1>1 DEF vars, bootstrapVars, sweepVars, catalogVars
<1>15. ASSUME NEW c \in Bootstrappers
       PROVE  c = b
  BY <1>1
<1>16. QED
  BY <1>3, <1>4, <1>5, <1>6, <1>7, <1>8, <1>9, <1>10, <1>11, <1>12, <1>13, <1>14,
     <1>15, Steps DEF Step

-----------------------------------------------------------------------------
\* From the reading of the store to the last mark nothing in the store or the
\* catalogue is left unaccounted for.
LEMMA AccountedStep ==
  ASSUME OneBootstrapper, TypeOK, Accounted, [Next]_vars
  PROVE  Accounted'
<1> DEFINE Kept(b) ==
      /\ pc[b] = "load" => stored \intersect RegistrySpecs \subseteq known[b]
      /\ pc[b] = "set" =>
           /\ toSet[b] \subseteq manifest[b]
           /\ stored \intersect RegistrySpecs \subseteq known[b] \union manifest[b]
      /\ pc[b] = "mark" =>
           Catalog \intersect RegistrySpecs \subseteq manifest[b] \union toSet[b]
<1> SUFFICES ASSUME NEW b \in Bootstrappers
             PROVE  Kept(b)'
  BY DEF Accounted
<1>1. \A c \in Bootstrappers : c = b
  BY DEF OneBootstrapper
<1>2. Kept(b)
  BY DEF Accounted
<1> USE DEF At, Goes, Catalog
<1>3. CASE Returns(b)
  BY <1>3 DEF Returns, TypeOK
<1>4. CASE Begin(b)
  BY <1>4 DEF Begin, TypeOK
<1>5. CASE ListInstances(b) \/ LookedUp(b)
  BY <1>5 DEF ListInstances, LookedUp, TypeOK
<1>6. CASE Reread(b)
  BY <1>6 DEF Reread, TypeOK, catalogVars
<1>7. CASE Loaded(b)
  BY <1>7, <1>2, <1>3 DEF Loaded, TypeOK, catalogVars, loadVars
<1>8. CASE LoadedSet(b)
  BY <1>8, <1>2 DEF LoadedSet, markSpecsForDeletion, TypeOK, catalogVars, loadVars
<1>9. CASE End(b)
  BY <1>9, <1>3 DEF End
<1>10. ASSUME NEW s \in Specs, LookUpSpec(b, s)
       PROVE  Kept(b)'
  BY <1>10 DEF LookUpSpec, TypeOK
<1>11. ASSUME NEW s \in Specs, DeleteUnwanted(b, s)
       PROVE  Kept(b)'
  BY <1>11, <1>3 DEF DeleteUnwanted, TypeOK
<1>12. ASSUME NEW s \in Specs, SetLoaded(b, s)
       PROVE  Kept(b)'
  BY <1>12, <1>2 DEF SetLoaded, SetSpec, TypeOK, loadVars
<1>13. ASSUME NEW s \in Specs, SetMarked(b, s)
       PROVE  Kept(b)'
  BY <1>13, <1>2 DEF SetMarked, SetSpec, TypeOK, loadVars
<1>14. ASSUME NEW r \in Registries, LoadSpecs(b, r)
       PROVE  Kept(b)'
  BY <1>14, <1>2 DEF LoadSpecs, Loads, catalogVars
<1>15. ASSUME NEW r \in Registries, RegistryFails(b, r)
       PROVE  Kept(b)'
  BY <1>15, <1>2, <1>3 DEF RegistryFails, Loads, catalogVars
<1>16. CASE Outside
  BY <1>16, <1>2, OutsideShrinks DEF bootstrapVars, loadVars
<1>17. CASE Crash
  BY <1>17 DEF Crash
<1>18. CASE UNCHANGED vars
  BY <1>18, <1>2 DEF vars, bootstrapVars, loadVars, catalogVars
<1>19. QED
  <2> HIDE DEF Kept
  <2> QED
    BY <1>1, <1>4, <1>5, <1>6, <1>7, <1>8, <1>9, <1>10, <1>11, <1>12, <1>13, <1>14,
       <1>15, <1>16, <1>17, <1>18, Steps DEF Step

-----------------------------------------------------------------------------
\* What a step does to the Provision of instance i: it reads a spec that the
\* catalogue shows, or goes on with the one it has; a mark on that overtakes it, and
\* only a list of the instances, when it is stored, forgets this.
LEMMA ProvisionSteps ==
  ASSUME TypeOK, [Next]_vars, NEW i \in Instances
  PROVE  \/ /\ held'[i] \in Catalog /\ UNCHANGED marked
            /\ uses[i] = NoSpec /\ uses'[i] = NoSpec
         \/ /\ held'[i] \in {held[i], NoSpec}
            /\ uses'[i] \in {uses[i], NoSpec} \/ (uses'[i] = held[i] /\ held'[i] = NoSpec)
            /\ held[i] \in marked' \ marked => i \in overtaken'
            /\ i \in overtaken \ overtaken' =>
                 uses[i] # NoSpec /\ \E b \in Bootstrappers : ListInstances(b)
<1> DEFINE Reads == /\ held'[i] \in Catalog /\ UNCHANGED marked
                    /\ uses[i] = NoSpec /\ uses'[i] = NoSpec
           Marks == held[i] \in marked' \ marked => i \in overtaken'
           Lists == i \in overtaken \ overtaken' =>
                      uses[i] # NoSpec /\ \E b \in Bootstrappers : ListInstances(b)
           Goes1 == /\ held'[i] \in {held[i], NoSpec}
                    /\ \/ uses'[i] \in {uses[i], NoSpec}
                       \/ uses'[i] = held[i] /\ held'[i] = NoSpec
<1>1. ASSUME UNCHANGED <<uses, held>>
      PROVE  Goes1
  BY <1>1
<1>2. ASSUME UNCHANGED catalogVars
      PROVE  Marks /\ Lists
  BY <1>2 DEF catalogVars
<1>3. ASSUME NEW s \in Specs, NEW d \in BOOLEAN, SetSpec(s, d)
      PROVE  Marks /\ Lists
  BY <1>3 DEF SetSpec
<1>4. ASSUME NEW s \in Specs, DeleteSpec(s)
      PROVE  Marks /\ Lists
  BY <1>4 DEF DeleteSpec
<1>5. ASSUME NEW b \in Bootstrappers, Begin(b) \/ Step(b)
      PROVE  Goes1 /\ Marks /\ Lists
  <2>1. UNCHANGED <<uses, held>>
    BY <1>5 DEF Begin, Step, ListInstances, LookedUp, Reread, Loaded, LoadedSet, End, LookUpSpec,
                DeleteUnwanted, SetLoaded, SetMarked, Bootstraps, instanceVars
  <2>2. ASSUME ListInstances(b)
        PROVE  Marks /\ Lists
    BY <2>2 DEF ListInstances
  <2>3. ASSUME NEW s \in Specs, SetLoaded(b, s) \/ SetMarked(b, s)
        PROVE  Marks /\ Lists
    <3>1. SetSpec(s, FALSE) \/ SetSpec(s, TRUE)
      BY <2>3 DEF SetLoaded, SetMarked
    <3>2. QED
      BY <1>3, <3>1
  <2>4. ASSUME NEW s \in Specs, DeleteUnwanted(b, s)
        PROVE  Marks /\ Lists
    <3>1. DeleteSpec(s) \/ UNCHANGED catalogVars
      BY <2>4 DEF DeleteUnwanted
    <3>2. QED
      BY <1>2, <1>4, <3>1
  <2>5. ASSUME Begin(b) \/ LookedUp(b) \/ Reread(b) \/ Loaded(b) \/ LoadedSet(b) \/ End(b)
               \/ \E s \in Specs : LookUpSpec(b, s)
        PROVE  Marks /\ Lists
    <3>1. UNCHANGED catalogVars
      BY <2>5 DEF Begin, LookedUp, Reread, Loaded, LoadedSet, End, LookUpSpec
    <3>2. QED
      BY <1>2, <3>1
  <2> HIDE DEF Goes1, Marks, Lists
  <2>6. QED
    BY <1>1, <1>5, <2>1, <2>2, <2>3, <2>4, <2>5 DEF Step
<1>6. ASSUME NEW b \in Bootstrappers, NEW r \in Registries, LoadSpecs(b, r) \/ RegistryFails(b, r)
      PROVE  Goes1 /\ Marks /\ Lists
  <2>1. UNCHANGED <<uses, held>> /\ UNCHANGED catalogVars
    BY <1>6 DEF LoadSpecs, RegistryFails, Bootstraps, instanceVars
  <2>2. QED
    BY <1>1, <1>2, <2>1
<1>7. CASE Outside
  <2>1. ASSUME NEW j \in Instances, NEW s \in Specs, ReadSpec(j, s)
        PROVE  Reads \/ (Goes1 /\ Marks /\ Lists)
    <3>1. CASE i = j
      BY <2>1, <3>1 DEF ReadSpec, Requests, TypeOK
    <3>2. CASE i # j
      BY <2>1, <3>2 DEF ReadSpec, Requests, TypeOK
    <3>3. QED
      BY <3>1, <3>2
  <2>2. ASSUME NEW j \in Instances, SaveInstance(j)
        PROVE  Goes1 /\ Marks /\ Lists
    BY <2>2 DEF SaveInstance, Requests, TypeOK
  <2>3. ASSUME NEW j \in Instances, Deprovision(j)
        PROVE  Goes1 /\ Marks /\ Lists
    BY <2>3 DEF Deprovision, Requests, TypeOK
  <2>4. ASSUME NEW s \in Specs, AddSpec(s) \/ RemoveSpec(s) \/ RemoveListed(s)
        PROVE  Goes1 /\ Marks /\ Lists
    <3>1. UNCHANGED <<uses, held>>
      BY <2>4 DEF AddSpec, RemoveSpec, RemoveListed, Developers, instanceVars
    <3>2. SetSpec(s, FALSE) \/ DeleteSpec(s) \/ UNCHANGED catalogVars
      BY <2>4 DEF AddSpec, RemoveSpec, RemoveListed
    <3>3. QED
      BY <1>1, <1>2, <1>3, <1>4, <3>1, <3>2
  <2>5. ASSUME RegistriesChange \/ ListSpecs
        PROVE  Goes1 /\ Marks /\ Lists
    <3>1. UNCHANGED <<uses, held>> /\ UNCHANGED catalogVars
      BY <2>5 DEF RegistriesChange, ListSpecs, Developers, instanceVars
    <3>2. QED
      BY <1>1, <1>2, <3>1
  <2> HIDE DEF Reads, Goes1, Marks, Lists
  <2>6. Reads \/ (Goes1 /\ Marks /\ Lists)
    BY <1>7, <2>1, <2>2, <2>3, <2>4, <2>5 DEF Outside
  <2>7. QED
    BY <2>6 DEF Reads, Goes1, Marks, Lists
<1>8. CASE Crash
  <2>1. uses' = uses /\ held'[i] = NoSpec /\ UNCHANGED catalogVars
    BY <1>8 DEF Crash
  <2>2. QED
    BY <1>2, <2>1
<1>9. CASE UNCHANGED vars
  <2>1. UNCHANGED <<uses, held>> /\ UNCHANGED catalogVars
    BY <1>9 DEF vars, instanceVars
  <2>2. QED
    BY <1>1, <1>2, <2>1
<1>10. QED
  BY <1>5, <1>6, <1>7, <1>8, <1>9, Steps

\* A Provision that holds a marked spec has been overtaken by the mark, however many
\* threads bootstrap.
LEMMA MarkedOvertakesStep ==
  ASSUME TypeOK, MarkedOvertakes, [Next]_vars
  PROVE  MarkedOvertakes'
<1> SUFFICES ASSUME NEW i \in Instances
             PROVE  /\ held'[i] # NoSpec => uses'[i] = NoSpec
                    /\ held'[i] \in marked' => i \in overtaken'
  BY DEF MarkedOvertakes
<1>1. /\ held[i] # NoSpec => uses[i] = NoSpec
      /\ held[i] \in marked => i \in overtaken
  BY DEF MarkedOvertakes
<1>2. NoSpec \notin marked'
  BY TypeStep DEF TypeOK
<1>3. QED
  BY <1>1, <1>2, ProvisionSteps DEF Catalog

\* A spec that Bootstrap b is about to delete was so before, in the same half of its
\* sweep, but for two steps.
LEMMA SweepSteps ==
  ASSUME OneBootstrapper, TypeOK, SweepingOnly, [Next]_vars,
         NEW b \in Bootstrappers, NEW s \in unwanted'[b]
  PROVE  \/ Begin(b) \/ ListInstances(b)
         \/ /\ ~ \E c \in Bootstrappers : ListInstances(c)
            /\ s \in unwanted[b]
            /\ pc'[b] \in {"look up", "delete"} => pc[b] \in {"look up", "delete"}
<1> DEFINE Same == /\ s \in unwanted[b]
                   /\ pc'[b] \in {"look up", "delete"} => pc[b] \in {"look up", "delete"}
<1>1. /\ \A c \in Bootstrappers : c = b
      /\ unwanted[b] # {} => pc[b] \in {"instances", "look up", "delete"}
  BY DEF OneBootstrapper, SweepingOnly
<1> USE DEF At, Goes
<1>2. ~Returns(b)
  BY DEF Returns, TypeOK
<1>3. CASE LookedUp(b) \/ Reread(b) \/ Loaded(b) \/ LoadedSet(b) \/ End(b)
  BY <1>1, <1>2, <1>3 DEF LookedUp, Reread, Loaded, LoadedSet, End, sweepVars
<1>4. ASSUME NEW t \in Specs, LookUpSpec(b, t) \/ DeleteUnwanted(b, t)
      PROVE  Same
  <2>1. CASE LookUpSpec(b, t)
    <3>1. s \in unwanted[b] /\ pc[b] = "look up"
      BY <2>1 DEF LookUpSpec, TypeOK
    <3>2. QED
      BY <3>1
  <2>2. CASE DeleteUnwanted(b, t)
    <3>1. s \in unwanted[b] /\ pc[b] = "delete"
      BY <1>2, <2>2 DEF DeleteUnwanted, TypeOK
    <3>2. QED
      BY <3>1
  <2>3. QED
    BY <1>4, <2>1, <2>2
<1>5. ASSUME NEW t \in Specs, SetLoaded(b, t) \/ SetMarked(b, t)
      PROVE  Same
  BY <1>5 DEF SetLoaded, SetMarked, sweepVars
<1>6. ASSUME NEW r \in Registries, LoadSpecs(b, r) \/ RegistryFails(b, r)
      PROVE  Same
  BY <1>2, <1>6 DEF LoadSpecs, RegistryFails, Loads, sweepVars
<1>7. ASSUME Outside
      PROVE  Same
  BY <1>7, OutsideShrinks DEF bootstrapVars, sweepVars
<1>8. ASSUME Crash
      PROVE  Same
  BY <1>8 DEF Crash, Nothing
<1>9. ASSUME UNCHANGED vars
      PROVE  Same
  BY <1>9 DEF vars, bootstrapVars, sweepVars
<1> HIDE DEF Same
<1>10. Begin(b) \/ ListInstances(b) \/ Same
  BY <1>1, <1>3, <1>4, <1>5, <1>6, <1>7, <1>8, <1>9, Steps DEF Step, Same
<1>11. QED
  BY <1>1, <1>10 DEF Same

\* Of the Provisions that no mark overtook none has a spec that is about to be
\* deleted: one that begins later finds it marked, and one that was done before is
\* found in the list of the instances.
LEMMA UnwantedUnusedStep ==
  ASSUME OneBootstrapper, TypeOK, SweepingOnly, UnwantedHidden, MarkedOvertakes,
         UnwantedUnused, [Next]_vars
  PROVE  UnwantedUnused'
<1> SUFFICES ASSUME NEW b \in Bootstrappers, NEW s \in RegistrySpecs, s \in unwanted'[b],
                    NEW i \in Instances, i \notin overtaken'
             PROVE  /\ held'[i] # s
                    /\ pc'[b] \in {"look up", "delete"} => uses'[i] # s
  BY DEF UnwantedUnused
<1>1. s \in Specs /\ s # NoSpec
  BY DEF RegistrySpecs
<1>2. /\ held[i] # NoSpec => uses[i] = NoSpec
      /\ held[i] \in marked => i \in overtaken
  BY DEF MarkedOvertakes
<1>3. s \in unwanted[b] /\ i \notin overtaken =>
        /\ held[i] # s
        /\ pc[b] \in {"look up", "delete"} => uses[i] # s
  BY DEF UnwantedUnused
<1>4. CASE Begin(b)
  <2>1. UNCHANGED <<held, overtaken>> /\ pc'[b] = "instances" /\ s \in marked
    BY <1>4 DEF Begin, Bootstraps, Goes, getMarkedSpecs, instanceVars, catalogVars, TypeOK
  <2>2. QED
    BY <1>2, <2>1
<1>5. CASE ListInstances(b)
  <2>1. /\ UNCHANGED <<uses, held>> /\ s \in unwanted[b] /\ s \notin InUse
        /\ i \in overtaken => uses[i] # NoSpec
    BY <1>5 DEF ListInstances, Bootstraps, safeToDelete, instanceVars, TypeOK
  <2>2. uses[i] # s
    BY <1>1, <2>1 DEF InUse
  <2>3. QED
    BY <1>1, <1>2, <1>3, <2>1, <2>2
<1>6. CASE /\ ~ \E c \in Bootstrappers : ListInstances(c)
           /\ s \in unwanted[b]
           /\ pc'[b] \in {"look up", "delete"} => pc[b] \in {"look up", "delete"}
  <2>1. s \notin Catalog
    BY <1>6 DEF UnwantedHidden
  <2>2. CASE held'[i] \in Catalog /\ uses'[i] = NoSpec
    BY <1>1, <2>1, <2>2
  <2>3. CASE /\ held'[i] \in {held[i], NoSpec}
             /\ uses'[i] \in {uses[i], NoSpec} \/ (uses'[i] = held[i] /\ held'[i] = NoSpec)
             /\ i \notin overtaken
    BY <1>1, <1>3, <1>6, <2>3
  <2>4. QED
    BY <1>6, <2>2, <2>3, ProvisionSteps
<1>7. QED
  BY <1>4, <1>5, <1>6, SweepSteps

-----------------------------------------------------------------------------
\* The initial state satisfies every invariant.
LEMMA InitInvariants == Init => IInv /\ MarkedOvertakes /\ UnwantedUnused
BY DEF Init, IInv, TypeOK, SweepingOnly, UnwantedHidden, MarkedOvertakes, UnwantedUnused,
       Accounted, Nothing, Calls

\* Type correctness, however many threads bootstrap.
THEOREM TypeCorrect == Spec => []TypeOK
<1>1. Init => TypeOK
  BY InitInvariants DEF IInv
<1>2. TypeOK /\ [Next]_vars => TypeOK'
  BY TypeStep
<1>3. QED
  BY <1>1, <1>2, PTL DEF Spec

\* The inductive invariant of a catalogue that one thread bootstraps.
LEMMA Invariant ==
  ASSUME OneBootstrapper
  PROVE  Spec => []IInv
<1>1. Init => IInv
  BY InitInvariants
<1>2. IInv /\ [Next]_vars => IInv'
  BY TypeStep, SweepingOnlyStep, UnwantedHiddenStep, AccountedStep DEF IInv
<1>3. QED
  BY <1>1, <1>2, PTL DEF Spec

\* Bootstrap deletes only what the catalogue no longer shows: with one thread that
\* bootstraps, for any registries and developers and any number of crashes.
THEOREM HiddenFirst ==
  ASSUME OneBootstrapper
  PROVE  Spec => HiddenBeforeDeleted
<1>1. ASSUME IInv, [Next]_vars, NEW b \in Bootstrappers, NEW s \in RegistrySpecs, Sweeps(b, s)
      PROVE  s \in marked
  BY <1>1 DEF IInv, UnwantedHidden, Sweeps, Catalog
<1>2. IInv /\ [Next]_vars =>
        [\A b \in Bootstrappers, s \in RegistrySpecs : Sweeps(b, s) => s \in marked]_vars
  BY <1>1
<1>3. QED
  BY <1>2, Invariant, PTL DEF Spec, HiddenBeforeDeleted

\* A Bootstrap that completes has hidden everything of the registries' that it did
\* not load: with one thread that bootstraps, whatever happens meanwhile.
THEOREM OnlyLoaded ==
  ASSUME OneBootstrapper
  PROVE  Spec => OnlyLoadedShown
<1>1. ASSUME IInv, [Next]_vars, NEW b \in Bootstrappers, Completes(b), crashes' = crashes,
             ~Completes(b)'
      PROVE  Catalog' \intersect RegistrySpecs \subseteq manifest[b]
  <2>1. Catalog \intersect RegistrySpecs \subseteq manifest[b]
    BY <1>1 DEF IInv, Accounted, Completes, At
  <2>2. pc[b] = "mark" /\ toSet[b] = {}
    BY <1>1 DEF Completes, At
  <2>3. \A c \in Bootstrappers : c = b
    BY DEF OneBootstrapper
  <2>4. CASE Outside
    BY <1>1, <2>1, <2>4, OutsideShrinks DEF IInv
  <2>5. CASE Crash
    BY <1>1, <2>5 DEF Crash, IInv, TypeOK
  <2>6. CASE UNCHANGED vars
    BY <2>1, <2>6 DEF vars, catalogVars, Catalog
  <2>7. CASE Begin(b) \/ Step(b)
    <3>1. End(b)
      BY <2>2, <2>7 DEF Begin, Step, ListInstances, LookedUp, Reread, Loaded, LoadedSet,
                        LookUpSpec, DeleteUnwanted, SetLoaded, SetMarked, At
    <3>2. QED
      BY <2>1, <3>1 DEF End, catalogVars, Catalog
  <2>8. ASSUME NEW r \in Registries, LoadSpecs(b, r) \/ RegistryFails(b, r)
        PROVE  FALSE
    BY <2>2, <2>8 DEF LoadSpecs, RegistryFails, Loads, At
  <2>9. QED
    BY <1>1, <2>3, <2>4, <2>5, <2>6, <2>7, <2>8, Steps
<1>2. IInv /\ [Next]_vars =>
        [\A b \in Bootstrappers :
           Completes(b) /\ ~Completes(b)' =>
             crashes' # crashes \/ Catalog' \intersect RegistrySpecs \subseteq manifest[b]]_vars
  BY <1>1
<1>3. QED
  BY <1>2, Invariant, PTL DEF Spec, OnlyLoadedShown

\* A spec is swept under an instance only when a mark overtook its Provision and the
\* instances were listed before it was stored: with one thread that bootstraps, for
\* any number of Provisions at any time.
THEOREM UsedKept ==
  ASSUME OneBootstrapper
  PROVE  Spec => UsedSpecKept
<1> DEFINE Inv == IInv /\ MarkedOvertakes /\ UnwantedUnused
<1>1. Init => Inv
  BY InitInvariants
<1>2. Inv /\ [Next]_vars => Inv'
  BY TypeStep, SweepingOnlyStep, UnwantedHiddenStep, AccountedStep, MarkedOvertakesStep,
     UnwantedUnusedStep DEF IInv
<1>3. ASSUME Inv, [Next]_vars, NEW b \in Bootstrappers, NEW s \in RegistrySpecs,
             NEW i \in Instances, Sweeps(b, s), uses'[i] = s
      PROVE  i \in overtaken
  <2>1. s \in unwanted[b] /\ s \notin unwanted'[b] /\ s \in stored /\ s \notin stored'
    BY <1>3 DEF Sweeps
  <2>2. \A c \in Bootstrappers : c = b
    BY DEF OneBootstrapper
  <2>3. CASE Outside
    BY <1>3, <2>1, <2>3, OutsideShrinks DEF IInv, bootstrapVars, sweepVars
  <2>4. CASE Crash \/ UNCHANGED vars
    BY <2>1, <2>4 DEF Crash, vars, catalogVars
  <2>5. CASE Begin(b) \/ Step(b)
    <3>1. PICK t \in Specs : DeleteUnwanted(b, t) \/ SetLoaded(b, t) \/ SetMarked(b, t)
      BY <2>1, <2>5 DEF Begin, Step, ListInstances, LookedUp, Reread, Loaded, LoadedSet,
                        End, LookUpSpec, catalogVars
    <3>2. DeleteUnwanted(b, t)
      BY <2>1, <3>1 DEF SetLoaded, SetMarked, SetSpec
    <3>3. pc[b] = "delete" /\ UNCHANGED uses
      BY <3>2 DEF DeleteUnwanted, At, Bootstraps, instanceVars
    <3>4. QED
      BY <1>3, <2>1, <3>3 DEF UnwantedUnused
  <2>6. ASSUME NEW r \in Registries, LoadSpecs(b, r) \/ RegistryFails(b, r)
        PROVE  FALSE
    BY <2>1, <2>6 DEF LoadSpecs, RegistryFails, catalogVars
  <2>7. QED
    BY <1>3, <2>2, <2>3, <2>4, <2>5, <2>6, Steps
<1>4. Inv /\ [Next]_vars =>
        [\A b \in Bootstrappers, s \in RegistrySpecs, i \in Instances :
           Sweeps(b, s) /\ uses'[i] = s => i \in overtaken]_vars
  BY <1>3
<1>5. QED
  BY <1>1, <1>2, <1>4, PTL DEF Spec, UsedSpecKept
=============================================================================

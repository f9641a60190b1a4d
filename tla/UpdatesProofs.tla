--------------------------- MODULE UpdatesProofs ---------------------------
(***************************************************************************)
(* Theorems about plans and updates, for any plans, any parameters in any  *)
(* order, any values, any plans to update to and any number of updates.    *)
(*                                                                         *)
(* What the recursive functions of Plans compute is proved by induction on *)
(* numbers, as a fact about sets of them (Onward), from the least element  *)
(* of such a set.                                                          *)
(***************************************************************************)
EXTENDS Updates, FiniteSetTheorems, SequenceTheorems, WellFoundedInduction, TLAPS

USE UpdatesAssumption, PlansAssumption

\* A function from some of a set's elements.
LEMMA PartialFunction ==
  ASSUME NEW S, NEW T, NEW f
  PROVE  f \in Partial(S, T) <=> (\E N \in SUBSET S : f \in [N -> T])
BY DEF Partial

\* What a request says of each name, and what the instance holds: functions.
LEMMA PartialType ==
  ASSUME NEW S, NEW T, NEW f \in Partial(S, T)
  PROVE  /\ DOMAIN f \subseteq S
         /\ f \in [DOMAIN f -> T]
         /\ \A n \in DOMAIN f : f[n] \in T
<1>1. PICK N \in SUBSET S : f \in [N -> T]
  BY PartialFunction
<1>2. QED
  BY <1>1

\* What an update leaves: its text where the request differs from what is held, what was
\* held elsewhere.
LEMMA StoredValues ==
  ASSUME NEW request
  PROVE  /\ DOMAIN Stored(request) = DOMAIN held \union DOMAIN request
         /\ \A n \in DOMAIN held \union DOMAIN request :
              Stored(request)[n] = IF n \in DOMAIN request THEN <<"text", request[n]>> ELSE held[n]
BY DEF Stored, Changed

\* It keeps the types, whatever is asked.
LEMMA StoredType ==
  ASSUME held \in Partial(Names, HeldValues), NEW request \in Requests
  PROVE  Stored(request) \in Partial(Names, HeldValues)
<1> DEFINE N == DOMAIN held \union DOMAIN request
<1>1. /\ DOMAIN held \subseteq Names /\ DOMAIN request \subseteq Names
      /\ \A n \in DOMAIN held : held[n] \in HeldValues
      /\ \A n \in DOMAIN request : request[n] \in Texts
  BY PartialType DEF Requests
<1>2. ASSUME NEW n \in N
      PROVE  Stored(request)[n] \in HeldValues
  <2>1. CASE n \in DOMAIN request
    <3>1. <<"text", request[n]>> \in HeldValues
      BY <1>1, <2>1 DEF HeldValues
    <3>2. QED
      BY <2>1, <3>1, StoredValues
  <2>2. CASE n \notin DOMAIN request
    BY <1>1, <2>2, StoredValues
  <2>3. QED
    BY <2>1, <2>2
<1>3. Stored(request) \in [N -> HeldValues]
  BY <1>2, StoredValues DEF Stored
<1>4. QED
  BY <1>1, <1>3, PartialFunction

\* A request that repeats what is held changes nothing, so any plan accepts it.
LEMMA NothingChanged ==
  ASSUME NEW request, NEW values, NEW params,
         \A n \in DOMAIN request : n \in DOMAIN values /\ values[n] = <<"text", request[n]>>
  PROVE  DOMAIN Changed(request, values) = {} /\ Validated(params, request, values)
BY DEF Changed, Validated

-----------------------------------------------------------------------------
\* A parameter the author adds keeps the plans' types.
LEMMA DescribeType ==
  ASSUME TypeOK, NEW p \in PlanNames, NEW list \in {"params", "bind"}, NEW d \in Descriptors,
         Describe(p, list, d)
  PROVE  plans' \in [PlanNames -> [params : Seq(Descriptors), bind : Seq(Descriptors)]]
<1>1. plans[p] \in [params : Seq(Descriptors), bind : Seq(Descriptors)]
  BY DEF TypeOK
<1>2. Append(plans[p][list], d) \in Seq(Descriptors)
  BY <1>1
<1>3. [plans[p] EXCEPT ![list] = Append(plans[p][list], d)]
        \in [params : Seq(Descriptors), bind : Seq(Descriptors)]
  BY <1>1, <1>2
<1>4. plans' = [plans EXCEPT ![p] = [plans[p] EXCEPT ![list] = Append(plans[p][list], d)]]
  BY DEF Describe
<1>5. QED
  BY <1>3, <1>4 DEF TypeOK

\* Every step keeps the types.
LEMMA TypeStep ==
  ASSUME TypeOK, [Next]_vars
  PROVE  TypeOK'
<1>1. ASSUME NEW p \in PlanNames, NEW list \in {"params", "bind"}, NEW d \in Descriptors,
             Describe(p, list, d)
      PROVE  TypeOK'
  BY <1>1, DescribeType DEF TypeOK, Describe
<1>2. ASSUME NEW p \in PlanNames, NEW values \in Partial(NamesOf(plans[p].params), HeldValues),
             Provision(p, values)
      PROVE  TypeOK'
  <2>1. NamesOf(plans[p].params) \subseteq Names
    <3>1. plans[p].params \in Seq(Descriptors)
      BY DEF TypeOK
    <3>2. ToSet(plans[p].params) \subseteq Descriptor
      BY <3>1 DEF ToSet
    <3>3. QED
      BY <3>2 DEF NamesOf, Descriptor
  <2>2. values \in Partial(Names, HeldValues)
    BY <2>1, PartialFunction
  <2>3. QED
    BY <1>2, <2>2 DEF TypeOK, Provision
<1>3. ASSUME NEW to \in PlanNames, NEW request \in Requests, Update(to, request)
      PROVE  TypeOK'
  BY <1>3, StoredType DEF TypeOK, Update
<1>4. CASE UNCHANGED vars
  BY <1>4 DEF vars, TypeOK
<1>5. QED
  BY <1>1, <1>2, <1>3, <1>4 DEF Next

\* The parameters of a list to which one is added.
LEMMA OneMore ==
  ASSUME NEW S, NEW params \in Seq(S), NEW d \in S
  PROVE  ToSet(Append(params, d)) = ToSet(params) \union {d}
<1>1. /\ Append(params, d) \in Seq(S)
      /\ Len(Append(params, d)) = Len(params) + 1
      /\ \A k \in 1 .. Len(params) : Append(params, d)[k] = params[k]
      /\ Append(params, d)[Len(params) + 1] = d
      /\ Len(params) \in Nat
  OBVIOUS
<1>2. /\ DOMAIN Append(params, d) = 1 .. Len(params) + 1
      /\ DOMAIN params = 1 .. Len(params)
  BY <1>1
<1>3. 1 .. Len(params) + 1 = (1 .. Len(params)) \union {Len(params) + 1}
  BY <1>1
<1>4. QED
  BY <1>1, <1>2, <1>3 DEF ToSet

\* No parameter is added under a name that the list has.
LEMMA DistinctStep ==
  ASSUME TypeOK, NamesDistinct, [Next]_vars
  PROVE  NamesDistinct'
<1>1. ASSUME NEW p \in PlanNames, NEW list \in {"params", "bind"}, NEW d \in Descriptors,
             Describe(p, list, d)
      PROVE  NamesDistinct'
  <2>1. /\ plans[p].params \in Seq(Descriptors) /\ plans[p].bind \in Seq(Descriptors)
        /\ \A q \in PlanNames : DOMAIN plans[q] = {"params", "bind"}
        /\ DOMAIN plans = PlanNames
    BY DEF TypeOK
  <2>2. Distinct(Append(plans[p][list], d))
    <3>1. ToSet(Append(plans[p][list], d)) = ToSet(plans[p][list]) \union {d}
      BY <2>1, OneMore
    <3>2. \A e \in ToSet(plans[p][list]) : e.name # d.name
      BY <1>1 DEF Describe, NamesOf
    <3>3. Distinct(plans[p][list])
      BY DEF NamesDistinct
    <3>4. QED
      BY <3>1, <3>2, <3>3 DEF Distinct
  <2>3. \A q \in PlanNames :
          /\ plans'[q].params \in {plans[q].params, Append(plans[p][list], d)}
          /\ plans'[q].bind \in {plans[q].bind, Append(plans[p][list], d)}
    BY <1>1, <2>1 DEF Describe
  <2>4. QED
    BY <2>2, <2>3 DEF NamesDistinct
<1>2. CASE UNCHANGED plans
  BY <1>2 DEF NamesDistinct
<1>3. QED
  BY <1>1, <1>2 DEF Next, Provision, Update, vars

\* The inductive invariant of plans and instances.
THEOREM Invariant == Spec => []IInv
<1>1. Init => TypeOK
  <2> SUFFICES ASSUME Init PROVE TypeOK
    OBVIOUS
  <2>1. held \in Partial(Names, HeldValues)
    <3>1. NoParameters \in [{} -> HeldValues]
      BY DEF NoParameters
    <3>2. QED
      BY <3>1, PartialFunction DEF Init
  <2>2. plans \in [PlanNames -> [params : Seq(Descriptors), bind : Seq(Descriptors)]]
    BY DEF Init
  <2>3. QED
    BY <2>1, <2>2 DEF Init, TypeOK
<1>2. Init => NamesDistinct
  BY DEF Init, NamesDistinct, Distinct, ToSet
<1>3. IInv /\ [Next]_vars => IInv'
  BY TypeStep, DistinctStep DEF IInv
<1>4. QED
  BY <1>1, <1>2, <1>3, PTL DEF Spec, IInv

\* Type correctness: what an instance holds are texts and numbers under known names,
\* however often it is updated.
THEOREM TypeCorrect == Spec => []TypeOK
<1>1. IInv => TypeOK
  BY DEF IInv
<1>2. QED
  BY <1>1, Invariant, PTL

\* What an instance holds, sent back as text, is accepted for its plan and all it may be
\* updated to, whatever parameters these plans have.
THEOREM EchoTaken == Spec => []EchoAccepted
<1>1. TypeOK => EchoAccepted
  <2> SUFFICES ASSUME TypeOK, plan # NoInstance,
                      NEW N \in SUBSET {n \in DOMAIN held : held[n][1] = "text"},
                      NEW to \in {plan} \union UpdatesTo[plan]
               PROVE  Accepts(to, [n \in N |-> held[n][2]])
    BY DEF EchoAccepted
  <2> DEFINE echo == [n \in N |-> held[n][2]]
  <2>1. \A n \in DOMAIN echo : n \in DOMAIN held /\ held[n] = <<"text", echo[n]>>
    <3>1. \A n \in DOMAIN held : held[n] \in HeldValues
      BY PartialType DEF TypeOK
    <3>2. QED
      BY <3>1 DEF HeldValues
  <2>2. Validated(plans[to].params, echo, held)
    BY <2>1, NothingChanged
  <2>3. QED
    BY <2>2 DEF Accepts, isValidPlanTransition
<1>2. QED
  BY <1>1, TypeCorrect, PTL

\* An update sent once more, by a platform that did not get the answer, is accepted and
\* changes nothing.
THEOREM RetryHarmless == Spec => RetryChangesNothing
<1>1. ASSUME TypeOK, NEW to \in PlanNames, NEW request \in Requests, Update(to, request)
      PROVE  Accepts(to, request)' /\ Stored(request)' = held'
  <2>1. plan' = to /\ held' = Stored(request)
    BY <1>1 DEF Update
  <2>2. \A n \in DOMAIN request : n \in DOMAIN held' /\ held'[n] = <<"text", request[n]>>
    BY <2>1, StoredValues
  <2>3. DOMAIN Changed(request, held') = {} /\ Validated(plans'[to].params, request, held')
    BY <2>2, NothingChanged
  <2>4. Accepts(to, request)'
    BY <2>1, <2>3 DEF Accepts
  <2>5. Stored(request)' = held'
    <3>1. DOMAIN request \subseteq DOMAIN held'
      BY <2>2
    <3>2. \A n : n \notin DOMAIN Changed(request, held')
      BY <2>3
    <3>3. Stored(request)' = [n \in DOMAIN held' |-> held'[n]]
      BY <3>1, <3>2 DEF Stored
    <3>4. held' = [n \in DOMAIN held' |-> held'[n]]
      BY <2>1 DEF Stored
    <3>5. QED
      BY <3>3, <3>4
  <2>6. QED
    BY <2>4, <2>5
<1>2. TypeOK /\ [Next]_vars =>
        [\A to \in PlanNames, request \in Requests :
           Update(to, request) => Accepts(to, request)' /\ Stored(request)' = held']_vars
  BY <1>1
<1>3. QED
  BY <1>2, TypeCorrect, PTL DEF Spec, RetryChangesNothing

-----------------------------------------------------------------------------
\* The definitions that may be updated: of the parameters that are updatable.
LEMMA UpdatableDefinitions ==
  ASSUME NEW params, Distinct(params)
  PROVE  /\ DOMAIN extractUpdatable(params) = {p.name : p \in {q \in ToSet(params) : q.updatable}}
         /\ \A n \in NamesOf(params) :
              /\ Named(params, n) \in ToSet(params) /\ Named(params, n).name = n
              /\ n \in DOMAIN extractUpdatable(params) <=> Named(params, n).updatable
         /\ \A n \in DOMAIN extractUpdatable(params) :
              n \in NamesOf(params) /\ extractUpdatable(params)[n] = Named(params, n).enum
<1>1. ASSUME NEW n \in NamesOf(params)
      PROVE  /\ Named(params, n) \in ToSet(params) /\ Named(params, n).name = n
             /\ \A p \in ToSet(params) : p.name = n => p = Named(params, n)
  BY DEF NamesOf, Named, Distinct
<1>2. QED
  BY <1>1 DEF extractUpdatable, NamesOf

\* The properties and the dependencies of a schema together define what the definitions
\* have, as the definitions have it, and nothing else.
LEMMA DefinedAsGiven ==
  ASSUME NEW params, NEW props, NEW required, NEW n,
         NEW s, s = SchemaOf(params, props, required)
  PROVE  /\ n \in DOMAIN s.properties => n \in DOMAIN props /\ s.properties[n] = props[n]
         /\ \A place \in PlacesOf(s, n) : n \in DOMAIN props /\ place[2].allows = props[n]
         /\ n \in DOMAIN props => n \in DOMAIN s.properties \/ PlacesOf(s, n) # {}
<1>1. /\ s.properties = LeftOf(params, props)
      /\ s.dependencies = extractDependencies(params, props)
  BY DEF SchemaOf
<1>2. n \in DOMAIN s.properties => n \in DOMAIN props /\ s.properties[n] = props[n]
  BY <1>1 DEF LeftOf, Without
<1>3. ASSUME NEW place \in PlacesOf(s, n)
      PROVE  n \in DOMAIN props /\ place[2].allows = props[n]
  <2>1. PICK k \in DOMAIN s.dependencies : place \in {k} \X s.dependencies[k]
    BY DEF PlacesOf
  <2>2. place[2] \in s.dependencies[k] /\ place[2].name = n /\ place[2].defined
    BY <2>1 DEF PlacesOf
  <2>3. PICK p \in Moved(params, props) : place[2] = Conditional(p, props)
    BY <1>1, <2>2 DEF extractDependencies
  <2>4. /\ Conditional(p, props).name = p.name
        /\ Conditional(p, props).defined = (p.name \in DOMAIN props)
        /\ p.name \in DOMAIN props => Conditional(p, props).allows = props[p.name]
    BY DEF Conditional
  <2>5. p.name = n /\ n \in DOMAIN props
    BY <2>2, <2>3, <2>4, Zenon
  <2>6. QED
    BY <2>3, <2>4, <2>5
<1>4. ASSUME n \in DOMAIN props, n \notin DOMAIN s.properties
      PROVE  PlacesOf(s, n) # {}
  <2>1. PICK p \in Moved(params, props) : p.name = n
    BY <1>1, <1>4 DEF LeftOf, Without
  <2>2. p.key \in DOMAIN s.dependencies /\ Conditional(p, props) \in s.dependencies[p.key]
    BY <1>1 DEF extractDependencies
  <2>3. Conditional(p, props).name = n /\ Conditional(p, props).defined
    BY <1>4, <2>1 DEF Conditional
  <2>4. <<p.key, Conditional(p, props)>> \in PlacesOf(s, n)
    BY <2>2, <2>3 DEF PlacesOf
  <2>5. QED
    BY <2>4
<1>5. QED
  BY <1>2, <1>3, <1>4

\* The values the schema for updates allows a parameter.
LEMMA AllowedInUpdate ==
  ASSUME NEW p, NEW n, NEW upd, upd = extractUpdatable(p.params)
  PROVE  AllowedBy(updateSchema(p), n) =
           IF n \notin DOMAIN upd THEN {} ELSE IF upd[n] = {} THEN Texts ELSE upd[n]
<1> DEFINE s == updateSchema(p)
           definitions == (IF n \in DOMAIN s.properties THEN {s.properties[n]} ELSE {})
                            \union {place[2].allows : place \in PlacesOf(s, n)}
<1>1. /\ n \in DOMAIN s.properties => n \in DOMAIN upd /\ s.properties[n] = upd[n]
      /\ \A place \in PlacesOf(s, n) : n \in DOMAIN upd /\ place[2].allows = upd[n]
      /\ n \in DOMAIN upd => n \in DOMAIN s.properties \/ PlacesOf(s, n) # {}
  BY DefinedAsGiven DEF updateSchema
<1>2. definitions = IF n \in DOMAIN upd THEN {upd[n]} ELSE {}
  <2> HIDE DEF s
  <2>1. QED
    BY <1>1
<1>3. AllowedBy(s, n) = UNION {IF d = {} THEN Texts ELSE d : d \in definitions}
  BY DEF AllowedBy
<1>4. QED
  <2> HIDE DEF definitions
  <2>1. QED
    BY <1>2, <1>3

\* The schema for updates and the check of an update agree, in every plan a bundle may
\* describe: its parameters in any order, of any types, on any dependencies.
THEOREM OffersAgree == Spec => []OffersWhatItTakes
<1>1. IInv => OffersWhatItTakes
  <2> SUFFICES ASSUME IInv, NEW p \in PlanNames, NEW n \in Names
               PROVE  LET offered == AllowedBy(updateSchema(plans[p]), n)
                          listed  == \A d \in ToSet(plans[p].params) :
                                       d.type = "enum" => d.enum # {}
                      IN  /\ listed => \A t \in offered : MayBecome(plans[p].params, n, t)
                          /\ offered = {} => \A t \in Texts : ~MayBecome(plans[p].params, n, t)
    BY DEF OffersWhatItTakes
  <2> DEFINE params == plans[p].params
             upd == extractUpdatable(params)
             offered == AllowedBy(updateSchema(plans[p]), n)
  <2>1. Distinct(params)
    BY DEF IInv, NamesDistinct
  <2>2. offered = IF n \notin DOMAIN upd THEN {} ELSE IF upd[n] = {} THEN Texts ELSE upd[n]
    BY AllowedInUpdate
  <2>3. /\ n \in NamesOf(params) => Named(params, n) \in ToSet(params)
        /\ n \in NamesOf(params) => (n \in DOMAIN upd <=> Named(params, n).updatable)
        /\ n \in DOMAIN upd => n \in NamesOf(params) /\ upd[n] = Named(params, n).enum
    BY <2>1, UpdatableDefinitions
  <2> HIDE DEF params, upd, offered
  <2>4. ASSUME \A d \in ToSet(params) : d.type = "enum" => d.enum # {}, NEW t \in offered
        PROVE  MayBecome(params, n, t)
    BY <2>2, <2>3, <2>4 DEF MayBecome
  <2>5. ASSUME offered = {}, NEW t \in Texts
        PROVE  ~MayBecome(params, n, t)
    BY <2>2, <2>3, <2>5 DEF MayBecome
  <2>6. QED
    BY <2>4, <2>5 DEF params, offered
<1>2. QED
  BY <1>1, Invariant, PTL
-----------------------------------------------------------------------------
(* Induction over numbers, and what it says of the recursion over a list.  *)

\* Numbers have a least one.
LEMMA LeastNumber ==
  ASSUME NEW A \in SUBSET Nat, A # {}
  PROVE  \E n \in A : \A m \in A : n <= m
<1> DEFINE below == {1 .. n : n \in A}
<1>1. IsWellFoundedOn(StrictSubsetOrdering(Nat), FiniteSubsetsOf(Nat))
  BY FS_StrictSubsetOrderingWellFounded
<1>2. below \subseteq FiniteSubsetsOf(Nat)
  <2> SUFFICES ASSUME NEW n \in A PROVE 1 .. n \in FiniteSubsetsOf(Nat)
    OBVIOUS
  <2>1. n \in Int /\ 1 \in Int /\ 1 .. n \subseteq Nat
    OBVIOUS
  <2>2. IsFiniteSet(1 .. n)
    BY <2>1, FS_Interval
  <2>3. QED
    BY <2>1, <2>2 DEF FiniteSubsetsOf
<1>3. below # {}
  OBVIOUS
<1>4. PICK x \in below : \A y \in below : <<y, x>> \notin StrictSubsetOrdering(Nat)
  <2> HIDE DEF below
  <2>1. QED
    BY <1>1, <1>2, <1>3, WFMin
<1>5. PICK n \in A : x = 1 .. n
  OBVIOUS
<1>6. ASSUME NEW m \in A, m < n
      PROVE  FALSE
  <2>1. 1 .. m \subseteq 1 .. n /\ n \in 1 .. n /\ n \notin 1 .. m /\ 1 .. m \subseteq Nat /\ 1 .. n \subseteq Nat
    BY <1>6
  <2>2. <<1 .. m, 1 .. n>> \in StrictSubsetOrdering(Nat)
    BY <2>1 DEF StrictSubsetOrdering
  <2>3. QED
    BY <1>4, <1>5, <2>2
<1>7. QED
  BY <1>6

\* What holds of 0 and goes on holding holds up to any number.
LEMMA Onward ==
  ASSUME NEW n \in Nat, NEW A, 0 \in A,
         \A k \in 0 .. n - 1 : k \in A => k + 1 \in A
  PROVE  \A k \in 0 .. n : k \in A
<1> DEFINE bad == {k \in 0 .. n : k \notin A}
<1>1. SUFFICES ASSUME bad # {} PROVE FALSE
  OBVIOUS
<1>2. PICK k \in bad : \A m \in bad : k <= m
  <2>1. bad \in SUBSET Nat
    OBVIOUS
  <2> HIDE DEF bad
  <2>2. QED
    BY <1>1, <2>1, LeastNumber
<1>3. k # 0 /\ k \in 0 .. n
  OBVIOUS
<1>4. k - 1 \in 0 .. n - 1 /\ k - 1 \notin bad
  BY <1>2, <1>3
<1>5. QED
  BY <1>3, <1>4

\* The parameters that may be updated are those that are updatable.
LEMMA UpdatableOnes ==
  ASSUME NEW S, NEW params \in Seq(S)
  PROVE  /\ Updatable(params) \in Seq(S)
         /\ ToSet(Updatable(params)) = {p \in ToSet(params) : p.updatable}
<1> DEFINE L == Len(params)
           Next1(g, k) == IF k = 0 THEN <<>>
                          ELSE IF params[k].updatable THEN Append(g[k - 1], params[k]) ELSE g[k - 1]
           Upto(k) == {params[m] : m \in {j \in 1 .. k : params[j].updatable}}
           among == CHOOSE g : g = [k \in 0 .. L |-> Next1(g, k)]
<1>1. L \in Nat /\ \A k \in 1 .. L : params[k] \in S
  OBVIOUS
<1>2. \E g : g = [k \in 0 .. L |-> Next1(g, k)]
  <2> DEFINE A == {n \in Nat : \E g : g = [k \in 0 .. n |-> Next1(g, k)]}
  <2>1. 0 \in A
    <3> DEFINE g == [k \in 0 .. 0 |-> <<>>]
    <3>1. g = [k \in 0 .. 0 |-> Next1(g, k)]
      OBVIOUS
    <3>2. QED
      BY <3>1
  <2>2. ASSUME NEW n \in 0 .. L - 1, n \in A
        PROVE  n + 1 \in A
    <3>1. PICK g : g = [k \in 0 .. n |-> Next1(g, k)]
      BY <2>2
    <3> DEFINE h == [k \in 0 .. n + 1 |-> IF k = n + 1 THEN Next1(g, n + 1) ELSE g[k]]
    <3>2. \A k \in 0 .. n : h[k] = g[k] /\ g[k] = Next1(g, k)
      <4>1. \A k \in 0 .. n : k \in 0 .. n + 1 /\ k # n + 1
        BY <1>1
      <4>2. QED
        BY <3>1, <4>1
    <3>3. \A k \in 0 .. n + 1 : Next1(h, k) = Next1(g, k)
      <4>1. ASSUME NEW k \in 0 .. n + 1, k # 0
            PROVE  k - 1 \in 0 .. n
        BY <1>1, <4>1
      <4>2. QED
        BY <4>1, <3>2
    <3>4. \A k \in 0 .. n + 1 : h[k] = Next1(h, k)
      <4>1. \A k \in 0 .. n + 1 : k = n + 1 \/ k \in 0 .. n
        OBVIOUS
      <4>2. h[n + 1] = Next1(g, n + 1)
        BY <1>1
      <4> HIDE DEF h
      <4>3. QED
        BY <3>2, <3>3, <4>1, <4>2, Zenon
    <3>5. h = [k \in 0 .. n + 1 |-> Next1(h, k)]
      BY <3>4
    <3> HIDE DEF h
    <3>6. \E f : f = [k \in 0 .. n + 1 |-> Next1(f, k)]
      BY <3>5
    <3>7. QED
      BY <1>1, <3>6
  <2> HIDE DEF A
  <2>3. L \in A
    <3>1. L \in 0 .. L /\ \A k \in 0 .. L - 1 : k \in A => k + 1 \in A
      BY <1>1, <2>2
    <3>2. \A k \in 0 .. L : k \in A
      BY ONLY <1>1, <2>1, <3>1, Onward
    <3>3. QED
      BY <3>1, <3>2
  <2>4. QED
    BY <2>3 DEF A
<1>3. /\ Updatable(params) = among[L]
      /\ among = [k \in 0 .. L |-> Next1(among, k)]
  BY <1>2 DEF Updatable
<1>4. \A k \in 0 .. L : among[k] = Next1(among, k)
  BY <1>3
<1>5. among[L] \in Seq(S) /\ ToSet(among[L]) = Upto(L)
  <2> DEFINE A == {n \in Nat : among[n] \in Seq(S) /\ ToSet(among[n]) = Upto(n)}
  <2> HIDE DEF among
  <2>1. 0 \in A
    <3>1. among[0] = <<>>
      BY <1>1, <1>4
    <3>2. ToSet(<<>>) = {} /\ Upto(0) = {}
      BY DEF ToSet
    <3>3. among[0] \in Seq(S)
      BY <3>1
    <3> HIDE DEF Upto
    <3>4. ToSet(among[0]) = Upto(0)
      BY <3>1, <3>2
    <3>5. QED
      BY <3>3, <3>4
  <2>2. ASSUME NEW n \in 0 .. L - 1, n \in A
        PROVE  n + 1 \in A
    <3>1. /\ among[n + 1] = IF params[n + 1].updatable THEN Append(among[n], params[n + 1]) ELSE among[n]
          /\ params[n + 1] \in S
      BY <1>1, <1>4
    <3>2. 1 .. n + 1 = (1 .. n) \union {n + 1}
      BY <1>1
    <3>3. Upto(n + 1) = IF params[n + 1].updatable THEN Upto(n) \union {params[n + 1]} ELSE Upto(n)
      BY <3>2
    <3>4. ToSet(Append(among[n], params[n + 1])) = ToSet(among[n]) \union {params[n + 1]}
      BY <2>2, <3>1, OneMore
    <3>5. among[n] \in Seq(S) /\ ToSet(among[n]) = Upto(n)
      BY <2>2
    <3>6. among[n + 1] \in Seq(S)
      BY <3>1, <3>5
    <3> HIDE DEF Upto
    <3>7. ToSet(among[n + 1]) = Upto(n + 1)
      BY <3>1, <3>3, <3>4, <3>5
    <3>8. QED
      BY <1>1, <3>6, <3>7
  <2> HIDE DEF A
  <2>3. L \in A
    <3>1. L \in 0 .. L /\ \A k \in 0 .. L - 1 : k \in A => k + 1 \in A
      BY <1>1, <2>2
    <3>2. \A k \in 0 .. L : k \in A
      BY ONLY <1>1, <2>1, <3>1, Onward
    <3>3. QED
      BY <3>1, <3>2
  <2>4. QED
    BY <2>3 DEF A
<1>6. Upto(L) = {p \in ToSet(params) : p.updatable}
  BY <1>1 DEF ToSet
<1>7. QED
  BY <1>3, <1>5, <1>6

-----------------------------------------------------------------------------
(* Schemas: each parameter is defined once.                               *)

\* The names that the properties of a schema leave out: of parameters whose definition went
\* under the name that they depend on.
LEMMA LeftOut ==
  ASSUME NEW params, Distinct(params), NEW props, NEW required,
         NEW s, s = SchemaOf(params, props, required),
         NEW n \in DOMAIN props
  PROVE  /\ n \notin DOMAIN s.properties =>
              /\ n \in NamesOf(params)
              /\ \A p \in ToSet(params) : p.name = n =>
                   /\ p \in Moved(params, props)
                   /\ p.key \in DOMAIN props
                   /\ p.key \in DOMAIN s.dependencies
                   /\ Conditional(p, props) \in s.dependencies[p.key]
         /\ n \in DOMAIN s.properties => \A p \in Moved(params, props) : p.name # n
<1>1. /\ s.properties = LeftOf(params, props)
      /\ s.dependencies = extractDependencies(params, props)
  BY DEF SchemaOf
<1>2. DOMAIN s.properties = DOMAIN props \ {p.name : p \in Moved(params, props)}
  BY <1>1 DEF LeftOf, Without
<1>3. ASSUME n \notin DOMAIN s.properties
      PROVE  /\ n \in NamesOf(params)
             /\ \A p \in ToSet(params) : p.name = n => p \in Moved(params, props)
  <2>1. PICK p \in Moved(params, props) : p.name = n
    BY <1>2, <1>3
  <2>2. p \in ToSet(params)
    BY DEF Moved
  <2>3. QED
    BY <2>1, <2>2 DEF NamesOf, Distinct
<1>4. ASSUME NEW p \in Moved(params, props)
      PROVE  /\ p.key \in DOMAIN props
             /\ p.key \in DOMAIN s.dependencies
             /\ Conditional(p, props) \in s.dependencies[p.key]
  BY <1>1 DEF extractDependencies, Moved
<1>5. QED
  BY <1>2, <1>3, <1>4

\* Whoever fills in a form comes to each definition of a schema, unless parameters depend
\* on each other in a circle: those that he does not come to would all depend on one another.
LEMMA AllReached ==
  ASSUME NEW params, Distinct(params), Acyclic(params),
         NEW props, DOMAIN props \subseteq Names, NEW required,
         NEW s, s = SchemaOf(params, props, required)
  PROVE  DOMAIN props \subseteq Reached(s)
<1> SUFFICES ASSUME NEW n \in DOMAIN props, NEW S \in SUBSET Names,
                    DOMAIN s.properties \subseteq S,
                    \A k \in S \intersect DOMAIN s.dependencies :
                      {c.name : c \in s.dependencies[k]} \subseteq S,
                    n \notin S
             PROVE  FALSE
  BY DEF Reached
<1> DEFINE C == {m \in NamesOf(params) : m \in DOMAIN props /\ m \notin S}
<1>1. \A m \in DOMAIN props : m \notin S => m \in C
  BY LeftOut
<1>2. C \in (SUBSET NamesOf(params)) \ {{}}
  BY <1>1
<1>3. PICK p \in ToSet(params) : p.name \in C /\ p.key \notin C
  <2> HIDE DEF C
  <2>1. QED
    BY <1>2 DEF Acyclic
<1>4. /\ p.key \in DOMAIN props
      /\ p.key \in DOMAIN s.dependencies
      /\ Conditional(p, props) \in s.dependencies[p.key]
  <2>1. p.name \in DOMAIN props /\ p.name \notin DOMAIN s.properties
    BY <1>3
  <2>2. QED
    BY <2>1, LeftOut
<1>5. p.key \in S
  BY <1>1, <1>3, <1>4
<1>6. Conditional(p, props).name = p.name
  BY DEF Conditional
<1>7. p.name \in S
  BY <1>4, <1>5, <1>6
<1>8. QED
  BY <1>3, <1>7

\* A schema defines each name once: in its properties or under one other name.
LEMMA OnePlace ==
  ASSUME NEW params, Distinct(params), NEW props, NEW required,
         NEW s, s = SchemaOf(params, props, required),
         NEW n \in DOMAIN props
  PROVE  IF n \in DOMAIN s.properties
           THEN PlacesOf(s, n) = {}
           ELSE \E place \in PlacesOf(s, n) : PlacesOf(s, n) = {place}
<1>1. ASSUME NEW place \in PlacesOf(s, n)
      PROVE  \E p \in Moved(params, props) : p.name = n /\ place = <<p.key, Conditional(p, props)>>
  <2>1. s.dependencies = extractDependencies(params, props)
    BY DEF SchemaOf
  <2>2. PICK k \in DOMAIN s.dependencies : place \in {k} \X s.dependencies[k]
    BY DEF PlacesOf
  <2>3. place = <<k, place[2]>> /\ place[2] \in s.dependencies[k] /\ place[2].name = n
    BY <2>2 DEF PlacesOf
  <2>4. PICK p \in Moved(params, props) : p.key = k /\ place[2] = Conditional(p, props)
    BY <2>1, <2>3 DEF extractDependencies
  <2>5. Conditional(p, props).name = p.name
    BY DEF Conditional
  <2>6. QED
    BY <2>3, <2>4, <2>5
<1>2. CASE n \in DOMAIN s.properties
  BY <1>1, <1>2, LeftOut
<1>3. CASE n \notin DOMAIN s.properties
  <2>1. PICK p \in ToSet(params) : p.name = n
    BY <1>3, LeftOut DEF NamesOf
  <2>2. /\ p.key \in DOMAIN s.dependencies
        /\ Conditional(p, props) \in s.dependencies[p.key]
    BY <1>3, <2>1, LeftOut
  <2>3. Conditional(p, props).name = n /\ Conditional(p, props).defined
    BY <2>1 DEF Conditional
  <2> DEFINE here == <<p.key, Conditional(p, props)>>
  <2>4. here \in PlacesOf(s, n)
    BY <2>2, <2>3 DEF PlacesOf
  <2>5. \A q \in Moved(params, props) : q.name = n => q = p
    BY <2>1 DEF Moved, Distinct
  <2>6. PlacesOf(s, n) = {here}
    BY <1>1, <2>4, <2>5
  <2>7. QED
    BY <1>3, <2>4, <2>6
<1>4. QED
  BY <1>2, <1>3

\* The invariant says enough of the plans for their schemas.
LEMMA OnceInSchemas == IInv => OfferedOnce
<1> SUFFICES ASSUME IInv, NEW p \in PlanNames, Acyclic(plans[p].params)
             PROVE  LET schemas == parametersToSchema(plans[p])
                        offered == [create |-> NamesOf(plans[p].params),
                                    bind   |-> NamesOf(plans[p].bind),
                                    update |-> NamesOf(Updatable(plans[p].params))]
                    IN  \A s \in {"create", "bind", "update"} :
                          /\ offered[s] \subseteq Reached(schemas[s])
                          /\ \A n \in offered[s] :
                               IF n \in DOMAIN schemas[s].properties
                                 THEN PlacesOf(schemas[s], n) = {}
                                 ELSE \E place \in PlacesOf(schemas[s], n) :
                                        PlacesOf(schemas[s], n) = {place}
  BY DEF OfferedOnce
<1> DEFINE params == plans[p].params
           bind == plans[p].bind
           upd == extractUpdatable(params)
           Whole(names, s) ==
             /\ names \subseteq Reached(s)
             /\ \A n \in names : IF n \in DOMAIN s.properties
                                   THEN PlacesOf(s, n) = {}
                                   ELSE \E place \in PlacesOf(s, n) : PlacesOf(s, n) = {place}
<1>1. Distinct(params) /\ params \in Seq(Descriptors) /\ bind \in Seq(Descriptors)
  BY DEF IInv, NamesDistinct, TypeOK
<1>2. NamesOf(params) \subseteq Names /\ NamesOf(bind) \subseteq Names
  <2>1. ToSet(params) \subseteq Descriptor /\ ToSet(bind) \subseteq Descriptor
    BY <1>1 DEF ToSet
  <2>2. QED
    BY <2>1 DEF NamesOf, Descriptor
<1>3. ASSUME NEW props, DOMAIN props \subseteq Names, NEW required
      PROVE  Whole(DOMAIN props, SchemaOf(params, props, required))
  <2> DEFINE s == SchemaOf(params, props, required)
  <2> HIDE DEF s, params
  <2>1. s = SchemaOf(params, props, required)
    BY DEF s
  <2>2. DOMAIN props \subseteq Reached(s)
    BY <1>1, <1>3, <2>1, AllReached DEF params
  <2>3. \A n \in DOMAIN props : IF n \in DOMAIN s.properties
                                   THEN PlacesOf(s, n) = {}
                                   ELSE \E place \in PlacesOf(s, n) : PlacesOf(s, n) = {place}
    BY <1>1, <2>1, OnePlace
  <2>4. QED
    BY <2>2, <2>3 DEF s
<1>4. DOMAIN extractProperties(params) = NamesOf(params) /\ DOMAIN extractProperties(bind) = NamesOf(bind)
  BY DEF extractProperties
<1>5. DOMAIN upd = NamesOf(Updatable(params)) /\ DOMAIN upd \subseteq NamesOf(params)
  <2>1. ToSet(Updatable(params)) = {q \in ToSet(params) : q.updatable}
    BY <1>1, UpdatableOnes
  <2>2. QED
    BY <2>1 DEF extractUpdatable, NamesOf
<1> HIDE DEF Whole, params, bind, upd
<1>6. Whole(NamesOf(params), createSchema(plans[p]))
  BY <1>2, <1>3, <1>4 DEF createSchema, params
<1>7. Whole(NamesOf(bind), bindSchema(plans[p]))
  BY <1>2, <1>3, <1>4 DEF bindSchema, params, bind
<1>8. Whole(NamesOf(Updatable(params)), updateSchema(plans[p]))
  <2>1. DOMAIN upd \subseteq Names
    BY <1>2, <1>5
  <2>2. updateSchema(plans[p]) = SchemaOf(params, upd, extractUpdatableRequired(extractRequired(params), upd))
    BY DEF updateSchema, params, upd
  <2>3. QED
    BY <1>3, <1>5, <2>1, <2>2
<1>9. QED
  BY <1>6, <1>7, <1>8 DEF parametersToSchema, Whole, params, bind

\* No parameter is lost between the properties and the dependencies of a schema and none is
\* defined twice, in any plan whose parameters do not depend on each other in a circle.
THEOREM OffersOnce == Spec => []OfferedOnce
<1>1. QED
  BY OnceInSchemas, Invariant, PTL

-----------------------------------------------------------------------------
(* Forms: every parameter, once and in order.                              *)

\* The concatenation of lists, list by list.
LEMMA Flattening ==
  ASSUME NEW T, NEW seqs \in Seq(Seq(T)), Len(seqs) > 0
  PROVE  \E f \in [1 .. Len(seqs) -> Seq(T)] :
           /\ f[1] = seqs[1]
           /\ \A i \in 1 .. Len(seqs) : i > 1 => f[i] = f[i - 1] \o seqs[i]
           /\ FlattenSeq(seqs) = f[Len(seqs)]
<1> DEFINE L == Len(seqs)
           Nx(g, i) == IF i = 1 THEN seqs[i] ELSE g[i - 1] \o seqs[i]
           flatten == CHOOSE g : g = [i \in 1 .. L |-> Nx(g, i)]
<1>1. L \in Nat /\ L # 0 /\ \A k \in 1 .. L : seqs[k] \in Seq(T)
  OBVIOUS
<1>2. \E g : g = [i \in 1 .. L |-> Nx(g, i)]
  <2> DEFINE A == {n \in Nat : \E g : g = [i \in 1 .. n + 1 |-> Nx(g, i)]}
  <2>1. 0 \in A
    <3> DEFINE g == [i \in 1 .. 0 + 1 |-> seqs[i]]
    <3>1. g = [i \in 1 .. 0 + 1 |-> Nx(g, i)]
      OBVIOUS
    <3> HIDE DEF g
    <3>2. QED
      BY <3>1
  <2>2. ASSUME NEW n \in 0 .. (L - 1) - 1, n \in A
        PROVE  n + 1 \in A
    <3>1. PICK g : g = [i \in 1 .. n + 1 |-> Nx(g, i)]
      BY <2>2
    <3> DEFINE h == [i \in 1 .. (n + 1) + 1 |-> IF i = n + 2 THEN Nx(g, n + 2) ELSE g[i]]
    <3>2. \A i \in 1 .. n + 1 : h[i] = g[i] /\ g[i] = Nx(g, i)
      <4>1. \A i \in 1 .. n + 1 : i \in 1 .. (n + 1) + 1 /\ i # n + 2
        BY <1>1
      <4>2. QED
        BY <3>1, <4>1
    <3>3. \A i \in 1 .. (n + 1) + 1 : Nx(h, i) = Nx(g, i)
      <4>1. ASSUME NEW i \in 1 .. (n + 1) + 1, i # 1
            PROVE  i - 1 \in 1 .. n + 1
        BY <1>1, <4>1
      <4>2. QED
        BY <4>1, <3>2
    <3>4. \A i \in 1 .. (n + 1) + 1 : h[i] = Nx(h, i)
      <4>1. \A i \in 1 .. (n + 1) + 1 : i = n + 2 \/ i \in 1 .. n + 1
        BY <1>1
      <4>2. h[n + 2] = Nx(g, n + 2)
        BY <1>1
      <4> HIDE DEF h, Nx
      <4>3. QED
        BY <3>2, <3>3, <4>1, <4>2, Zenon
    <3>5. h = [i \in 1 .. (n + 1) + 1 |-> Nx(h, i)]
      BY <3>4
    <3> HIDE DEF h, Nx
    <3>6. \E f : f = [i \in 1 .. (n + 1) + 1 |-> Nx(f, i)]
      BY <3>5
    <3>7. n + 1 \in Nat
      BY <1>1
    <3>8. QED
      BY <3>6, <3>7, Zenon
  <2> HIDE DEF A
  <2>3. L - 1 \in A
    <3>1. L - 1 \in Nat /\ L - 1 \in 0 .. L - 1 /\ \A k \in 0 .. (L - 1) - 1 : k \in A => k + 1 \in A
      BY <1>1, <2>2
    <3>2. \A k \in 0 .. L - 1 : k \in A
      BY ONLY <2>1, <3>1, Onward
    <3>3. QED
      BY <3>1, <3>2
  <2>4. \E g : g = [i \in 1 .. (L - 1) + 1 |-> Nx(g, i)]
    BY <2>3 DEF A
  <2>5. (L - 1) + 1 = L
    BY <1>1
  <2> HIDE DEF L, Nx
  <2>6. QED
    BY <2>4, <2>5, Zenon
<1>3. FlattenSeq(seqs) = flatten[L]
  BY <1>1 DEF FlattenSeq
<1>4. flatten = [i \in 1 .. L |-> Nx(flatten, i)]
  BY <1>2
<1> HIDE DEF flatten
<1>5. /\ flatten[1] = seqs[1]
      /\ \A i \in 1 .. L : i > 1 => flatten[i] = flatten[i - 1] \o seqs[i]
  <2>1. \A i \in 1 .. L : flatten[i] = Nx(flatten, i)
    BY <1>4
  <2>2. 1 \in 1 .. L
    BY <1>1
  <2> HIDE DEF L
  <2>3. \A i \in 1 .. L : i > 1 => i # 1
    BY DEF L
  <2>4. flatten[1] = seqs[1]
    BY <2>1, <2>2
  <2>5. QED
    BY <2>1, <2>3, <2>4, Zenon
<1>6. flatten \in [1 .. L -> Seq(T)]
  <2> DEFINE A == {n \in Nat : flatten[n + 1] \in Seq(T)}
  <2>1. 0 \in A
    BY <1>1, <1>5
  <2>2. ASSUME NEW n \in 0 .. (L - 1) - 1, n \in A
        PROVE  n + 1 \in A
    <3>1. n + 2 \in 1 .. L /\ n + 2 > 1 /\ (n + 2) - 1 = n + 1 /\ n + 1 \in Nat /\ (n + 1) + 1 = n + 2
      BY <1>1
    <3>2. flatten[n + 2] = flatten[n + 1] \o seqs[n + 2]
      BY <1>5, <3>1
    <3>3. flatten[n + 1] \in Seq(T) /\ seqs[n + 2] \in Seq(T)
      BY <1>1, <2>2, <3>1
    <3>4. flatten[n + 2] \in Seq(T)
      BY <3>2, <3>3
    <3>5. QED
      BY <3>1, <3>4
  <2> HIDE DEF A
  <2>3. \A k \in 0 .. L - 1 : k \in A
    <3>1. L - 1 \in Nat /\ \A k \in 0 .. (L - 1) - 1 : k \in A => k + 1 \in A
      BY <1>1, <2>2
    <3>2. QED
      BY ONLY <2>1, <3>1, Onward
  <2>4. ASSUME NEW i \in 1 .. L
        PROVE  flatten[i] \in Seq(T)
    <3>1. i - 1 \in 0 .. L - 1 /\ (i - 1) + 1 = i
      BY <1>1
    <3>2. flatten[(i - 1) + 1] \in Seq(T)
      BY <2>3, <3>1 DEF A
    <3>3. QED
      BY <3>1, <3>2
  <2>5. QED
    BY <1>4, <2>4
<1>7. QED
  BY <1>3, <1>5, <1>6

\* Concatenation is associative.
LEMMA Concatenations ==
  ASSUME NEW T
  PROVE  \A r, s, t \in Seq(T) : (r \o s) \o t = r \o (s \o t)
BY ConcatAssociative

\* The concatenation of a list and others.
LEMMA FlatteningFirst ==
  ASSUME NEW T, NEW e \in Seq(T), NEW s \in Seq(Seq(T))
  PROVE  /\ FlattenSeq(<<e>> \o s) = e \o FlattenSeq(s)
         /\ FlattenSeq(s) \in Seq(T)
<1>0. \A r, t, u \in Seq(T) : (r \o t) \o u = r \o (t \o u)
  BY Concatenations
<1> DEFINE c == <<e>> \o s
           L == Len(s)
<1>1. /\ L \in Nat /\ c \in Seq(Seq(T)) /\ Len(c) = L + 1
      /\ c[1] = e /\ \A i \in 1 .. L : c[i + 1] = s[i] /\ s[i] \in Seq(T)
  OBVIOUS
<1> HIDE DEF c
<1>2. PICK f \in [1 .. L + 1 -> Seq(T)] :
        /\ f[1] = c[1]
        /\ \A i \in 1 .. L + 1 : i > 1 => f[i] = f[i - 1] \o c[i]
        /\ FlattenSeq(c) = f[L + 1]
  <2>1. Len(c) > 0
    BY <1>1
  <2>2. \E f \in [1 .. Len(c) -> Seq(T)] :
           /\ f[1] = c[1]
           /\ \A i \in 1 .. Len(c) : i > 1 => f[i] = f[i - 1] \o c[i]
           /\ FlattenSeq(c) = f[Len(c)]
    BY ONLY <1>1, <2>1, Flattening
  <2>3. Len(c) = L + 1
    BY <1>1
  <2>4. QED
    BY ONLY <2>2, <2>3
<1>3. CASE L = 0
  <2>1. s = <<>>
    BY <1>3
  <2>2. FlattenSeq(s) = <<>>
    BY <1>3, <2>1 DEF FlattenSeq
  <2>3. FlattenSeq(c) = e
    BY <1>1, <1>2, <1>3
  <2>4. QED
    BY <2>2, <2>3 DEF c
<1>4. CASE L # 0
  <2>1. PICK g \in [1 .. L -> Seq(T)] :
          /\ g[1] = s[1]
          /\ \A i \in 1 .. L : i > 1 => g[i] = g[i - 1] \o s[i]
          /\ FlattenSeq(s) = g[L]
    <3>1. Len(s) > 0
      BY <1>4
    <3>2. QED
      BY <3>1, Flattening
  <2> DEFINE A == {n \in Nat : f[n + 2] = e \o g[n + 1]}
  <2>2. 0 \in A
    <3>1. /\ 2 \in 1 .. L + 1 /\ 2 > 1 /\ 2 - 1 = 1 /\ 1 + 1 = 2 /\ 1 \in 1 .. L
          /\ 0 \in Nat /\ 0 + 2 = 2 /\ 0 + 1 = 1
      BY <1>1, <1>4
    <3>2. c[1 + 1] = s[1]
      BY <1>1, <3>1
    <3>3. f[2] = f[2 - 1] \o c[2]
      BY <1>2, <3>1
    <3>4. f[2] = f[1] \o c[2] /\ c[2] = s[1]
      BY ONLY <3>1, <3>2, <3>3
    <3>5. f[2] = e \o g[1]
      BY <1>1, <1>2, <2>1, <3>4
    <3>6. QED
      BY <3>1, <3>5
  <2>3. ASSUME NEW n \in 0 .. (L - 1) - 1, n \in A
        PROVE  n + 1 \in A
    <3>1. /\ n + 3 \in 1 .. L + 1 /\ n + 3 > 1 /\ (n + 3) - 1 = n + 2 /\ (n + 2) + 1 = n + 3
          /\ n + 2 \in 1 .. L /\ n + 2 > 1 /\ (n + 2) - 1 = n + 1 /\ n + 1 \in 1 .. L
          /\ n + 1 \in Nat /\ (n + 1) + 2 = n + 3 /\ (n + 1) + 1 = n + 2
      BY <1>1
    <3>2. f[n + 3] = f[n + 2] \o c[n + 3] /\ c[n + 3] = s[n + 2]
      BY <1>1, <1>2, <3>1
    <3>3. g[n + 2] = g[n + 1] \o s[n + 2]
      BY <2>1, <3>1
    <3>4. f[n + 2] = e \o g[n + 1]
      BY <2>3
    <3>5. g[n + 1] \in Seq(T) /\ s[n + 2] \in Seq(T)
      BY <1>1, <2>1, <3>1
    <3>6. (e \o g[n + 1]) \o s[n + 2] = e \o (g[n + 1] \o s[n + 2])
      <4>1. PICK x \in Seq(T) : x = g[n + 1]
        BY <3>5
      <4>2. PICK y \in Seq(T) : y = s[n + 2]
        BY <3>5
      <4>3. (e \o x) \o y = e \o (x \o y)
        BY <1>0, Zenon
      <4>4. QED
        BY ONLY <4>1, <4>2, <4>3
    <3>7. f[n + 3] = e \o g[n + 2]
      BY ONLY <3>2, <3>3, <3>4, <3>6
    <3>8. QED
      BY <3>1, <3>7
  <2> HIDE DEF A
  <2>4. L - 1 \in A
    <3>1. L - 1 \in Nat /\ L - 1 \in 0 .. L - 1 /\ \A k \in 0 .. (L - 1) - 1 : k \in A => k + 1 \in A
      BY <1>1, <1>4, <2>3
    <3>2. \A k \in 0 .. L - 1 : k \in A
      BY ONLY <2>2, <3>1, Onward
    <3>3. QED
      BY <3>1, <3>2
  <2>5. (L - 1) + 2 = L + 1 /\ (L - 1) + 1 = L /\ L \in 1 .. L
    BY <1>1, <1>4
  <2>6. f[(L - 1) + 2] = e \o g[(L - 1) + 1]
    BY <2>4 DEF A
  <2>7. f[L + 1] = e \o g[L] /\ g[L] \in Seq(T)
    BY <2>1, <2>5, <2>6
  <2>8. QED
    BY <1>2, <2>1, <2>7 DEF c
<1>5. QED
  BY <1>3, <1>4

\* An entry of a form, and the items of a form that begins with it.
Entry == [title : Groups \union {NoGroup}, items : Seq(Names)]

LEMMA ItemsFirst ==
  ASSUME NEW entry \in Entry, NEW form \in Seq(Entry)
  PROVE  /\ Items(<<entry>> \o form) = entry.items \o Items(form)
         /\ Items(form) \in Seq(Names)
<1> DEFINE s == [k \in 1 .. Len(form) |-> form[k].items]
           whole == <<entry>> \o form
           c == [k \in 1 .. Len(whole) |-> whole[k].items]
<1>1. /\ whole \in Seq(Entry) /\ Len(whole) = Len(form) + 1 /\ Len(form) \in Nat
      /\ whole[1] = entry /\ \A k \in 1 .. Len(form) : whole[k + 1] = form[k] /\ form[k] \in Entry
  OBVIOUS
<1>2. entry.items \in Seq(Names) /\ s \in Seq(Seq(Names)) /\ Len(s) = Len(form)
  <2>1. \A k \in 1 .. Len(form) : form[k].items \in Seq(Names)
    BY <1>1 DEF Entry
  <2>2. QED
    BY <1>1, <2>1 DEF Entry
<1> HIDE DEF whole
<1>3. c = <<entry.items>> \o s
  <2> DEFINE d == <<entry.items>> \o s
  <2>1. /\ d \in Seq(Seq(Names)) /\ Len(d) = Len(form) + 1
        /\ d[1] = entry.items /\ \A k \in 1 .. Len(form) : d[k + 1] = s[k]
    BY <1>2
  <2>2. d = [k \in 1 .. Len(form) + 1 |-> d[k]]
    BY <2>1
  <2> HIDE DEF d
  <2>3. \A k \in 1 .. Len(form) + 1 : k = 1 \/ (k - 1 \in 1 .. Len(form) /\ (k - 1) + 1 = k)
    BY <1>1
  <2>4. ASSUME NEW k \in 1 .. Len(form) + 1
        PROVE  whole[k].items = d[k]
    <3>1. CASE k = 1
      BY <1>1, <2>1, <3>1
    <3>2. CASE k # 1
      <4>1. PICK j \in 1 .. Len(form) : j + 1 = k
        BY <2>3, <3>2
      <4>2. whole[k] = form[j] /\ d[k] = s[j] /\ s[j] = form[j].items
        BY <1>1, <2>1, <4>1
      <4>3. QED
        BY <4>2
    <3>3. QED
      BY <3>1, <3>2
  <2>5. QED
    BY <1>1, <2>2, <2>4 DEF d
<1>4. Items(form) = FlattenSeq(s) /\ Items(whole) = FlattenSeq(c)
  BY DEF Items
<1> HIDE DEF s, c
<1>5. QED
  <2>1. /\ FlattenSeq(<<entry.items>> \o s) = entry.items \o FlattenSeq(s)
        /\ FlattenSeq(s) \in Seq(Names)
    BY ONLY <1>2, FlatteningFirst
  <2>2. QED
    BY <1>3, <1>4, <2>1 DEF whole

\* The parameters of one group from the k-th on: there is a last one.
LEMMA GroupEnds ==
  ASSUME NEW params, Len(params) \in Nat, NEW k \in 1 .. Len(params)
  PROVE  LET g == params[k].group
             n == InGroup(params, g, k)
         IN  /\ n \in 1 .. Len(params) - k + 1
             /\ k + n <= Len(params) => params[k + n].group # g
<1> DEFINE L == Len(params)
           g == params[k].group
           Out == {n \in Nat : n \in 0 .. L - k + 1 /\ (k + n <= L => params[k + n].group # g)}
           InIt(n) == /\ \A m \in k .. k + n - 1 : params[m].group = g
                      /\ k + n <= L => params[k + n].group # g
<1>1. L \in Nat /\ k \in Nat /\ k \in 1 .. L
  OBVIOUS
<1>2. L - k + 1 \in Out
  <2>1. L - k + 1 \in Nat /\ L - k + 1 \in 0 .. L - k + 1 /\ ~(k + (L - k + 1) <= L)
    BY <1>1
  <2>2. QED
    BY <2>1
<1>3. PICK n \in Out : \A m \in Out : n <= m
  <2>1. Out \in SUBSET Nat
    OBVIOUS
  <2> HIDE DEF Out
  <2>2. QED
    BY <1>2, <2>1, LeastNumber
<1>4. n \in 0 .. L - k + 1 /\ (k + n <= L => params[k + n].group # g)
  OBVIOUS
<1>5. ASSUME NEW m \in k .. k + n - 1
      PROVE  params[m].group = g
  <2>1. m - k \in Nat /\ m - k \in 0 .. L - k + 1 /\ m - k < n /\ k + (m - k) = m
    BY <1>1, <1>4
  <2>2. m - k \notin Out
    <3>1. n \in Nat /\ ~(n <= m - k)
      BY <1>1, <1>4, <2>1
    <3> HIDE DEF Out
    <3>2. QED
      BY <1>3, <3>1
  <2>3. QED
    BY <2>1, <2>2
<1>6. \E i \in 0 .. L - k + 1 : InIt(i)
  BY <1>4, <1>5
<1> DEFINE c == InGroup(params, g, k)
<1>7. c \in 0 .. L - k + 1 /\ InIt(c)
  BY <1>6 DEF InGroup
<1> HIDE DEF c
<1>8. c # 0
  <2>1. SUFFICES ASSUME c = 0 PROVE FALSE
    OBVIOUS
  <2>2. k + 0 = k /\ k <= L
    BY <1>1
  <2>3. k <= L => params[k].group # g
    BY <1>7, <2>1, <2>2
  <2>4. QED
    BY <2>2, <2>3
<1>9. c \in 1 .. L - k + 1
  BY <1>1, <1>7, <1>8
<1>10. QED
  BY <1>7, <1>9 DEF c

\* The entry of a form that begins with the k-th parameter.
EntryAt(params, k) ==
  IF params[k].group = NoGroup THEN createUIFormItem(params[k])
                               ELSE createUIFormGroup(params, params[k].group, k)

\* It has the names of one or more parameters, in their order, and the title of their group,
\* which the parameter that comes after them is not in.
LEMMA EntryWhole ==
  ASSUME NEW params \in Seq(Descriptor), NEW k \in 1 .. Len(params)
  PROVE  LET entry == EntryAt(params, k)
             n == Len(entry.items)
         IN  /\ entry \in Entry
             /\ n \in 1 .. Len(params) - k + 1
             /\ entry.items = [m \in 1 .. n |-> params[k + m - 1].name]
             /\ entry.title = params[k].group
             /\ entry.title # NoGroup /\ k + n <= Len(params) => params[k + n].group # entry.title
<1> DEFINE L == Len(params)
           g == params[k].group
<1>1. L \in Nat /\ k \in Nat /\ k \in 1 .. L
  OBVIOUS
<1>2. \A j \in 1 .. L : params[j] \in Descriptor
  BY <1>1
<1>3. \A j \in 1 .. L : params[j].name \in Names /\ params[j].group \in Groups \union {NoGroup}
  BY <1>2 DEF Descriptor
<1>4. CASE g = NoGroup
  <2>1. EntryAt(params, k) = [title |-> NoGroup, items |-> <<params[k].name>>]
    BY <1>4 DEF EntryAt, createUIFormItem
  <2> DEFINE items == <<params[k].name>>
  <2>2. items \in Seq(Names) /\ Len(items) = 1 /\ items[1] = params[k].name
    BY <1>1, <1>3
  <2>3. k + 1 - 1 = k /\ 1 \in 1 .. L - k + 1 /\ 1 .. 1 = {1}
    BY <1>1
  <2>4. items = [m \in 1 .. 1 |-> params[k + m - 1].name]
    BY <1>1, <2>2, <2>3
  <2>5. [title |-> NoGroup, items |-> items] \in Entry
    BY <2>2 DEF Entry
  <2> HIDE DEF items, L
  <2>6. QED
    BY <1>4, <2>1, <2>2, <2>3, <2>4, <2>5 DEF L, items
<1>5. CASE g # NoGroup
  <2> DEFINE n == InGroup(params, g, k)
             items == [m \in 1 .. n |-> params[k + m - 1].name]
  <2>1. EntryAt(params, k) = [title |-> g, items |-> items]
    BY <1>5 DEF EntryAt, createUIFormGroup
  <2>2. n \in 1 .. L - k + 1 /\ (k + n <= L => params[k + n].group # g)
    BY <1>1, GroupEnds
  <2> HIDE DEF n
  <2>3. \A m \in 1 .. n : k + m - 1 \in 1 .. L
    BY <1>1, <2>2
  <2>4. \A m \in 1 .. n : params[k + m - 1].name \in Names
    BY <1>3, <2>3
  <2>5. n \in Nat
    BY <1>1, <2>2
  <2>6. items \in Seq(Names) /\ Len(items) = n
    BY <2>4, <2>5
  <2>7. [title |-> g, items |-> items] \in Entry
    BY <1>1, <1>3, <2>6 DEF Entry
  <2>8. QED
    BY <2>1, <2>2, <2>6, <2>7
<1>6. QED
  BY <1>4, <1>5

\* The form of a list of parameters, entry by entry: from the k-th parameter on it is the
\* entry that begins there and what comes after its items.
LEMMA FormsByEntry ==
  ASSUME NEW params \in Seq(Descriptor)
  PROVE  \E form :
           /\ createFormDefinition(params) = form[1]
           /\ form[Len(params) + 1] = <<>>
           /\ \A k \in 1 .. Len(params) :
                form[k] = <<EntryAt(params, k)>> \o form[k + Len(EntryAt(params, k).items)]
<1> DEFINE L == Len(params)
           Nx(f, k) == IF k > L THEN <<>>
                       ELSE LET entry == EntryAt(params, k)
                            IN  <<entry>> \o f[k + Len(entry.items)]
           N(k) == k + Len(EntryAt(params, k).items)
           form == CHOOSE f : f = [k \in 1 .. L + 1 |-> Nx(f, k)]
<1>1. L \in Nat
  OBVIOUS
<1>2. \A k \in 1 .. L : N(k) \in k + 1 .. L + 1
  <2> SUFFICES ASSUME NEW k \in 1 .. L PROVE N(k) \in k + 1 .. L + 1
    OBVIOUS
  <2>1. Len(EntryAt(params, k).items) \in 1 .. L - k + 1
    BY EntryWhole
  <2>2. QED
    BY <1>1, <2>1
<1> HIDE DEF N
<1>3. \A f : \A k \in 1 .. L : Nx(f, k) = <<EntryAt(params, k)>> \o f[N(k)]
  BY <1>1 DEF N
<1>4. \A f : \A k : k > L => Nx(f, k) = <<>>
  OBVIOUS
<1>5. createFormDefinition(params) = form[1]
  BY DEF createFormDefinition, EntryAt
<1> HIDE DEF Nx, L
<1>6. \E f : f = [k \in 1 .. L + 1 |-> Nx(f, k)]
  <2> DEFINE A == {n \in Nat : \E f : f = [k \in L + 1 - n .. L + 1 |-> Nx(f, k)]}
  <2>1. 0 \in A
    <3> DEFINE f == [k \in L + 1 - 0 .. L + 1 |-> <<>>]
    <3>1. \A k \in L + 1 - 0 .. L + 1 : k > L
      BY <1>1
    <3>2. f = [k \in L + 1 - 0 .. L + 1 |-> Nx(f, k)]
      BY <1>4, <3>1
    <3> HIDE DEF f
    <3>3. QED
      BY <3>2
  <2>2. ASSUME NEW n \in 0 .. L - 1, n \in A
        PROVE  n + 1 \in A
    <3> DEFINE b == L + 1 - n
               c == L + 1 - (n + 1)
    <3>1. /\ c \in Nat /\ b = c + 1 /\ c >= 1 /\ c <= L
          /\ \A k \in c .. L + 1 : k = c \/ k \in b .. L + 1
          /\ \A k \in b .. L + 1 : k \in c .. L + 1 /\ k # c
          /\ \A k \in c .. L + 1 : k > L \/ k \in 1 .. L
          /\ \A k \in c .. L : \A m \in k + 1 .. L + 1 : m \in b .. L + 1
      BY <1>1
    <3>2. PICK f : f = [k \in b .. L + 1 |-> Nx(f, k)]
      BY <2>2
    <3> HIDE DEF A, b, c
    <3> DEFINE h == [k \in c .. L + 1 |-> IF k = c THEN Nx(f, c) ELSE f[k]]
    <3>3. \A k \in b .. L + 1 : h[k] = f[k] /\ f[k] = Nx(f, k)
      BY <3>1, <3>2
    <3>4. ASSUME NEW k \in c .. L + 1
          PROVE  Nx(h, k) = Nx(f, k)
      <4>1. CASE k > L
        BY <1>4, <4>1
      <4>2. CASE k \in 1 .. L
        <5>1. k \in c .. L
          BY <1>1, <3>1, <4>2
        <5>2. N(k) \in b .. L + 1
          BY <1>2, <3>1, <4>2, <5>1
        <5>3. h[N(k)] = f[N(k)]
          BY <3>3, <5>2
        <5> HIDE DEF h
        <5>4. QED
          BY <1>3, <4>2, <5>3
      <4>3. QED
        BY <3>1, <4>1, <4>2
    <3>5. ASSUME NEW k \in c .. L + 1
          PROVE  h[k] = Nx(f, k)
      BY <3>1, <3>3
    <3>6. h = [k \in c .. L + 1 |-> Nx(h, k)]
      BY <3>4, <3>5
    <3> HIDE DEF h
    <3>7. \E e : e = [k \in c .. L + 1 |-> Nx(e, k)]
      BY <3>6
    <3>8. n + 1 \in Nat
      BY <1>1
    <3>9. QED
      BY <3>7, <3>8, Zenon DEF A, c
  <2>3. L \in A
    <3> HIDE DEF A
    <3>1. L \in 0 .. L /\ \A k \in 0 .. L - 1 : k \in A => k + 1 \in A
      BY <1>1, <2>2
    <3>2. \A k \in 0 .. L : k \in A
      BY ONLY <1>1, <2>1, <3>1, Onward
    <3>3. QED
      BY <3>1, <3>2
  <2>4. \E f : f = [k \in L + 1 - L .. L + 1 |-> Nx(f, k)]
    BY <2>3
  <2>5. L + 1 - L = 1
    BY <1>1
  <2>6. QED
    BY <2>4, <2>5
<1>7. form = [k \in 1 .. L + 1 |-> Nx(form, k)]
  BY <1>6
<1> HIDE DEF form
<1>8. form[L + 1] = <<>>
  <2>1. L + 1 \in 1 .. L + 1 /\ L + 1 > L
    BY <1>1
  <2>2. QED
    BY <1>4, <1>7, <2>1
<1>9. \A k \in 1 .. L : form[k] = <<EntryAt(params, k)>> \o form[N(k)]
  <2>1. \A k \in 1 .. L : k \in 1 .. L + 1
    BY <1>1
  <2>2. QED
    BY <1>3, <1>7, <2>1
<1>10. QED
  BY <1>5, <1>8, <1>9 DEF N, L

\* The names of the parameters from the k-th on.
NamesFrom(params, k) == [m \in 1 .. Len(params) - k + 1 |-> params[k + m - 1].name]

\* A form of the parameters from the k-th on: it has the names of all in their order, begins
\* with the group of the first, and has no two groups of one title next to each other.
WholeFrom(form, params, k) ==
  /\ form \in Seq(Entry)
  /\ Items(form) = NamesFrom(params, k)
  /\ k > Len(params) => form = <<>>
  /\ k <= Len(params) => form # <<>> /\ form[1].title = params[k].group
  /\ \A j \in 1 .. Len(form) - 1 : form[j].title # NoGroup => form[j].title # form[j + 1].title

\* An entry before the form of the parameters that come after it.
LEMMA WholeStep ==
  ASSUME NEW params \in Seq(Descriptor), NEW k \in 1 .. Len(params), NEW rest, NEW n,
         n = k + Len(EntryAt(params, k).items),
         WholeFrom(rest, params, n)
  PROVE  WholeFrom(<<EntryAt(params, k)>> \o rest, params, k)
<1> DEFINE L == Len(params)
           i == Len(EntryAt(params, k).items)
           form == <<EntryAt(params, k)>> \o rest
<1>1. L \in Nat /\ k \in Nat /\ k \in 1 .. L
  OBVIOUS
<1>2. PICK entry \in Entry : entry = EntryAt(params, k)
  BY EntryWhole
<1>3. /\ i \in 1 .. L - k + 1
      /\ entry.items = [m \in 1 .. i |-> params[k + m - 1].name]
      /\ entry.title = params[k].group
      /\ entry.title # NoGroup /\ k + i <= L => params[k + i].group # entry.title
  BY <1>2, EntryWhole
<1> HIDE DEF i
<1>4. n = k + i
  BY DEF i
<1>5. /\ rest \in Seq(Entry)
      /\ Items(rest) = NamesFrom(params, n)
      /\ n > L => rest = <<>>
      /\ n <= L => rest # <<>> /\ rest[1].title = params[n].group
      /\ \A j \in 1 .. Len(rest) - 1 : rest[j].title # NoGroup => rest[j].title # rest[j + 1].title
  BY DEF WholeFrom
<1>6. /\ form \in Seq(Entry) /\ Len(form) = Len(rest) + 1 /\ Len(rest) \in Nat
      /\ form[1] = entry /\ \A j \in 1 .. Len(rest) : form[j + 1] = rest[j]
  BY <1>2, <1>5
<1>7. Items(form) = NamesFrom(params, k)
  <2> HIDE DEF L, form
  <2>1. Items(form) = entry.items \o Items(rest) /\ Items(rest) \in Seq(Names)
    BY <1>2, <1>5, ItemsFirst DEF form
  <2>2. PICK a \in Seq(Names) : a = entry.items /\ Len(a) = i
    BY <1>2 DEF Entry, i
  <2>3. PICK b \in Seq(Names) : b = Items(rest)
    BY <2>1
  <2>4. i \in Nat /\ n \in Nat /\ L - n + 1 \in Nat /\ i + (L - n + 1) = L - k + 1
    <3>1. i \in 1 .. L - k + 1
      BY <1>3
    <3>2. QED
      BY ONLY <1>1, <1>4, <3>1
  <2>5. b = [m \in 1 .. L - n + 1 |-> params[n + m - 1].name]
    BY <1>5, <2>3 DEF NamesFrom, L
  <2>6. Len(b) = L - n + 1
    BY <2>4, <2>5
  <2> DEFINE whole == a \o b
  <2>7. /\ Len(whole) = L - k + 1 /\ whole \in Seq(Names)
        /\ \A m \in 1 .. Len(a) : whole[m] = a[m]
        /\ \A m \in Len(a) + 1 .. Len(a) + Len(b) : whole[m] = b[m - Len(a)]
    <3>1. /\ Len(whole) = Len(a) + Len(b) /\ whole \in Seq(Names)
          /\ \A m \in 1 .. Len(a) : whole[m] = a[m]
          /\ \A m \in Len(a) + 1 .. Len(a) + Len(b) : whole[m] = b[m - Len(a)]
      BY ONLY a \in Seq(Names), b \in Seq(Names)
    <3>2. QED
      BY <2>2, <2>4, <2>6, <3>1
  <2> HIDE DEF whole
  <2>8. ASSUME NEW m \in 1 .. L - k + 1
        PROVE  whole[m] = params[k + m - 1].name
    <3>1. CASE m <= i
      <4>1. m \in 1 .. i /\ m \in 1 .. Len(a)
        BY <1>1, <2>2, <2>4, <3>1
      <4>2. QED
        BY <1>3, <2>2, <2>7, <4>1
    <3>2. CASE ~(m <= i)
      <4>1. /\ m - i \in 1 .. L - n + 1 /\ n + (m - i) - 1 = k + m - 1
            /\ m \in i + 1 .. i + (L - n + 1)
        BY ONLY <1>1, <1>4, <2>4, <3>2, m \in 1 .. L - k + 1
      <4>2. whole[m] = b[m - i]
        BY <2>2, <2>6, <2>7, <4>1
      <4>3. b[m - i] = params[n + (m - i) - 1].name
        BY <2>5, <4>1
      <4>4. QED
        BY <4>1, <4>2, <4>3
    <3>3. QED
      BY <3>1, <3>2
  <2>9. whole = [m \in 1 .. L - k + 1 |-> whole[m]]
    BY <2>7
  <2>10. whole = [m \in 1 .. L - k + 1 |-> params[k + m - 1].name]
    BY <2>8, <2>9
  <2>11. QED
    BY <2>1, <2>2, <2>3, <2>10 DEF NamesFrom, whole, L
<1>8. ASSUME NEW j \in 1 .. Len(form) - 1, form[j].title # NoGroup
      PROVE  form[j].title # form[j + 1].title
  <2>1. CASE j = 1
    <3>1. 1 \in 1 .. Len(rest) /\ Len(rest) # 0
      BY <1>6, <2>1
    <3>2. form[1 + 1] = rest[1]
      BY <1>6, <3>1
    <3>3. rest # <<>>
      BY <3>1
    <3>4. CASE n <= L
      BY <1>3, <1>4, <1>5, <1>6, <1>8, <2>1, <3>2, <3>4
    <3>5. CASE ~(n <= L)
      <4>1. n > L
        BY <1>1, <1>3, <1>4, <3>5
      <4>2. QED
        BY <1>5, <3>3, <4>1
    <3>6. QED
      BY <3>4, <3>5
  <2>2. CASE j # 1
    <3>1. j - 1 \in 1 .. Len(rest) - 1 /\ j - 1 \in 1 .. Len(rest) /\ (j - 1) + 1 = j /\ j \in 1 .. Len(rest)
      BY <1>6, <2>2
    <3>2. form[j] = rest[j - 1] /\ form[j + 1] = rest[j]
      BY <1>6, <3>1
    <3>3. QED
      BY <1>5, <1>8, <3>1, <3>2
  <2>3. QED
    BY <2>1, <2>2
<1>9. form # <<>> /\ form[1].title = params[k].group
  BY <1>3, <1>6
<1>10. QED
  BY <1>1, <1>2, <1>6, <1>7, <1>8, <1>9 DEF WholeFrom

\* A form has every parameter of its list once and in order, and splits no group.
LEMMA FormWhole ==
  ASSUME NEW params \in Seq(Descriptor)
  PROVE  WholeFrom(createFormDefinition(params), params, 1)
<1> DEFINE L == Len(params)
<1>1. L \in Nat
  OBVIOUS
<1>2. PICK form :
        /\ createFormDefinition(params) = form[1]
        /\ form[L + 1] = <<>>
        /\ \A k \in 1 .. L :
             form[k] = <<EntryAt(params, k)>> \o form[k + Len(EntryAt(params, k).items)]
  BY FormsByEntry
<1> DEFINE A == {n \in Nat : \A k \in L + 1 - n .. L + 1 : WholeFrom(form[k], params, k)}
<1>3. 0 \in A
  <2>1. ASSUME NEW k \in L + 1 - 0 .. L + 1
        PROVE  WholeFrom(form[k], params, k)
    <3>1. k = L + 1
      BY <1>1
    <3>2. Items(<<>>) = <<>>
      BY DEF Items, FlattenSeq
    <3>3. NamesFrom(params, k) = <<>>
      BY <1>1, <3>1 DEF NamesFrom
    <3>4. form[k] = <<>> /\ k > L /\ ~(k <= L)
      BY <1>1, <1>2, <3>1
    <3>5. QED
      BY <3>2, <3>3, <3>4 DEF WholeFrom
  <2>2. QED
    BY <2>1
<1>4. ASSUME NEW n \in 0 .. L - 1, n \in A
      PROVE  n + 1 \in A
  <2>1. ASSUME NEW k \in L + 1 - (n + 1) .. L + 1
        PROVE  WholeFrom(form[k], params, k)
    <3>1. CASE k \in L + 1 - n .. L + 1
      BY <1>4, <3>1
    <3>2. CASE k \notin L + 1 - n .. L + 1
      <4> DEFINE m == k + Len(EntryAt(params, k).items)
      <4>1. k = L - n /\ k \in 1 .. L
        BY <1>1, <3>2
      <4>2. Len(EntryAt(params, k).items) \in 1 .. L - k + 1
        BY <4>1, EntryWhole
      <4>3. m \in L + 1 - n .. L + 1
        BY <1>1, <4>1, <4>2
      <4>4. WholeFrom(form[m], params, m)
        BY <1>4, <4>3
      <4>5. form[k] = <<EntryAt(params, k)>> \o form[m]
        BY <1>2, <4>1
      <4> HIDE DEF A
      <4>6. PICK rest : rest = form[m]
        OBVIOUS
      <4>7. PICK i : i = m
        OBVIOUS
      <4>8. WholeFrom(<<EntryAt(params, k)>> \o rest, params, k)
        <5>1. WholeFrom(rest, params, i) /\ i = k + Len(EntryAt(params, k).items) /\ k \in 1 .. Len(params)
          BY <4>1, <4>4, <4>6, <4>7
        <5>2. QED
          BY ONLY params \in Seq(Descriptor), <5>1, WholeStep
      <4>9. QED
        BY <4>5, <4>6, <4>8
    <3>3. QED
      BY <3>1, <3>2
  <2>2. n + 1 \in Nat
    BY <1>1
  <2>3. QED
    BY <2>1, <2>2
<1> HIDE DEF A
<1>5. L \in A
  <2>1. L \in 0 .. L /\ \A k \in 0 .. L - 1 : k \in A => k + 1 \in A
    BY <1>1, <1>4
  <2>2. \A k \in 0 .. L : k \in A
    BY ONLY <1>1, <1>3, <2>1, Onward
  <2>3. QED
    BY <2>1, <2>2
<1>6. 1 \in L + 1 - L .. L + 1
  BY <1>1
<1>7. WholeFrom(form[1], params, 1)
  BY <1>5, <1>6 DEF A
<1>8. QED
  BY <1>2, <1>7

\* The invariant says enough of the plans for their forms.
LEMMA FormsOfPlans == IInv => FormsAreWhole
<1> SUFFICES ASSUME IInv, NEW p \in PlanNames,
                    NEW params \in {plans[p].params, plans[p].bind, Updatable(plans[p].params)}
             PROVE  LET form == createFormDefinition(params)
                    IN  /\ Items(form) = NamesIn(params)
                        /\ \A k \in 1 .. Len(form) - 1 :
                             form[k].title # NoGroup => form[k].title # form[k + 1].title
  BY DEF FormsAreWhole
<1>1. params \in Seq(Descriptor)
  <2>1. plans[p].params \in Seq(Descriptors) /\ plans[p].bind \in Seq(Descriptors)
    BY DEF IInv, TypeOK
  <2>2. Updatable(plans[p].params) \in Seq(Descriptors)
    BY <2>1, UpdatableOnes
  <2>3. params \in Seq(Descriptors)
    BY <2>1, <2>2
  <2>4. \A k \in 1 .. Len(params) : params[k] \in Descriptor
    BY <2>3
  <2>5. QED
    BY <2>3, <2>4
<1>2. NamesFrom(params, 1) = NamesIn(params)
  <2>1. Len(params) \in Nat /\ Len(params) - 1 + 1 = Len(params)
    BY <1>1
  <2>2. \A m \in 1 .. Len(params) : 1 + m - 1 = m
    OBVIOUS
  <2>3. QED
    BY <2>1, <2>2 DEF NamesFrom, NamesIn
<1>3. WholeFrom(createFormDefinition(params), params, 1)
  BY <1>1, FormWhole
<1>4. QED
  BY <1>2, <1>3 DEF WholeFrom

\* The forms of a plan, of its bindings and of its updates have every parameter once and in
\* order and split no group, for any number of parameters in any groups.
THEOREM FormsComplete == Spec => []FormsAreWhole
<1>1. QED
  BY FormsOfPlans, Invariant, PTL
=============================================================================

------------------------------ MODULE Updates ------------------------------
(***************************************************************************)
(* A service instance through its updates (Update in pkg/broker/broker.go, *)
(* what it does to the parameters and the plan), under plans a bundle may  *)
(* describe.  A bundle's author adds parameters in any order; then an      *)
(* instance is provisioned and updated.                                    *)
(*                                                                         *)
(* Whether an update may start, and its job, is modelled in Broker.        *)
(***************************************************************************)
EXTENDS Plans

CONSTANTS
  PlanNames,
  UpdatesTo,      \* UpdatesTo[p]: the plans p may be updated to
  Descriptors,    \* the parameters a bundle may describe
  InUse,          \* bound: those of plans there is an instance of
  MaxParameters,  \* bound: parameters of a plan
  MaxTogether     \* bound: parameters of all plans and bindings together

VARIABLES
  plans,  \* each plan's parameters and those of its bindings
  plan,   \* the plan of the instance
  held    \* the parameters of the instance

vars == <<plans, plan, held>>

NoInstance == "none"
NoParameters == [n \in {} |-> {}]
HeldValues == {"text", "number"} \X Texts
Partial(S, T) == UNION {[N -> T] : N \in SUBSET S}

ASSUME UpdatesAssumption ==
  /\ UpdatesTo \in [PlanNames -> SUBSET PlanNames]
  /\ Descriptors \subseteq Descriptor
  /\ InUse \subseteq Descriptors
  /\ MaxParameters \in Nat /\ MaxTogether \in Nat

TypeOK ==
  /\ plans \in [PlanNames -> [params : Seq(Descriptors), bind : Seq(Descriptors)]]
  /\ plan \in PlanNames \union {NoInstance}
  /\ held \in Partial(Names, HeldValues)

Init ==
  /\ plans = [p \in PlanNames |-> [params |-> <<>>, bind |-> <<>>]]
  /\ plan = NoInstance
  /\ held = NoParameters

Count == MapThenSumSet(LAMBDA p : Len(plans[p].params) + Len(plans[p].bind), PlanNames)

\* The author of the bundle.  No two parameters of a plan have one name.
Describe(p, list, d) ==
  /\ plan = NoInstance
  /\ \/ Count < MaxTogether
     \/ list = "params" /\ Count < MaxParameters /\ Count = Len(plans[p].params)
  /\ d.name \notin NamesOf(plans[p][list])
  /\ plans' = [plans EXCEPT ![p][list] = Append(@, d)]
  /\ UNCHANGED <<plan, held>>

\* The broker checks no parameter when it provisions.
Provision(p, values) ==
  /\ plan = NoInstance
  /\ \A q \in PlanNames : TypesKnown(plans[q].params)
  /\ \A q \in PlanNames : ToSet(plans[q].params) \subseteq InUse /\ plans[q].bind = <<>>
  /\ DOMAIN values \subseteq NamesOf(plans[p].params)
  /\ plan' = p
  /\ held' = values
  /\ UNCHANGED plans

isValidPlanTransition(to) == to \in UpdatesTo[plan]

\* A plausible slip: the plan the instance has needs to be one to update to.
AcceptsTransitions(to, request) ==
  /\ isValidPlanTransition(to)
  /\ Validated(plans[to].params, request, held)

Accepts(to, request) ==
  /\ to = plan \/ isValidPlanTransition(to)
  /\ Validated(plans[to].params, request, held)

Stored(request) ==
  [n \in DOMAIN held \union DOMAIN request |->
     IF n \in DOMAIN Changed(request, held) THEN <<"text", request[n]>> ELSE held[n]]

\* A plausible slip: the request, as it came, takes the place of what is held.
UpdateReplaces(to, request) ==
  /\ plan # NoInstance
  /\ Accepts(to, request)
  /\ plan' = to
  /\ held' = request
  /\ UNCHANGED plans

\* A request without a plan is one for the plan the instance has.
Update(to, request) ==
  /\ plan # NoInstance
  /\ Accepts(to, request)
  /\ plan' = to
  /\ held' = Stored(request)
  /\ UNCHANGED plans

Requests == Partial(Names, Texts)

Next ==
  \/ \E p \in PlanNames, list \in {"params", "bind"}, d \in Descriptors : Describe(p, list, d)
  \/ \E p \in PlanNames : \E values \in Partial(NamesOf(plans[p].params), HeldValues) :
       Provision(p, values)
  \/ \E to \in PlanNames, request \in Requests : Update(to, request)

Spec == Init /\ [][Next]_vars

-----------------------------------------------------------------------------
(* Properties.                                                             *)

NamesIn(params) == [k \in 1 .. Len(params) |-> params[k].name]
Items(form) == FlattenSeq([k \in 1 .. Len(form) |-> form[k].items])

\* A form has every parameter once and in the order of the bundle, however they
\* are grouped, and no group is split where it need not be.
FormsAreWhole ==
  \A p \in PlanNames :
    \A params \in {plans[p].params, plans[p].bind, Updatable(plans[p].params)} :
      LET form == createFormDefinition(params)
      IN  /\ Items(form) = NamesIn(params)
          /\ \A k \in 1 .. Len(form) - 1 :
               form[k].title # NoGroup => form[k].title # form[k + 1].title

\* The names a user of the form comes to, filling in what is asked of him.
Reached(schema) ==
  {n \in Names : \A S \in SUBSET Names :
     (/\ DOMAIN schema.properties \subseteq S
      /\ \A k \in S \intersect DOMAIN schema.dependencies :
           {c.name : c \in schema.dependencies[k]} \subseteq S) => n \in S}

\* No parameter depends, over however many others, on itself.
Acyclic(params) ==
  \A C \in (SUBSET NamesOf(params)) \ {{}} :
    \E p \in ToSet(params) : p.name \in C /\ p.key \notin C

\* The definitions of n in a schema.
PlacesOf(schema, n) ==
  {place \in UNION {{k} \X schema.dependencies[k] : k \in DOMAIN schema.dependencies} :
     place[2].name = n /\ place[2].defined}

\* Unless parameters depend on each other in a circle, none is lost between the
\* properties and the dependencies of a schema and none is defined in both:
\* neither of those of the instance, nor of those that can be updated, nor of
\* those of a binding, whose schema has the dependencies of the instance's.
OfferedOnce ==
  \A p \in PlanNames :
    LET schemas == parametersToSchema(plans[p])
        offered == [create |-> NamesOf(plans[p].params),
                    bind   |-> NamesOf(plans[p].bind),
                    update |-> NamesOf(Updatable(plans[p].params))]
    IN  Acyclic(plans[p].params) =>
          \A s \in {"create", "bind", "update"} :
            /\ offered[s] \subseteq Reached(schemas[s])
            /\ \A n \in offered[s] :
                 IF n \in DOMAIN schemas[s].properties
                   THEN PlacesOf(schemas[s], n) = {}
                   ELSE \E place \in PlacesOf(schemas[s], n) : PlacesOf(schemas[s], n) = {place}

\* The values schema s allows n, wherever it defines it.
AllowedBy(s, n) ==
  LET definitions == (IF n \in DOMAIN s.properties THEN {s.properties[n]} ELSE {})
                       \union {place[2].allows : place \in PlacesOf(s, n)}
  IN  UNION {IF d = {} THEN Texts ELSE d : d \in definitions}

\* The two descriptions of what may be updated agree: the broker takes every
\* change the schema for updates offers, if an enum lists its values, and none
\* of a parameter the schema has no definition of.
OffersWhatItTakes ==
  \A p \in PlanNames : \A n \in Names :
    LET offered == AllowedBy(updateSchema(plans[p]), n)
        listed  == \A d \in ToSet(plans[p].params) : d.type = "enum" => d.enum # {}
    IN  /\ listed => \A t \in offered : MayBecome(plans[p].params, n, t)
        /\ offered = {} => \A t \in Texts : ~MayBecome(plans[p].params, n, t)

\* What the instance holds, sent back as text: accepted for its own plan and any
\* that plan may be updated to, whatever these plans know of it, unless it was
\* given a number.
EchoAccepted ==
  plan # NoInstance =>
    \A N \in SUBSET {n \in DOMAIN held : held[n][1] = "text"} :
      \A to \in {plan} \union UpdatesTo[plan] :
        Accepts(to, [n \in N |-> held[n][2]])

\* An update that is sent once more is accepted and changes nothing.
RetryChangesNothing ==
  [][\A to \in PlanNames, request \in Requests :
       Update(to, request) => Accepts(to, request)' /\ Stored(request)' = held']_vars

-----------------------------------------------------------------------------
(* The inductive invariant.                                                *)

Distinct(params) == \A d, e \in ToSet(params) : d.name = e.name => d = e

\* The parameters of a plan have names of their own.
NamesDistinct == \A p \in PlanNames : Distinct(plans[p].params) /\ Distinct(plans[p].bind)

IInv == TypeOK /\ NamesDistinct
=============================================================================

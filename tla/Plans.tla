------------------------------- MODULE Plans -------------------------------
(***************************************************************************)
(* What the broker makes of the parameters of a plan: the forms and the    *)
(* schemas the catalogue is given (pkg/broker/util.go), and what it takes  *)
(* in a request to update (validateRequestedUpdateParams in broker.go).    *)
(*                                                                         *)
(* Of a definition in a schema the values it allows are kept.  Titles,     *)
(* defaults and the validators of strings and numbers are left out.        *)
(***************************************************************************)
EXTENDS Naturals, SequencesExt

CONSTANTS
  Names,       \* names of parameters
  Texts,       \* values, as text
  Groups,      \* display groups
  NoGroup,     \* no display group
  Nowhere      \* the key of a parameter that depends on none

\* The types getType knows, "Enum" standing for a type in other letters.
Lower == [t \in {"string", "enum", "Enum", "integer", "unheard"} |-> IF t = "Enum" THEN "enum" ELSE t]
Known == {"string", "enum", "integer"}

\* A parameter as the bundle describes it.  Only the first dependency counts.
\* It names a key and the values of it; wellformed: these are strings.
Descriptor == [name : Names, type : DOMAIN Lower, enum : SUBSET Texts,
               required : BOOLEAN, updatable : BOOLEAN, group : Groups \union {NoGroup},
               key : Names \union {Nowhere}, values : SUBSET Texts, wellformed : BOOLEAN]

ASSUME PlansAssumption == NoGroup \notin Groups /\ Nowhere \notin Names

NamesOf(params) == {p.name : p \in ToSet(params)}
Named(params, n) == CHOOSE p \in ToSet(params) : p.name = n

-----------------------------------------------------------------------------
(* Forms: a sequence of entries, each a single item or a group of items.   *)

createUIFormItem(p) == [title |-> NoGroup, items |-> <<p.name>>]

\* How many parameters from the k-th on are in the group.
InGroup(params, g, k) ==
  CHOOSE n \in 0 .. Len(params) - k + 1 :
    /\ \A m \in k .. k + n - 1 : params[m].group = g
    /\ k + n <= Len(params) => params[k + n].group # g

createUIFormGroup(params, g, k) ==
  [title |-> g, items |-> [m \in 1 .. InGroup(params, g, k) |-> params[k + m - 1].name]]

\* A plausible slip: a group counts as one item.
OneByOne(params) ==
  [k \in 1 .. Len(params) |->
     IF params[k].group = NoGroup THEN createUIFormItem(params[k])
                                  ELSE createUIFormGroup(params, params[k].group, k)]

createFormDefinition(params) ==
  LET form[k \in 1 .. Len(params) + 1] ==
        IF k > Len(params) THEN <<>>
        ELSE LET entry == IF params[k].group = NoGroup
                            THEN createUIFormItem(params[k])
                            ELSE createUIFormGroup(params, params[k].group, k)
             IN  <<entry>> \o form[k + Len(entry.items)]
  IN  form[1]

Updatable(params) ==
  LET among[k \in 0 .. Len(params)] ==
        IF k = 0 THEN <<>>
        ELSE IF params[k].updatable THEN Append(among[k - 1], params[k]) ELSE among[k - 1]
  IN  among[Len(params)]

createUpdateFormDefinition(params) == createFormDefinition(Updatable(params))

-----------------------------------------------------------------------------
(* Schemas: [fails] when there is none, properties (a function from names  *)
(* to definitions), required names, and dependencies (a function from keys *)
(* to sets of conditional definitions).                                    *)

\* A type nobody knows fails the plan, and with it the service.
TypesKnown(params) == \A p \in ToSet(params) : Lower[p.type] \in Known

extractProperties(params) == [n \in NamesOf(params) |-> Named(params, n).enum]
extractRequired(params) == {p.name : p \in {q \in ToSet(params) : q.required}}

\* A plausible slip: all are taken.
ExtractsAll(params) == extractProperties(params)

extractUpdatable(params) ==
  [n \in {p.name : p \in {q \in ToSet(params) : q.updatable}} |-> Named(params, n).enum]

extractUpdatableRequired(required, updatable) == required \intersect DOMAIN updatable

Without(props, names) == [n \in DOMAIN props \ names |-> props[n]]

\* Those of the parameters whose definition moves to the dependencies.  Where
\* the key has values, those of the dependency must be strings.
Moved(params, props) ==
  {p \in ToSet(params) :
     p.key \in DOMAIN props /\ (props[p.key] = {} \/ p.wellformed)}

\* The definition that goes under the key: "defined" is FALSE where the
\* properties have none and the schema holds null.  No value stands for any.
Conditional(p, props) ==
  [name    |-> p.name,
   defined |-> p.name \in DOMAIN props,
   allows  |-> IF p.name \in DOMAIN props THEN props[p.name] ELSE {},
   when    |-> p.values \intersect props[p.key]]

extractDependencies(params, props) ==
  [k \in {p.key : p \in Moved(params, props)} |->
     {Conditional(p, props) : p \in {q \in Moved(params, props) : q.key = k}}]

\* A plausible slip: a parameter is taken out though its dependency is in error.
LeftAnyhow(params, props) ==
  Without(props, {p.name : p \in {q \in ToSet(params) : q.key \in DOMAIN props}})

LeftOf(params, props) ==
  Without(props, {p.name : p \in Moved(params, props)})

\* The dependencies are those of the instance's parameters, in each schema.
SchemaOf(params, props, required) ==
  [properties   |-> LeftOf(params, props),
   required     |-> required,
   dependencies |-> extractDependencies(params, props)]

createSchema(plan) ==
  SchemaOf(plan.params, extractProperties(plan.params), extractRequired(plan.params))

bindSchema(plan) ==
  SchemaOf(plan.params, extractProperties(plan.bind), extractRequired(plan.bind))

updateSchema(plan) ==
  LET upd == extractUpdatable(plan.params)
  IN  SchemaOf(plan.params, upd, extractUpdatableRequired(extractRequired(plan.params), upd))

parametersToSchema(plan) ==
  [create |-> createSchema(plan), bind |-> bindSchema(plan), update |-> updateSchema(plan)]

-----------------------------------------------------------------------------
(* Requests to update: functions from some names to texts.  An instance    *)
(* holds <<"text", t>>, or <<"number", t>> where it was given a number,    *)
(* which is equal to no text.                                              *)

\* The catalogue passes every parameter, changed or not.
\* A plausible slip: each counts as changed.
AllOf(request, held) == request

Changed(request, held) ==
  [n \in {m \in DOMAIN request : m \notin DOMAIN held \/ held[m] # <<"text", request[m]>>} |->
     request[n]]

MayBecome(params, n, t) ==
  /\ n \in NamesOf(params)
  /\ Named(params, n).updatable
  /\ Named(params, n).type = "enum" => t \in Named(params, n).enum

Validated(params, request, held) ==
  LET changed == Changed(request, held)
  IN  \A n \in DOMAIN changed : MayBecome(params, n, changed[n])
=============================================================================

----------------------------- MODULE MCUpdates -----------------------------
(* Instances of Updates for TLC. *)
EXTENDS Updates, TLC

CONSTANTS x, y, z, v, w, g1, g2

Plain(n) == [name |-> n, type |-> "string", enum |-> {}, required |-> FALSE, updatable |-> TRUE,
             group |-> NoGroup, key |-> Nowhere, values |-> {}, wellformed |-> TRUE]

Fixed(n) == [Plain(n) EXCEPT !.updatable = FALSE]
Enum(n) == [Plain(n) EXCEPT !.type = "enum", !.enum = {v, w}]

Grouped == {[Plain(n) EXCEPT !.group = g, !.updatable = (g # g2)] : n \in Names, g \in {g1, g2}}

Typed == {[Plain(n) EXCEPT !.type = t[1], !.enum = t[2]] :
            n \in Names, t \in {<<"Enum", {v}>>, <<"enum", {v}>>, <<"enum", {}>>, <<"unheard", {}>>}}

\* On a key that may be of the plan or not, and may have values or not.
Dependent == {[d EXCEPT !.key = k, !.values = {v}, !.required = TRUE, !.wellformed = f] :
                d \in UNION {{Plain(n), Fixed(n), Enum(n)} : n \in Names}, k \in Names, f \in BOOLEAN}

SomeInUse == UNION {{Plain(n), Fixed(n), Enum(n)} : n \in Names} \union {d \in Typed : d.enum = {v}}

Some == SomeInUse \union Grouped \union Typed \union Dependent

Alike == Permutations(Names)

OneWay == ("small" :> {"large"} @@ "large" :> {})
=============================================================================

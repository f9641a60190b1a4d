------------------------------ MODULE MCBroker ------------------------------
(* Instances of Broker for TLC. *)
EXTENDS Broker, TLC

\* Tokens, and parameters, are alike to every action and to every invariant.
Alike == Permutations(Tokens) \union Permutations(Params)
=============================================================================

---------------------------- MODULE MCBootstrap ----------------------------
(* Small instances of Bootstrap for TLC. *)
EXTENDS Bootstrap, TLC

CONSTANTS s1, s2, pushed, strict, lenient

\* Two registries with a spec each, and a spec that is pushed.
Origin == s1 :> strict @@ s2 :> lenient @@ pushed :> Pushed
=============================================================================

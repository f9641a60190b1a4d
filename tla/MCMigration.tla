---------------------------- MODULE MCMigration ----------------------------
(* Instances of Migration for TLC. *)
EXTENDS Migration, TLC

CONSTANTS i1, i2, b1, b2, s1

OneSpec == [i \in Instances |-> s1]
OfFirst == [b \in Bindings |-> i1]

\* A provisioning, an unbind whose cleanup failed and was recorded under the
\* instance, and a bind.
SomeJobs == {<<"job", i1, "provision">>, <<"job", i1, "unbind">>, <<"job", b1, "bind">>}
=============================================================================

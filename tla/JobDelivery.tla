---------------------------- MODULE JobDelivery ----------------------------
(***************************************************************************)
(* What the work engine promises to the subscribers of a job: the messages *)
(* a job publishes (numbered 1, 2, ... in the order of its sends) are      *)
(* handled by each subscriber of its audience in that order, each exactly  *)
(* once, for as long as the process is up.  Nothing here says how: there   *)
(* is no channel, no goroutine and no timer.                               *)
(***************************************************************************)
EXTENDS Naturals, Sequences

CONSTANTS
  Jobs,          \* the jobs that may be started
  Subscribers,   \* the subscribers the promise is made to
  MaxMsgs        \* bound: the messages one job may publish

VARIABLES
  audience,      \* audience[j]: the subscribers job j reports to
  sent,          \* sent[j]: how many messages job j has published
  handled,       \* handled[j][s]: the messages of j that s handled, in order
  up             \* FALSE once the process has died

vars == <<audience, sent, handled, up>>

Init ==
  /\ audience = [j \in Jobs |-> {}]
  /\ sent = [j \in Jobs |-> 0]
  /\ handled = [j \in Jobs |-> [s \in Subscribers |-> <<>>]]
  /\ up = TRUE

\* A job is started: from here on its audience is fixed.
Open(j) ==
  /\ sent[j] = 0
  /\ audience[j] = {}
  /\ \E A \in SUBSET Subscribers : audience' = [audience EXCEPT ![j] = A]
  /\ UNCHANGED <<sent, handled, up>>

Publish(j) ==
  /\ sent[j] < MaxMsgs
  /\ sent' = [sent EXCEPT ![j] = @ + 1]
  /\ UNCHANGED <<audience, handled, up>>

\* Subscriber s handles the next message of job j it has not handled yet.
Handle(j, s) ==
  /\ s \in audience[j]
  /\ Len(handled[j][s]) < sent[j]
  /\ handled' = [handled EXCEPT ![j][s] = Append(@, Len(@) + 1)]
  /\ UNCHANGED <<audience, sent, up>>

Die ==
  /\ up' = FALSE
  /\ UNCHANGED <<audience, sent, handled>>

Next ==
  /\ up
  /\ \/ \E j \in Jobs : Open(j) \/ Publish(j)
     \/ \E j \in Jobs, s \in Subscribers : Handle(j, s)
     \/ Die

Spec ==
  /\ Init
  /\ [][Next]_vars
  /\ \A j \in Jobs, s \in Subscribers : WF_vars(up /\ Handle(j, s))
=============================================================================

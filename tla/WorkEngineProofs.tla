-------------------------- MODULE WorkEngineProofs --------------------------
(***************************************************************************)
(* Theorems about the work engine, for every set of jobs, subscribers and  *)
(* topics, every buffer size and every number of messages.                 *)
(***************************************************************************)
EXTENDS WorkEngine, SequenceTheorems, TLAPS

USE EngineAssumption DEF MsgNo

\* The initial state satisfies the inductive invariant.
LEMMA InitIInv == Init => IInv
<1> SUFFICES ASSUME Init PROVE IInv
  OBVIOUS
<1> USE DEF Init
<1>1. TypeOK
  BY DEF TypeOK, RunnerPC, ListenerPC, SupervisorPC, WaiterPC, Crashes,
         HandOffs, Every
<1>2. QueueInv
  <2> SUFFICES ASSUME NEW j \in Jobs
               PROVE  JobQueueInv(j)
    BY DEF QueueInv
  <2> QED
    BY DEF JobQueueInv, Unopened
<1>3. HandOffInv
  BY DEF HandOffInv, OneHandOffInv, Every, Audience
<1>4. OrderInv
  BY DEF OrderInv, HandledCount, InOrderUpTo, Audience, Prompt
<1>5. QED
  BY <1>1, <1>2, <1>3, <1>4 DEF IInv

\* What a sequence of consecutive message numbers becomes when the oldest is
\* taken: the channel's content after a receive.
LEMMA TailOfRun ==
  ASSUME NEW S, NEW q \in Seq(S), q # <<>>, NEW b \in Nat,
         \A i \in 1 .. Len(q) : q[i] = b + i
  PROVE  /\ Tail(q) \in Seq(S)
         /\ Len(Tail(q)) = Len(q) - 1
         /\ Head(q) = b + 1
         /\ \A i \in 1 .. Len(Tail(q)) : Tail(q)[i] = (b + 1) + i
<1>1. Len(q) \in Nat /\ Len(q) > 0
  BY EmptySeq, LenProperties
<1>2. /\ Tail(q) \in Seq(S)
      /\ Len(Tail(q)) = Len(q) - 1
      /\ \A i \in 1 .. Len(Tail(q)) : Tail(q)[i] = q[i+1]
  BY HeadTailProperties
<1>3. Head(q) = q[1]
  BY HeadTailProperties
<1>4. QED
  BY <1>1, <1>2, <1>3

\* A message number is a number of messages.
LEMMA MsgNoIsCount == MsgNo \subseteq 0 .. MaxMsgs
OBVIOUS

\* What a subscriber has handled is a sequence of message numbers.
LEMMA HandledType ==
  ASSUME TypeOK, NEW j \in Jobs, NEW s \in Subscribers
  PROVE  handled[j][s] \in Seq(MsgNo)
BY DEF TypeOK

\* An update of one hand-off, its type and what it reads back.
LEMMA OneMoved ==
  ASSUME NEW S, NEW g \in HandOffs(S), NEW v \in S,
         NEW j \in Jobs, NEW k \in MsgNo, NEW s \in Subscribers
  PROVE  [g EXCEPT ![j][k][s] = v] \in HandOffs(S)
BY DEF HandOffs

\* The same for a message handed off to the audience of its job.
LEMMA BatchMoved ==
  ASSUME NEW S, NEW g \in HandOffs(S), NEW v \in S,
         NEW j \in Jobs, NEW k \in MsgNo
  PROVE  HandedOff(g, j, k, v) \in HandOffs(S)
BY DEF HandOffs, HandedOff

\* What one hand-off is after a message has been handed off.
LEMMA BatchRead ==
  ASSUME NEW S, NEW g \in HandOffs(S), NEW v, NEW j \in Jobs, NEW k \in MsgNo,
         NEW i \in Jobs, NEW l \in MsgNo, NEW r \in Subscribers
  PROVE  HandedOff(g, j, k, v)[i][l][r] =
           IF i = j /\ l = k /\ r \in Audience(j) THEN v ELSE g[i][l][r]
BY DEF HandOffs, HandedOff

\* One more consecutive message number at the end of a channel.
LEMMA AppendToRun ==
  ASSUME NEW S, NEW q \in Seq(S), NEW b \in Nat, b + Len(q) + 1 \in S,
         \A i \in 1 .. Len(q) : q[i] = b + i
  PROVE  /\ Append(q, b + Len(q) + 1) \in Seq(S)
         /\ Len(Append(q, b + Len(q) + 1)) = Len(q) + 1
         /\ \A i \in 1 .. Len(Append(q, b + Len(q) + 1)) :
              Append(q, b + Len(q) + 1)[i] = b + i
<1>1. Len(q) \in Nat
  BY LenProperties
<1> QED
  BY <1>1, AppendProperties

\* What a send does to a channel that satisfies the invariant.
LEMMA SendEffect ==
  ASSUME IInv, NEW j \in Jobs, runner[j] = "running", Send(j)
  PROVE  /\ channel' \in [Jobs -> Seq(MsgNo)]
         /\ sent' \in [Jobs -> 0 .. MaxMsgs]
         /\ sent'[j] = sent[j] + 1
         /\ Len(channel'[j]) = Len(channel[j]) + 1
         /\ Len(channel'[j]) <= BufferSize
         /\ \A i \in 1 .. Len(channel'[j]) : channel'[j][i] = msg[j] + i
         /\ \A i \in Jobs \ {j} : channel'[i] = channel[i] /\ sent'[i] = sent[i]
<1> USE DEF IInv, TypeOK, QueueInv, JobQueueInv, Send, HasRoom
<1>1. /\ channel[j] \in Seq(MsgNo)
      /\ sent[j] \in Nat /\ msg[j] \in Nat
      /\ Len(channel[j]) \in Nat
      /\ Len(channel[j]) < BufferSize
      /\ sent[j] < MaxMsgs
      /\ msg[j] + Len(channel[j]) + 1 = sent[j] + 1
  BY LenProperties
<1>2. sent[j] + 1 \in MsgNo
  BY <1>1
<1>3. /\ Append(channel[j], sent[j] + 1) \in Seq(MsgNo)
      /\ Len(Append(channel[j], sent[j] + 1)) = Len(channel[j]) + 1
      /\ \A i \in 1 .. Len(Append(channel[j], sent[j] + 1)) :
           Append(channel[j], sent[j] + 1)[i] = msg[j] + i
  BY <1>1, <1>2, AppendToRun, SMT
<1>4. /\ channel' = [channel EXCEPT ![j] = Append(channel[j], sent[j] + 1)]
      /\ sent' = [sent EXCEPT ![j] = sent[j] + 1]
      /\ channel \in [Jobs -> Seq(MsgNo)] /\ sent \in [Jobs -> 0 .. MaxMsgs]
  OBVIOUS
<1>5. /\ channel' \in [Jobs -> Seq(MsgNo)]
      /\ channel'[j] = Append(channel[j], sent[j] + 1)
      /\ \A i \in Jobs \ {j} : channel'[i] = channel[i]
  BY <1>3, <1>4
<1>6. /\ sent' \in [Jobs -> 0 .. MaxMsgs]
      /\ sent'[j] = sent[j] + 1
      /\ \A i \in Jobs \ {j} : sent'[i] = sent[i]
  BY <1>2, <1>4
<1>7. \A i \in 1 .. Len(channel'[j]) : channel'[j][i] = msg[j] + i
  BY <1>3, <1>5
<1> QED
  BY <1>1, <1>3, <1>5, <1>6, <1>7

\* What a receive does to them.
LEMMA ReceiveEffect ==
  ASSUME IInv, NEW j \in Jobs, Receive(j)
  PROVE  /\ channel' \in [Jobs -> Seq(MsgNo)]
         /\ Head(channel[j]) = msg[j] + 1
         /\ Head(channel[j]) \in MsgNo
         /\ msg[j] < sent[j]
         /\ Len(channel'[j]) = Len(channel[j]) - 1
         /\ Len(channel'[j]) <= BufferSize
         /\ \A i \in 1 .. Len(channel'[j]) : channel'[j][i] = msg[j] + 1 + i
         /\ \A i \in Jobs \ {j} : channel'[i] = channel[i]
<1> USE DEF IInv, TypeOK, QueueInv, JobQueueInv, Receive
<1>1. /\ channel[j] \in Seq(MsgNo)
      /\ channel[j] # <<>>
      /\ sent[j] \in 0 .. MaxMsgs /\ msg[j] \in Nat
      /\ Len(channel[j]) = sent[j] - msg[j]
      /\ Len(channel[j]) <= BufferSize
      /\ \A i \in 1 .. Len(channel[j]) : channel[j][i] = msg[j] + i
  OBVIOUS
<1> DEFINE q == channel[j]
           b == msg[j]
<1>a. q \in Seq(MsgNo) /\ q # <<>> /\ b \in Nat
  BY <1>1
<1>b. \A i \in 1 .. Len(q) : q[i] = b + i
  BY <1>1
<1> HIDE DEF q, b
<1>c. /\ Tail(q) \in Seq(MsgNo)
      /\ Len(Tail(q)) = Len(q) - 1
      /\ Head(q) = b + 1
      /\ \A i \in 1 .. Len(Tail(q)) : Tail(q)[i] = (b + 1) + i
  BY <1>a, <1>b, TailOfRun
<1>2. /\ Tail(channel[j]) \in Seq(MsgNo)
      /\ Len(Tail(channel[j])) = Len(channel[j]) - 1
      /\ Head(channel[j]) = msg[j] + 1
      /\ \A i \in 1 .. Len(Tail(channel[j])) :
           Tail(channel[j])[i] = (msg[j] + 1) + i
  BY <1>c DEF q, b
<1>3. Len(channel[j]) \in Nat /\ Len(channel[j]) > 0
  BY <1>1, EmptySeq, LenProperties
<1>4. /\ channel' = [channel EXCEPT ![j] = Tail(channel[j])]
      /\ channel \in [Jobs -> Seq(MsgNo)]
  OBVIOUS
<1>5. channel' \in [Jobs -> Seq(MsgNo)] /\ channel'[j] = Tail(channel[j])
  BY <1>2, <1>4
<1> QED
  BY <1>1, <1>2, <1>3, <1>4, <1>5

\* Every step keeps the types.
LEMMA TypeStep == IInv /\ Step => TypeOK'
<1> SUFFICES ASSUME IInv, Step PROVE TypeOK'
  OBVIOUS
<1> USE
       DEF IInv, TypeOK, QueueInv, JobQueueInv, RunnerPC, ListenerPC,
       SupervisorPC, WaiterPC,
           Crashes, startVars, listenVars, noteVars
<1>1. ASSUME NEW s \in Subscribers, NEW t \in Topics, AttachSubscriber(s, t)
      PROVE  TypeOK'
  BY <1>1 DEF AttachSubscriber
<1>2. ASSUME NEW j \in Jobs, NEW t \in Topics, StartJob(j, t)
      PROVE  TypeOK'
  BY <1>2 DEF StartJob, RunnerMoves
<1>3. ASSUME NEW j \in Jobs, RejectJob(j)
      PROVE  TypeOK'
  BY <1>3 DEF RejectJob, RunnerMoves
<1>4. ASSUME NEW j \in Jobs, BeginOpen(j)
      PROVE  TypeOK'
  BY <1>4 DEF BeginOpen, RunnerMoves, MapWrite
<1>5. ASSUME NEW j \in Jobs, EndOpen(j)
      PROVE  TypeOK'
  BY <1>5 DEF EndOpen, RunnerMoves
<1>6. ASSUME NEW j \in Jobs, SendProgress(j)
      PROVE  TypeOK'
  <2>1. /\ channel' \in [Jobs -> Seq(MsgNo)]
        /\ sent' \in [Jobs -> 0 .. MaxMsgs]
        /\ \A i \in Jobs : Len(channel'[i]) <= BufferSize
    BY <1>6, SendEffect DEF SendProgress
  <2> QED
    BY <1>6, <2>1 DEF SendProgress, Send
<1>7. ASSUME NEW j \in Jobs, SendFinal(j)
      PROVE  TypeOK'
  <2>1. /\ channel' \in [Jobs -> Seq(MsgNo)]
        /\ sent' \in [Jobs -> 0 .. MaxMsgs]
        /\ \A i \in Jobs : Len(channel'[i]) <= BufferSize
    BY <1>7, SendEffect DEF SendFinal, RunnerMoves
  <2> QED
    BY <1>7, <2>1 DEF SendFinal, RunnerMoves, Send
<1>8. ASSUME NEW j \in Jobs, CloseChannel(j)
      PROVE  TypeOK'
  BY <1>8 DEF CloseChannel, RunnerMoves, MapWrite
<1>9. ASSUME NEW j \in Jobs, EndDelete(j)
      PROVE  TypeOK'
  BY <1>9 DEF EndDelete, RunnerMoves
<1>10. ASSUME NEW j \in Jobs, Receive(j)
      PROVE  TypeOK'
  <2>1. /\ channel' \in [Jobs -> Seq(MsgNo)]
        /\ Head(channel[j]) \in MsgNo
        /\ \A i \in Jobs : Len(channel'[i]) <= BufferSize
    BY <1>10, ReceiveEffect
  <2>2. supervisor' \in HandOffs(SupervisorPC)
    BY <1>10, <2>1, BatchMoved DEF Receive
  <2>3. waiter' \in HandOffs(WaiterPC)
    BY <1>10, <2>1, BatchMoved DEF Receive
  <2>4. msg' \in [Jobs -> 0 .. MaxMsgs] /\ listener' \in [Jobs -> ListenerPC]
    <3>1. Head(channel[j]) \in 0 .. MaxMsgs
      BY <2>1, MsgNoIsCount
    <3>2. msg' = [msg EXCEPT ![j] = Head(channel[j])]
      BY <1>10 DEF Receive
    <3>3. msg' \in [Jobs -> 0 .. MaxMsgs]
      BY <3>1, <3>2, Zenon
    <3>4. listener' \in [Jobs -> ListenerPC]
      BY <1>10 DEF Receive
    <3> QED
      BY <3>3, <3>4
  <2>5. UNCHANGED <<subscribers, topic, jobChannels, runner, sent, expired,
                    handled, crash>>
    BY <1>10 DEF Receive
  <2> QED
    BY <2>1, <2>2, <2>3, <2>4, <2>5
<1>11. ASSUME NEW j \in Jobs, AwaitBatch(j)
      PROVE  TypeOK'
  BY <1>11 DEF AwaitBatch
<1>12. ASSUME NEW j \in Jobs, ListenerExits(j)
      PROVE  TypeOK'
  BY <1>12 DEF ListenerExits
<1>13. ASSUME NEW j \in Jobs, NEW k \in MsgNo, NEW s \in Subscribers,
             Notify(j, k, s)
      PROVE  TypeOK'
  <2>1. waiter' \in HandOffs(WaiterPC)
    BY <1>13, OneMoved DEF Notify
  <2>2. handled \in [Jobs -> [Subscribers -> Seq(MsgNo)]]
    OBVIOUS
  <2>3. handled[j][s] \in Seq(MsgNo)
    BY HandledType
  <2>4. Append(handled[j][s], k) \in Seq(MsgNo)
    BY <2>3, AppendProperties
  <2>5. handled' = [handled EXCEPT ![j][s] = Append(handled[j][s], k)]
    BY <1>13 DEF Notify
  <2>6. handled' \in [Jobs -> [Subscribers -> Seq(MsgNo)]]
    BY <2>2, <2>4, <2>5
  <2> QED
    BY <1>13, <2>1, <2>6 DEF Notify
<1>14. ASSUME NEW j \in Jobs, NEW k \in MsgNo, NEW s \in Subscribers,
             WaiterSignals(j, k, s)
      PROVE  TypeOK'
  <2>1. waiter' \in HandOffs(WaiterPC)
    BY <1>14, OneMoved DEF WaiterSignals
  <2> QED
    BY <1>14, <2>1 DEF WaiterSignals
<1>15. ASSUME NEW j \in Jobs, NEW k \in MsgNo, NEW s \in Subscribers,
             WaiterGivesUp(j, k, s)
      PROVE  TypeOK'
  <2>1. waiter' \in HandOffs(WaiterPC)
    BY <1>15, OneMoved DEF WaiterGivesUp
  <2> QED
    BY <1>15, <2>1 DEF WaiterGivesUp
<1>16. ASSUME NEW j \in Jobs, NEW k \in MsgNo, NEW s \in Subscribers,
             Signal(j, k, s)
      PROVE  TypeOK'
  <2>1. waiter' \in HandOffs(WaiterPC)
    BY <1>16, OneMoved DEF Signal
  <2>2. supervisor' \in HandOffs(SupervisorPC)
    BY <1>16, OneMoved DEF Signal
  <2> QED
    BY <1>16, <2>1, <2>2 DEF Signal
<1>17. ASSUME NEW j \in Jobs, NEW k \in MsgNo, NEW s \in Subscribers,
             GiveUp(j, k, s)
      PROVE  TypeOK'
  <2>1. supervisor' \in HandOffs(SupervisorPC)
    BY <1>17, OneMoved DEF GiveUp
  <2> QED
    BY <1>17, <2>1 DEF GiveUp
<1>18. ASSUME NEW j \in Jobs, NEW k \in MsgNo, NEW s \in Subscribers,
             CloseSignal(j, k, s)
      PROVE  TypeOK'
  <2>1. supervisor' \in HandOffs(SupervisorPC)
    BY <1>18, OneMoved DEF CloseSignal
  <2> QED
    BY <1>18, <2>1 DEF CloseSignal
<1>19. ASSUME NEW j \in Jobs, NEW k \in MsgNo, NEW s \in Subscribers,
             TimeOut(j, k, s)
      PROVE  TypeOK'
  <2>1. expired' \in HandOffs(BOOLEAN)
    BY <1>19, OneMoved DEF TimeOut
  <2> QED
    BY <1>19, <2>1 DEF TimeOut
<1> QED
  BY <1>1, <1>2, <1>3, <1>4, <1>5, <1>6, <1>7, <1>8, <1>9, <1>10,
     <1>11, <1>12, <1>13, <1>14, <1>15, <1>16, <1>17, <1>18, <1>19
     DEF Step, Runner, Listener, Waiter, Supervisor

\* Every step keeps the channel and the listener in step with the runner.
LEMMA QueueStep == IInv /\ Step => QueueInv'
<1> SUFFICES ASSUME IInv, Step PROVE QueueInv'
  OBVIOUS
<1>0. TypeOK /\ QueueInv
  BY DEF IInv
<1> USE <1>0 DEF startVars, listenVars, noteVars
<1>1. ASSUME NEW s \in Subscribers, NEW t \in Topics, AttachSubscriber(s, t)
      PROVE  QueueInv'
  BY <1>1 DEF AttachSubscriber, QueueInv, JobQueueInv
<1>2. ASSUME NEW j \in Jobs, NEW t \in Topics, StartJob(j, t)
      PROVE  QueueInv'
  BY <1>2 DEF StartJob, RunnerMoves, QueueInv, JobQueueInv, Unopened, TypeOK
<1>3. ASSUME NEW j \in Jobs, RejectJob(j)
      PROVE  QueueInv'
  BY <1>3 DEF RejectJob, RunnerMoves, QueueInv, JobQueueInv, Unopened, TypeOK
<1>4. ASSUME NEW j \in Jobs, BeginOpen(j)
      PROVE  QueueInv'
  BY <1>4
       DEF BeginOpen, RunnerMoves, QueueInv, JobQueueInv, Unopened, TypeOK,
       MapWrite
<1>5. ASSUME NEW j \in Jobs, EndOpen(j)
      PROVE  QueueInv'
  BY <1>5 DEF EndOpen, RunnerMoves, QueueInv, JobQueueInv, Unopened, TypeOK
<1>6. ASSUME NEW j \in Jobs, SendProgress(j)
      PROVE  QueueInv'
  <2>1. /\ runner[j] = "running" /\ Send(j)
        /\ runner'[j] \in {"running", "ended"}
        /\ runner'[j] = "running" => sent[j] + 1 < MaxMsgs
        /\ \A i \in Jobs \ {j} : runner'[i] = runner[i]
    BY <1>6 DEF SendProgress, TypeOK
  <2>2. UNCHANGED <<listener, topic, msg>>
    BY <2>1 DEF Send
  <2>3. sent[j] \in Nat /\ msg[j] \in Nat
    BY DEF TypeOK
  <2>4. /\ sent'[j] = sent[j] + 1
        /\ Len(channel'[j]) = Len(channel[j]) + 1
        /\ \A i \in 1 .. Len(channel'[j]) : channel'[j][i] = msg[j] + i
        /\ \A i \in Jobs \ {j} : channel'[i] = channel[i] /\ sent'[i] = sent[i]
    BY <2>1, SendEffect
  <2>5. ASSUME NEW i \in Jobs, i # j
        PROVE  JobQueueInv(i)'
    BY <2>1, <2>2, <2>4, <2>5 DEF QueueInv, JobQueueInv
  <2>6. JobQueueInv(j)'
    <3>1. JobQueueInv(j)
      BY DEF QueueInv
    <3>2. /\ listener'[j] = "none" <=> runner'[j] \in Unopened
          /\ topic'[j] = NoTopic <=> runner'[j] \in {"idle", "rejected"}
          /\ runner'[j] \in Unopened => sent'[j] = 0
          /\ runner'[j] = "running" => sent'[j] < MaxMsgs
      BY <2>1, <2>2, <2>4, <3>1 DEF JobQueueInv, Unopened
    <3>3. msg'[j] <= sent'[j] /\ Len(channel'[j]) = sent'[j] - msg'[j]
      BY <2>1, <2>2, <2>3, <2>4, <3>1 DEF JobQueueInv
    <3>4. \A i \in 1 .. Len(channel'[j]) : channel'[j][i] = msg'[j] + i
      BY <2>1, <2>2, <2>3, <2>4
    <3> QED
      BY <3>2, <3>3, <3>4 DEF JobQueueInv
  <2> QED
    BY <2>5, <2>6 DEF QueueInv
<1>7. ASSUME NEW j \in Jobs, SendFinal(j)
      PROVE  QueueInv'
  <2>1. /\ runner[j] = "running" /\ Send(j)
        /\ runner'[j] \in {"running", "ended"}
        /\ runner'[j] = "running" => sent[j] + 1 < MaxMsgs
        /\ \A i \in Jobs \ {j} : runner'[i] = runner[i]
    BY <1>7 DEF SendFinal, RunnerMoves, TypeOK
  <2>2. UNCHANGED <<listener, topic, msg>>
    BY <2>1 DEF Send
  <2>3. sent[j] \in Nat /\ msg[j] \in Nat
    BY DEF TypeOK
  <2>4. /\ sent'[j] = sent[j] + 1
        /\ Len(channel'[j]) = Len(channel[j]) + 1
        /\ \A i \in 1 .. Len(channel'[j]) : channel'[j][i] = msg[j] + i
        /\ \A i \in Jobs \ {j} : channel'[i] = channel[i] /\ sent'[i] = sent[i]
    BY <2>1, SendEffect
  <2>5. ASSUME NEW i \in Jobs, i # j
        PROVE  JobQueueInv(i)'
    BY <2>1, <2>2, <2>4, <2>5 DEF QueueInv, JobQueueInv
  <2>6. JobQueueInv(j)'
    <3>1. JobQueueInv(j)
      BY DEF QueueInv
    <3>2. /\ listener'[j] = "none" <=> runner'[j] \in Unopened
          /\ topic'[j] = NoTopic <=> runner'[j] \in {"idle", "rejected"}
          /\ runner'[j] \in Unopened => sent'[j] = 0
          /\ runner'[j] = "running" => sent'[j] < MaxMsgs
      BY <2>1, <2>2, <2>4, <3>1 DEF JobQueueInv, Unopened
    <3>3. msg'[j] <= sent'[j] /\ Len(channel'[j]) = sent'[j] - msg'[j]
      BY <2>1, <2>2, <2>3, <2>4, <3>1 DEF JobQueueInv
    <3>4. \A i \in 1 .. Len(channel'[j]) : channel'[j][i] = msg'[j] + i
      BY <2>1, <2>2, <2>3, <2>4
    <3> QED
      BY <3>2, <3>3, <3>4 DEF JobQueueInv
  <2> QED
    BY <2>5, <2>6 DEF QueueInv
<1>8. ASSUME NEW j \in Jobs, CloseChannel(j)
      PROVE  QueueInv'
  BY <1>8
       DEF CloseChannel, RunnerMoves, QueueInv, JobQueueInv, Unopened,
       TypeOK, MapWrite
<1>9. ASSUME NEW j \in Jobs, EndDelete(j)
      PROVE  QueueInv'
  BY <1>9 DEF EndDelete, RunnerMoves, QueueInv, JobQueueInv, Unopened, TypeOK
<1>10. ASSUME NEW j \in Jobs, Receive(j)
      PROVE  QueueInv'
  <2>1. /\ listener'[j] = "waiting"
        /\ listener[j] = "receiving"
        /\ \A i \in Jobs \ {j} : listener'[i] = listener[i]
        /\ UNCHANGED <<topic, runner, sent>>
    BY <1>10 DEF Receive, TypeOK
  <2>2. sent[j] \in Nat /\ msg[j] \in Nat
    BY DEF TypeOK
  <2>3. /\ Head(channel[j]) = msg[j] + 1
        /\ msg[j] < sent[j]
        /\ Len(channel'[j]) = Len(channel[j]) - 1
        /\ \A i \in 1 .. Len(channel'[j]) : channel'[j][i] = msg[j] + 1 + i
        /\ \A i \in Jobs \ {j} : channel'[i] = channel[i]
    BY <1>10, ReceiveEffect
  <2>4. msg'[j] = msg[j] + 1 /\ \A i \in Jobs \ {j} : msg'[i] = msg[i]
    BY <1>10, <2>3 DEF Receive, TypeOK
  <2>5. ASSUME NEW i \in Jobs, i # j
        PROVE  JobQueueInv(i)'
    BY <2>1, <2>3, <2>4, <2>5 DEF QueueInv, JobQueueInv
  <2>6. JobQueueInv(j)'
    <3>1. JobQueueInv(j)
      BY DEF QueueInv
    <3>2. /\ listener'[j] = "none" <=> runner'[j] \in Unopened
          /\ topic'[j] = NoTopic <=> runner'[j] \in {"idle", "rejected"}
          /\ runner'[j] \in Unopened => sent'[j] = 0
          /\ runner'[j] = "running" => sent'[j] < MaxMsgs
      BY <2>1, <2>2, <2>4, <3>1 DEF JobQueueInv, Unopened
    <3>3. msg'[j] <= sent'[j] /\ Len(channel'[j]) = sent'[j] - msg'[j]
      BY <2>1, <2>2, <2>3, <2>4, <3>1 DEF JobQueueInv
    <3>4. \A i \in 1 .. Len(channel'[j]) : channel'[j][i] = msg'[j] + i
      BY <2>1, <2>2, <2>3, <2>4
    <3> QED
      BY <3>2, <3>3, <3>4 DEF JobQueueInv
  <2> QED
    BY <2>5, <2>6 DEF QueueInv
<1>11. ASSUME NEW j \in Jobs, AwaitBatch(j)
      PROVE  QueueInv'
  BY <1>11 DEF AwaitBatch, QueueInv, JobQueueInv, Unopened, TypeOK
<1>12. ASSUME NEW j \in Jobs, ListenerExits(j)
      PROVE  QueueInv'
  BY <1>12 DEF ListenerExits, QueueInv, JobQueueInv, Unopened, TypeOK
<1>13. ASSUME NEW j \in Jobs, NEW k \in MsgNo, NEW s \in Subscribers,
             Notify(j, k, s)
      PROVE  QueueInv'
  BY <1>13 DEF Notify, QueueInv, JobQueueInv
<1>14. ASSUME NEW j \in Jobs, NEW k \in MsgNo, NEW s \in Subscribers,
             WaiterSignals(j, k, s)
      PROVE  QueueInv'
  BY <1>14 DEF WaiterSignals, QueueInv, JobQueueInv
<1>15. ASSUME NEW j \in Jobs, NEW k \in MsgNo, NEW s \in Subscribers,
             WaiterGivesUp(j, k, s)
      PROVE  QueueInv'
  BY <1>15 DEF WaiterGivesUp, QueueInv, JobQueueInv
<1>16. ASSUME NEW j \in Jobs, NEW k \in MsgNo, NEW s \in Subscribers,
             Signal(j, k, s)
      PROVE  QueueInv'
  BY <1>16 DEF Signal, QueueInv, JobQueueInv
<1>17. ASSUME NEW j \in Jobs, NEW k \in MsgNo, NEW s \in Subscribers,
             GiveUp(j, k, s)
      PROVE  QueueInv'
  BY <1>17 DEF GiveUp, QueueInv, JobQueueInv
<1>18. ASSUME NEW j \in Jobs, NEW k \in MsgNo, NEW s \in Subscribers,
             CloseSignal(j, k, s)
      PROVE  QueueInv'
  BY <1>18 DEF CloseSignal, QueueInv, JobQueueInv
<1>19. ASSUME NEW j \in Jobs, NEW k \in MsgNo, NEW s \in Subscribers,
             TimeOut(j, k, s)
      PROVE  QueueInv'
  BY <1>19 DEF TimeOut, QueueInv, JobQueueInv
<1> QED
  BY <1>1, <1>2, <1>3, <1>4, <1>5, <1>6, <1>7, <1>8, <1>9, <1>10,
     <1>11, <1>12, <1>13, <1>14, <1>15, <1>16, <1>17, <1>18, <1>19
     DEF Step, Runner, Listener, Waiter, Supervisor

\* While it is not running, a job has taken no message.
LEMMA NothingTakenEarly ==
  ASSUME TypeOK, QueueInv, NEW j \in Jobs, runner[j] \in Unopened
  PROVE  msg[j] = 0
BY DEF TypeOK, QueueInv, JobQueueInv

\* Only the start of a job changes an audience, and only that job's.
LEMMA AudienceKept ==
  ASSUME IInv, Step, NEW j \in Jobs
  PROVE  Audience(j)' = Audience(j) \/ (msg[j] = 0 /\ msg'[j] = 0)
<1>0. TypeOK /\ QueueInv
  BY DEF IInv
<1>1. ASSUME NEW s \in Subscribers, NEW t \in Topics, AttachSubscriber(s, t)
      PROVE  Audience(j)' = Audience(j)
  BY <1>0, <1>1 DEF AttachSubscriber, Audience, QueueInv, JobQueueInv
<1>2. ASSUME NEW i \in Jobs, NEW t \in Topics, StartJob(i, t)
      PROVE  Audience(j)' = Audience(j) \/ (msg[j] = 0 /\ msg'[j] = 0)
  <2>1. CASE i = j
    <3>1. msg[j] = 0
      BY <1>0, <1>2, <2>1, NothingTakenEarly
           DEF StartJob, RunnerMoves, Unopened
    <3> QED
      <4>1. UNCHANGED listenVars
        BY <1>2 DEF StartJob
      <4>2. msg' = msg
        BY <4>1 DEF listenVars
      <4> QED
        BY <3>1, <4>2
  <2>2. CASE i # j
    <3>1. topic'[j] = topic[j] /\ subscribers' = subscribers
      BY <1>0, <1>2, <2>2 DEF StartJob, TypeOK
    <3>2. CASE topic[j] = NoTopic
      BY <3>1, <3>2 DEF Audience
    <3>3. CASE topic[j] # NoTopic
      BY <3>1, <3>3 DEF Audience
    <3> QED
      BY <3>2, <3>3
  <2> QED
    BY <2>1, <2>2
<1>3. ASSUME subscribers' = subscribers, topic' = topic
      PROVE  Audience(j)' = Audience(j)
  BY <1>3 DEF Audience
<1>4. ASSUME NEW i \in Jobs, RejectJob(i) \/ Runner(i) \/ Listener(i)
      PROVE  Audience(j)' = Audience(j)
  <2>1. UNCHANGED startVars
    BY <1>4 DEF Runner, Listener, RejectJob, BeginOpen, EndOpen, SendProgress,
                SendFinal, Send, CloseChannel, EndDelete, Receive, AwaitBatch,
                ListenerExits
  <2> QED
    BY <1>3, <2>1 DEF startVars
<1>5. ASSUME NEW i \in Jobs, NEW k \in MsgNo, NEW s \in Subscribers,
             Waiter(i, k, s) \/ Supervisor(i, k, s) \/ TimeOut(i, k, s)
      PROVE  Audience(j)' = Audience(j)
  <2>1. UNCHANGED startVars
    BY <1>5 DEF Waiter, Supervisor, Notify, WaiterSignals, WaiterGivesUp,
                Signal, GiveUp, CloseSignal, TimeOut
  <2> QED
    BY <1>3, <2>1 DEF startVars
<1> QED
  BY <1>1, <1>2, <1>4, <1>5 DEF Step

\* Every step keeps the hand-offs in step with the listener.
LEMMA HandOffStep == IInv /\ Step => HandOffInv'
<1> SUFFICES ASSUME IInv, Step PROVE HandOffInv'
  OBVIOUS
<1>0. TypeOK /\ QueueInv /\ HandOffInv
  BY DEF IInv
<1> USE DEF startVars, listenVars, noteVars
<1>1. ASSUME NEW s \in Subscribers, NEW t \in Topics, AttachSubscriber(s, t)
      PROVE  HandOffInv'
  <2> SUFFICES ASSUME NEW i \in Jobs, NEW l \in MsgNo, NEW r \in Subscribers
               PROVE  OneHandOffInv(i, l, r)'
    BY DEF HandOffInv
  <2>1. OneHandOffInv(i, l, r)
    BY <1>0 DEF HandOffInv
  <2>2. UNCHANGED <<supervisor, waiter, expired, listener, msg>>
    BY <1>1 DEF AttachSubscriber
  <2> QED
    BY <2>1, <2>2, AudienceKept DEF OneHandOffInv
<1>2. ASSUME NEW j \in Jobs, NEW t \in Topics, StartJob(j, t)
      PROVE  HandOffInv'
  <2> SUFFICES ASSUME NEW i \in Jobs, NEW l \in MsgNo, NEW r \in Subscribers
               PROVE  OneHandOffInv(i, l, r)'
    BY DEF HandOffInv
  <2>1. OneHandOffInv(i, l, r)
    BY <1>0 DEF HandOffInv
  <2>2. UNCHANGED <<supervisor, waiter, expired, listener, msg>>
    BY <1>2 DEF StartJob
  <2> QED
    BY <2>1, <2>2, AudienceKept DEF OneHandOffInv
<1>3. ASSUME NEW j \in Jobs, RejectJob(j)
      PROVE  HandOffInv'
  <2> SUFFICES ASSUME NEW i \in Jobs, NEW l \in MsgNo, NEW r \in Subscribers
               PROVE  OneHandOffInv(i, l, r)'
    BY DEF HandOffInv
  <2>1. OneHandOffInv(i, l, r)
    BY <1>0 DEF HandOffInv
  <2>2. UNCHANGED <<supervisor, waiter, expired, listener, msg>>
    BY <1>3 DEF RejectJob
  <2> QED
    BY <2>1, <2>2, AudienceKept DEF OneHandOffInv
<1>4. ASSUME NEW j \in Jobs, BeginOpen(j)
      PROVE  HandOffInv'
  <2> SUFFICES ASSUME NEW i \in Jobs, NEW l \in MsgNo, NEW r \in Subscribers
               PROVE  OneHandOffInv(i, l, r)'
    BY DEF HandOffInv
  <2>1. OneHandOffInv(i, l, r)
    BY <1>0 DEF HandOffInv
  <2>2. UNCHANGED <<supervisor, waiter, expired, listener, msg>>
    BY <1>4 DEF BeginOpen
  <2> QED
    BY <2>1, <2>2, AudienceKept DEF OneHandOffInv
<1>5. ASSUME NEW j \in Jobs, EndOpen(j)
      PROVE  HandOffInv'
  <2> SUFFICES ASSUME NEW i \in Jobs, NEW l \in MsgNo, NEW r \in Subscribers
               PROVE  OneHandOffInv(i, l, r)'
    BY DEF HandOffInv
  <2>1. OneHandOffInv(i, l, r)
    BY <1>0 DEF HandOffInv
  <2>2. UNCHANGED <<supervisor, waiter, expired, msg>>
    BY <1>5 DEF EndOpen
  <2>3. listener[j] # "waiting"
    BY <1>5, <1>0 DEF EndOpen, RunnerMoves, QueueInv, JobQueueInv, Unopened
  <2>4. listener[i] = "waiting" => listener'[i] = "waiting"
    BY <1>5, <1>0, <2>3 DEF EndOpen, TypeOK
  <2> QED
    BY <2>1, <2>2, <2>4, AudienceKept DEF OneHandOffInv
<1>6. ASSUME NEW j \in Jobs, SendProgress(j)
      PROVE  HandOffInv'
  <2> SUFFICES ASSUME NEW i \in Jobs, NEW l \in MsgNo, NEW r \in Subscribers
               PROVE  OneHandOffInv(i, l, r)'
    BY DEF HandOffInv
  <2>1. OneHandOffInv(i, l, r)
    BY <1>0 DEF HandOffInv
  <2>2. UNCHANGED <<supervisor, waiter, expired, listener, msg>>
    BY <1>6 DEF SendProgress, Send
  <2> QED
    BY <2>1, <2>2, AudienceKept DEF OneHandOffInv
<1>7. ASSUME NEW j \in Jobs, SendFinal(j)
      PROVE  HandOffInv'
  <2> SUFFICES ASSUME NEW i \in Jobs, NEW l \in MsgNo, NEW r \in Subscribers
               PROVE  OneHandOffInv(i, l, r)'
    BY DEF HandOffInv
  <2>1. OneHandOffInv(i, l, r)
    BY <1>0 DEF HandOffInv
  <2>2. UNCHANGED <<supervisor, waiter, expired, listener, msg>>
    BY <1>7 DEF SendFinal, Send
  <2> QED
    BY <2>1, <2>2, AudienceKept DEF OneHandOffInv
<1>8. ASSUME NEW j \in Jobs, CloseChannel(j)
      PROVE  HandOffInv'
  <2> SUFFICES ASSUME NEW i \in Jobs, NEW l \in MsgNo, NEW r \in Subscribers
               PROVE  OneHandOffInv(i, l, r)'
    BY DEF HandOffInv
  <2>1. OneHandOffInv(i, l, r)
    BY <1>0 DEF HandOffInv
  <2>2. UNCHANGED <<supervisor, waiter, expired, listener, msg>>
    BY <1>8 DEF CloseChannel
  <2> QED
    BY <2>1, <2>2, AudienceKept DEF OneHandOffInv
<1>9. ASSUME NEW j \in Jobs, EndDelete(j)
      PROVE  HandOffInv'
  <2> SUFFICES ASSUME NEW i \in Jobs, NEW l \in MsgNo, NEW r \in Subscribers
               PROVE  OneHandOffInv(i, l, r)'
    BY DEF HandOffInv
  <2>1. OneHandOffInv(i, l, r)
    BY <1>0 DEF HandOffInv
  <2>2. UNCHANGED <<supervisor, waiter, expired, listener, msg>>
    BY <1>9 DEF EndDelete
  <2> QED
    BY <2>1, <2>2, AudienceKept DEF OneHandOffInv
<1>10. ASSUME NEW j \in Jobs, Receive(j)
      PROVE  HandOffInv'
  <2> SUFFICES ASSUME NEW i \in Jobs, NEW l \in MsgNo, NEW r \in Subscribers
               PROVE  OneHandOffInv(i, l, r)'
    BY DEF HandOffInv
  <2>1. OneHandOffInv(i, l, r)
    BY <1>0 DEF HandOffInv
  <2>2. /\ Head(channel[j]) = msg[j] + 1
        /\ Head(channel[j]) \in MsgNo
    BY <1>10, ReceiveEffect
  <2>3. /\ supervisor'[i][l][r] =
             IF i = j /\ l = msg[j] + 1 /\ r \in Audience(j)
               THEN "select" ELSE supervisor[i][l][r]
        /\ waiter'[i][l][r] =
             IF i = j /\ l = msg[j] + 1 /\ r \in Audience(j)
               THEN "notify" ELSE waiter[i][l][r]
    <3>1. /\ supervisor \in HandOffs(SupervisorPC)
          /\ waiter \in HandOffs(WaiterPC)
          /\ supervisor' = HandedOff(supervisor, j, Head(channel[j]), "select")
          /\ waiter' = HandedOff(waiter, j, Head(channel[j]), "notify")
      BY <1>10, <1>0 DEF Receive, TypeOK
    <3> QED
      BY <2>2, <3>1, BatchRead
  <2>4. /\ msg'[i] = IF i = j THEN msg[j] + 1 ELSE msg[i]
        /\ listener'[i] = IF i = j THEN "waiting" ELSE listener[i]
        /\ listener[j] = "receiving"
        /\ UNCHANGED expired
        /\ Audience(i)' = Audience(i)
    BY <1>10, <1>0, <2>2 DEF Receive, TypeOK, Audience
  <2>5. msg[i] \in Nat /\ l \in Nat
    BY <1>0 DEF TypeOK
  <2> QED
    BY <2>1, <2>3, <2>4, <2>5 DEF OneHandOffInv
<1>11. ASSUME NEW j \in Jobs, AwaitBatch(j)
      PROVE  HandOffInv'
  <2> SUFFICES ASSUME NEW i \in Jobs, NEW l \in MsgNo, NEW r \in Subscribers
               PROVE  OneHandOffInv(i, l, r)'
    BY DEF HandOffInv
  <2>1. OneHandOffInv(i, l, r)
    BY <1>0 DEF HandOffInv
  <2>2. UNCHANGED <<supervisor, waiter, expired, msg>>
    BY <1>11 DEF AwaitBatch
  <2>3. supervisor[i][l][r] = "select" => listener[i] = "waiting" /\ i # j
    BY <1>11, <2>1 DEF AwaitBatch, OneHandOffInv, BatchDone
  <2>4. supervisor[i][l][r] = "select" => listener'[i] = "waiting"
    BY <1>11, <1>0, <2>3 DEF AwaitBatch, TypeOK
  <2> QED
    BY <2>1, <2>2, <2>4, AudienceKept DEF OneHandOffInv
<1>12. ASSUME NEW j \in Jobs, ListenerExits(j)
      PROVE  HandOffInv'
  <2> SUFFICES ASSUME NEW i \in Jobs, NEW l \in MsgNo, NEW r \in Subscribers
               PROVE  OneHandOffInv(i, l, r)'
    BY DEF HandOffInv
  <2>1. OneHandOffInv(i, l, r)
    BY <1>0 DEF HandOffInv
  <2>2. UNCHANGED <<supervisor, waiter, expired, msg>>
    BY <1>12 DEF ListenerExits
  <2>3. supervisor[i][l][r] = "select" => listener[i] = "waiting" /\ i # j
    BY <1>12, <2>1 DEF ListenerExits, OneHandOffInv
  <2>4. supervisor[i][l][r] = "select" => listener'[i] = "waiting"
    BY <1>12, <1>0, <2>3 DEF ListenerExits, TypeOK
  <2> QED
    BY <2>1, <2>2, <2>4, AudienceKept DEF OneHandOffInv
<1>13. ASSUME NEW j \in Jobs, NEW k \in MsgNo, NEW s \in Subscribers,
             Notify(j, k, s)
      PROVE  HandOffInv'
  <2> SUFFICES ASSUME NEW i \in Jobs, NEW l \in MsgNo, NEW r \in Subscribers
               PROVE  OneHandOffInv(i, l, r)'
    BY DEF HandOffInv
  <2>1. OneHandOffInv(i, l, r)
    BY <1>0 DEF HandOffInv
  <2>2. /\ UNCHANGED <<supervisor, expired, msg, listener>>
        /\ Audience(i)' = Audience(i)
        /\ waiter' = [waiter EXCEPT ![j][k][s] = "select"]
        /\ waiter \in HandOffs(WaiterPC)
    BY <1>13, <1>0 DEF Notify, TypeOK, Audience
  <2>3. waiter'[i][l][r] =
             IF i = j /\ l = k /\ r = s THEN "select" ELSE waiter[i][l][r]
    BY <2>2 DEF HandOffs
  <2> QED
    BY <1>13, <1>0, <2>1, <2>2, <2>3 DEF Notify, OneHandOffInv
<1>14. ASSUME NEW j \in Jobs, NEW k \in MsgNo, NEW s \in Subscribers,
             WaiterSignals(j, k, s)
      PROVE  HandOffInv'
  <2> SUFFICES ASSUME NEW i \in Jobs, NEW l \in MsgNo, NEW r \in Subscribers
               PROVE  OneHandOffInv(i, l, r)'
    BY DEF HandOffInv
  <2>1. OneHandOffInv(i, l, r)
    BY <1>0 DEF HandOffInv
  <2>2. /\ UNCHANGED <<supervisor, expired, msg, listener>>
        /\ Audience(i)' = Audience(i)
        /\ waiter' = [waiter EXCEPT ![j][k][s] = "send"]
        /\ waiter \in HandOffs(WaiterPC)
    BY <1>14, <1>0 DEF WaiterSignals, TypeOK, Audience
  <2>3. waiter'[i][l][r] =
             IF i = j /\ l = k /\ r = s THEN "send" ELSE waiter[i][l][r]
    BY <2>2 DEF HandOffs
  <2> QED
    BY <1>14, <1>0, <2>1, <2>2, <2>3 DEF WaiterSignals, OneHandOffInv
<1>15. ASSUME NEW j \in Jobs, NEW k \in MsgNo, NEW s \in Subscribers,
             WaiterGivesUp(j, k, s)
      PROVE  HandOffInv'
  <2> SUFFICES ASSUME NEW i \in Jobs, NEW l \in MsgNo, NEW r \in Subscribers
               PROVE  OneHandOffInv(i, l, r)'
    BY DEF HandOffInv
  <2>1. OneHandOffInv(i, l, r)
    BY <1>0 DEF HandOffInv
  <2>2. /\ UNCHANGED <<supervisor, expired, msg, listener>>
        /\ Audience(i)' = Audience(i)
        /\ waiter' = [waiter EXCEPT ![j][k][s] = "done"]
        /\ waiter \in HandOffs(WaiterPC)
    BY <1>15, <1>0 DEF WaiterGivesUp, TypeOK, Audience
  <2>3. waiter'[i][l][r] =
             IF i = j /\ l = k /\ r = s THEN "done" ELSE waiter[i][l][r]
    BY <2>2 DEF HandOffs
  <2> QED
    BY <1>15, <1>0, <2>1, <2>2, <2>3 DEF WaiterGivesUp, OneHandOffInv
<1>16. ASSUME NEW j \in Jobs, NEW k \in MsgNo, NEW s \in Subscribers,
             Signal(j, k, s)
      PROVE  HandOffInv'
  <2> SUFFICES ASSUME NEW i \in Jobs, NEW l \in MsgNo, NEW r \in Subscribers
               PROVE  OneHandOffInv(i, l, r)'
    BY DEF HandOffInv
  <2>1. OneHandOffInv(i, l, r)
    BY <1>0 DEF HandOffInv
  <2>2. /\ UNCHANGED <<expired, msg, listener>>
        /\ Audience(i)' = Audience(i)
        /\ waiter' = [waiter EXCEPT ![j][k][s] = "done"]
        /\ waiter \in HandOffs(WaiterPC)
        /\ supervisor' = [supervisor EXCEPT ![j][k][s] = "leaving"]
        /\ supervisor \in HandOffs(SupervisorPC)
    BY <1>16, <1>0 DEF Signal, TypeOK, Audience
  <2>3. /\ waiter'[i][l][r] =
             IF i = j /\ l = k /\ r = s THEN "done" ELSE waiter[i][l][r]
        /\ supervisor'[i][l][r] =
             IF i = j /\ l = k /\ r = s THEN "leaving" ELSE supervisor[i][l][r]
    BY <2>2 DEF HandOffs
  <2> QED
    BY <1>16, <1>0, <2>1, <2>2, <2>3 DEF Signal, OneHandOffInv
<1>17. ASSUME NEW j \in Jobs, NEW k \in MsgNo, NEW s \in Subscribers,
             GiveUp(j, k, s)
      PROVE  HandOffInv'
  <2> SUFFICES ASSUME NEW i \in Jobs, NEW l \in MsgNo, NEW r \in Subscribers
               PROVE  OneHandOffInv(i, l, r)'
    BY DEF HandOffInv
  <2>1. OneHandOffInv(i, l, r)
    BY <1>0 DEF HandOffInv
  <2>2. /\ UNCHANGED <<waiter, expired, msg, listener>>
        /\ Audience(i)' = Audience(i)
        /\ supervisor' = [supervisor EXCEPT ![j][k][s] = "leaving"]
        /\ supervisor \in HandOffs(SupervisorPC)
    BY <1>17, <1>0 DEF GiveUp, TypeOK, Audience
  <2>3. supervisor'[i][l][r] =
             IF i = j /\ l = k /\ r = s THEN "leaving" ELSE supervisor[i][l][r]
    BY <2>2 DEF HandOffs
  <2> QED
    BY <1>17, <1>0, <2>1, <2>2, <2>3 DEF GiveUp, OneHandOffInv, TimesOut
<1>18. ASSUME NEW j \in Jobs, NEW k \in MsgNo, NEW s \in Subscribers,
             CloseSignal(j, k, s)
      PROVE  HandOffInv'
  <2> SUFFICES ASSUME NEW i \in Jobs, NEW l \in MsgNo, NEW r \in Subscribers
               PROVE  OneHandOffInv(i, l, r)'
    BY DEF HandOffInv
  <2>1. OneHandOffInv(i, l, r)
    BY <1>0 DEF HandOffInv
  <2>2. /\ UNCHANGED <<waiter, expired, msg, listener>>
        /\ Audience(i)' = Audience(i)
        /\ supervisor' = [supervisor EXCEPT ![j][k][s] = "done"]
        /\ supervisor \in HandOffs(SupervisorPC)
    BY <1>18, <1>0 DEF CloseSignal, TypeOK, Audience
  <2>3. supervisor'[i][l][r] =
             IF i = j /\ l = k /\ r = s THEN "done" ELSE supervisor[i][l][r]
    BY <2>2 DEF HandOffs
  <2> QED
    BY <1>18, <1>0, <2>1, <2>2, <2>3 DEF CloseSignal, OneHandOffInv
<1>19. ASSUME NEW j \in Jobs, NEW k \in MsgNo, NEW s \in Subscribers,
             TimeOut(j, k, s)
      PROVE  HandOffInv'
  <2> SUFFICES ASSUME NEW i \in Jobs, NEW l \in MsgNo, NEW r \in Subscribers
               PROVE  OneHandOffInv(i, l, r)'
    BY DEF HandOffInv
  <2>1. OneHandOffInv(i, l, r)
    BY <1>0 DEF HandOffInv
  <2>2. /\ UNCHANGED <<waiter, supervisor, msg, listener>>
        /\ Audience(i)' = Audience(i)
        /\ expired' = [expired EXCEPT ![j][k][s] = TRUE]
        /\ expired \in HandOffs(BOOLEAN)
    BY <1>19, <1>0 DEF TimeOut, TypeOK, Audience
  <2>3. expired'[i][l][r] =
             IF i = j /\ l = k /\ r = s THEN TRUE ELSE expired[i][l][r]
    BY <2>2 DEF HandOffs
  <2> QED
    BY <1>19, <1>0, <2>1, <2>2, <2>3 DEF TimeOut, OneHandOffInv
<1> QED
  BY <1>1, <1>2, <1>3, <1>4, <1>5, <1>6, <1>7, <1>8, <1>9, <1>10,
     <1>11, <1>12, <1>13, <1>14, <1>15, <1>16, <1>17, <1>18, <1>19
     DEF Step, Runner, Listener, Waiter, Supervisor

\* The order is kept by a step that changes neither what a subscriber has
\* handled nor how much that should be.
LEMMA OrderKept ==
  ASSUME NEW i \in Jobs, NEW r \in Prompt,
         InOrderUpTo(handled[i][r], HandledCount(i, r)),
         handled'[i][r] = handled[i][r],
         HandledCount(i, r)' = HandledCount(i, r)
  PROVE  InOrderUpTo(handled[i][r], HandledCount(i, r))'
BY DEF InOrderUpTo

\* 1, ..., k-1 followed by k.
LEMMA OneMore ==
  ASSUME NEW k \in Nat \ {0}
  PROVE  Append([x \in 1 .. k - 1 |-> x], k) = [x \in 1 .. k |-> x]
<1> DEFINE q == [x \in 1 .. k - 1 |-> x]
<1>1. q \in Seq(Nat) /\ Len(q) = k - 1
  BY IsASeq
<1>2. /\ Append(q, k) \in Seq(Nat)
      /\ Len(Append(q, k)) = k
      /\ \A x \in 1 .. k - 1 : Append(q, k)[x] = q[x]
      /\ Append(q, k)[k] = k
  BY <1>1, AppendProperties
<1>3. \A x \in 1 .. k : Append(q, k)[x] = x
  BY <1>2
<1>4. Append(q, k) = [x \in 1 .. k |-> Append(q, k)[x]]
  BY <1>2, LenProperties
<1> QED
  BY <1>3, <1>4

\* Every step keeps what the prompt subscribers have handled in order.
LEMMA OrderStep == IInv /\ Step => OrderInv'
<1> SUFFICES ASSUME IInv, Step PROVE OrderInv'
  OBVIOUS
<1>0. TypeOK /\ HandOffInv /\ OrderInv
  BY DEF IInv
<1> USE DEF startVars, listenVars, noteVars
<1>1. ASSUME NEW s \in Subscribers, NEW t \in Topics, AttachSubscriber(s, t)
      PROVE  OrderInv'
  <2> SUFFICES ASSUME NEW i \in Jobs, NEW r \in Prompt
               PROVE  InOrderUpTo(handled[i][r], HandledCount(i, r))'
    BY DEF OrderInv
  <2>0. /\ InOrderUpTo(handled[i][r], HandledCount(i, r))
        /\ r \in Subscribers
    BY <1>0 DEF OrderInv, Prompt
  <2>1. UNCHANGED <<handled, waiter, msg>>
    BY <1>1 DEF AttachSubscriber
  <2>2. HandledCount(i, r)' = HandledCount(i, r)
    BY <2>1, AudienceKept DEF HandledCount
  <2> QED
    BY <2>0, <2>1, <2>2, OrderKept
<1>2. ASSUME NEW j \in Jobs, NEW t \in Topics, StartJob(j, t)
      PROVE  OrderInv'
  <2> SUFFICES ASSUME NEW i \in Jobs, NEW r \in Prompt
               PROVE  InOrderUpTo(handled[i][r], HandledCount(i, r))'
    BY DEF OrderInv
  <2>0. /\ InOrderUpTo(handled[i][r], HandledCount(i, r))
        /\ r \in Subscribers
    BY <1>0 DEF OrderInv, Prompt
  <2>1. UNCHANGED <<handled, waiter, msg>>
    BY <1>2 DEF StartJob
  <2>2. HandledCount(i, r)' = HandledCount(i, r)
    BY <2>1, AudienceKept DEF HandledCount
  <2> QED
    BY <2>0, <2>1, <2>2, OrderKept
<1>3. ASSUME NEW j \in Jobs, RejectJob(j)
      PROVE  OrderInv'
  <2> SUFFICES ASSUME NEW i \in Jobs, NEW r \in Prompt
               PROVE  InOrderUpTo(handled[i][r], HandledCount(i, r))'
    BY DEF OrderInv
  <2>0. /\ InOrderUpTo(handled[i][r], HandledCount(i, r))
        /\ r \in Subscribers
    BY <1>0 DEF OrderInv, Prompt
  <2>1. UNCHANGED <<handled, waiter, msg>>
    BY <1>3 DEF RejectJob
  <2>2. HandledCount(i, r)' = HandledCount(i, r)
    BY <2>1, AudienceKept DEF HandledCount
  <2> QED
    BY <2>0, <2>1, <2>2, OrderKept
<1>4. ASSUME NEW j \in Jobs, BeginOpen(j)
      PROVE  OrderInv'
  <2> SUFFICES ASSUME NEW i \in Jobs, NEW r \in Prompt
               PROVE  InOrderUpTo(handled[i][r], HandledCount(i, r))'
    BY DEF OrderInv
  <2>0. /\ InOrderUpTo(handled[i][r], HandledCount(i, r))
        /\ r \in Subscribers
    BY <1>0 DEF OrderInv, Prompt
  <2>1. UNCHANGED <<handled, waiter, msg>>
    BY <1>4 DEF BeginOpen
  <2>2. HandledCount(i, r)' = HandledCount(i, r)
    BY <2>1, AudienceKept DEF HandledCount
  <2> QED
    BY <2>0, <2>1, <2>2, OrderKept
<1>5. ASSUME NEW j \in Jobs, EndOpen(j)
      PROVE  OrderInv'
  <2> SUFFICES ASSUME NEW i \in Jobs, NEW r \in Prompt
               PROVE  InOrderUpTo(handled[i][r], HandledCount(i, r))'
    BY DEF OrderInv
  <2>0. /\ InOrderUpTo(handled[i][r], HandledCount(i, r))
        /\ r \in Subscribers
    BY <1>0 DEF OrderInv, Prompt
  <2>1. UNCHANGED <<handled, waiter, msg>>
    BY <1>5 DEF EndOpen
  <2>2. HandledCount(i, r)' = HandledCount(i, r)
    BY <2>1, AudienceKept DEF HandledCount
  <2> QED
    BY <2>0, <2>1, <2>2, OrderKept
<1>6. ASSUME NEW j \in Jobs, SendProgress(j)
      PROVE  OrderInv'
  <2> SUFFICES ASSUME NEW i \in Jobs, NEW r \in Prompt
               PROVE  InOrderUpTo(handled[i][r], HandledCount(i, r))'
    BY DEF OrderInv
  <2>0. /\ InOrderUpTo(handled[i][r], HandledCount(i, r))
        /\ r \in Subscribers
    BY <1>0 DEF OrderInv, Prompt
  <2>1. UNCHANGED <<handled, waiter, msg>>
    BY <1>6 DEF SendProgress, Send
  <2>2. HandledCount(i, r)' = HandledCount(i, r)
    BY <2>1, AudienceKept DEF HandledCount
  <2> QED
    BY <2>0, <2>1, <2>2, OrderKept
<1>7. ASSUME NEW j \in Jobs, SendFinal(j)
      PROVE  OrderInv'
  <2> SUFFICES ASSUME NEW i \in Jobs, NEW r \in Prompt
               PROVE  InOrderUpTo(handled[i][r], HandledCount(i, r))'
    BY DEF OrderInv
  <2>0. /\ InOrderUpTo(handled[i][r], HandledCount(i, r))
        /\ r \in Subscribers
    BY <1>0 DEF OrderInv, Prompt
  <2>1. UNCHANGED <<handled, waiter, msg>>
    BY <1>7 DEF SendFinal, Send
  <2>2. HandledCount(i, r)' = HandledCount(i, r)
    BY <2>1, AudienceKept DEF HandledCount
  <2> QED
    BY <2>0, <2>1, <2>2, OrderKept
<1>8. ASSUME NEW j \in Jobs, CloseChannel(j)
      PROVE  OrderInv'
  <2> SUFFICES ASSUME NEW i \in Jobs, NEW r \in Prompt
               PROVE  InOrderUpTo(handled[i][r], HandledCount(i, r))'
    BY DEF OrderInv
  <2>0. /\ InOrderUpTo(handled[i][r], HandledCount(i, r))
        /\ r \in Subscribers
    BY <1>0 DEF OrderInv, Prompt
  <2>1. UNCHANGED <<handled, waiter, msg>>
    BY <1>8 DEF CloseChannel
  <2>2. HandledCount(i, r)' = HandledCount(i, r)
    BY <2>1, AudienceKept DEF HandledCount
  <2> QED
    BY <2>0, <2>1, <2>2, OrderKept
<1>9. ASSUME NEW j \in Jobs, EndDelete(j)
      PROVE  OrderInv'
  <2> SUFFICES ASSUME NEW i \in Jobs, NEW r \in Prompt
               PROVE  InOrderUpTo(handled[i][r], HandledCount(i, r))'
    BY DEF OrderInv
  <2>0. /\ InOrderUpTo(handled[i][r], HandledCount(i, r))
        /\ r \in Subscribers
    BY <1>0 DEF OrderInv, Prompt
  <2>1. UNCHANGED <<handled, waiter, msg>>
    BY <1>9 DEF EndDelete
  <2>2. HandledCount(i, r)' = HandledCount(i, r)
    BY <2>1, AudienceKept DEF HandledCount
  <2> QED
    BY <2>0, <2>1, <2>2, OrderKept
<1>10. ASSUME NEW j \in Jobs, Receive(j)
      PROVE  OrderInv'
  <2> SUFFICES ASSUME NEW i \in Jobs, NEW r \in Prompt
               PROVE  InOrderUpTo(handled[i][r], HandledCount(i, r))'
    BY DEF OrderInv
  <2>0. /\ InOrderUpTo(handled[i][r], HandledCount(i, r))
        /\ r \in Subscribers
    BY <1>0 DEF OrderInv, Prompt
  <2>1. /\ Head(channel[j]) = msg[j] + 1
        /\ Head(channel[j]) \in MsgNo
    BY <1>10, ReceiveEffect
  <2>2. /\ msg'[i] = IF i = j THEN msg[j] + 1 ELSE msg[i]
        /\ listener[j] = "receiving"
        /\ UNCHANGED handled
        /\ Audience(i)' = Audience(i)
        /\ waiter' = HandedOff(waiter, j, msg[j] + 1, "notify")
        /\ waiter \in HandOffs(WaiterPC)
    BY <1>10, <1>0, <2>1 DEF Receive, TypeOK, Audience
  <2>3. msg[i] \in 0 .. MaxMsgs
    BY <1>0 DEF TypeOK
  <2>4. CASE i = j /\ r \in Audience(j)
    <3>1. waiter'[j][msg[j] + 1][r] = "notify"
      BY <2>0, <2>1, <2>2, <2>4, BatchRead
    <3>2. HandledCount(i, r)' = msg[j]
      BY <2>2, <2>3, <2>4, <3>1 DEF HandledCount
    <3>3. msg[j] # 0 => waiter[j][msg[j]][r] # "notify"
      BY <1>0, <2>0, <2>2, <2>3, <2>4 DEF HandOffInv, OneHandOffInv, Prompt
    <3>4. HandledCount(i, r) = msg[j]
      BY <2>3, <2>4, <3>3 DEF HandledCount
    <3> QED
      BY <2>0, <2>2, <3>2, <3>4, OrderKept
  <2>5. CASE r \notin Audience(i)
    BY <2>0, <2>2, <2>5, OrderKept DEF HandledCount
  <2>6. CASE i # j
    <3>1. msg[i] # 0 => waiter'[i][msg[i]][r] = waiter[i][msg[i]][r]
      BY <2>0, <2>1, <2>2, <2>3, <2>6, BatchRead
    <3>2. HandledCount(i, r)' = HandledCount(i, r)
      BY <2>2, <2>6, <3>1 DEF HandledCount
    <3> QED
      BY <2>0, <2>2, <3>2, OrderKept
  <2> QED
    BY <2>4, <2>5, <2>6
<1>11. ASSUME NEW j \in Jobs, AwaitBatch(j)
      PROVE  OrderInv'
  <2> SUFFICES ASSUME NEW i \in Jobs, NEW r \in Prompt
               PROVE  InOrderUpTo(handled[i][r], HandledCount(i, r))'
    BY DEF OrderInv
  <2>0. /\ InOrderUpTo(handled[i][r], HandledCount(i, r))
        /\ r \in Subscribers
    BY <1>0 DEF OrderInv, Prompt
  <2>1. UNCHANGED <<handled, waiter, msg>>
    BY <1>11 DEF AwaitBatch
  <2>2. HandledCount(i, r)' = HandledCount(i, r)
    BY <2>1, AudienceKept DEF HandledCount
  <2> QED
    BY <2>0, <2>1, <2>2, OrderKept
<1>12. ASSUME NEW j \in Jobs, ListenerExits(j)
      PROVE  OrderInv'
  <2> SUFFICES ASSUME NEW i \in Jobs, NEW r \in Prompt
               PROVE  InOrderUpTo(handled[i][r], HandledCount(i, r))'
    BY DEF OrderInv
  <2>0. /\ InOrderUpTo(handled[i][r], HandledCount(i, r))
        /\ r \in Subscribers
    BY <1>0 DEF OrderInv, Prompt
  <2>1. UNCHANGED <<handled, waiter, msg>>
    BY <1>12 DEF ListenerExits
  <2>2. HandledCount(i, r)' = HandledCount(i, r)
    BY <2>1, AudienceKept DEF HandledCount
  <2> QED
    BY <2>0, <2>1, <2>2, OrderKept
<1>13. ASSUME NEW j \in Jobs, NEW k \in MsgNo, NEW s \in Subscribers,
             Notify(j, k, s)
      PROVE  OrderInv'
  <2> SUFFICES ASSUME NEW i \in Jobs, NEW r \in Prompt
               PROVE  InOrderUpTo(handled[i][r], HandledCount(i, r))'
    BY DEF OrderInv
  <2>0. /\ InOrderUpTo(handled[i][r], HandledCount(i, r))
        /\ r \in Subscribers
    BY <1>0 DEF OrderInv, Prompt
  <2>1. /\ UNCHANGED msg
        /\ Audience(i)' = Audience(i)
        /\ waiter' = [waiter EXCEPT ![j][k][s] = "select"]
        /\ waiter[j][k][s] = "notify"
        /\ waiter \in HandOffs(WaiterPC)
        /\ handled' = [handled EXCEPT ![j][s] = Append(handled[j][s], k)]
        /\ handled \in [Jobs -> [Subscribers -> Seq(MsgNo)]]
    BY <1>13, <1>0 DEF Notify, TypeOK, Audience
  <2>2. msg[i] \in 0 .. MaxMsgs
    BY <1>0 DEF TypeOK
  <2>3. CASE i = j /\ r = s
    <3>1. /\ supervisor[j][k][s] = "select"
          /\ k = msg[j] /\ s \in Audience(j)
      BY <1>0, <2>0, <2>1, <2>3 DEF HandOffInv, OneHandOffInv, Prompt
    <3>2. HandledCount(j, s) = k - 1
      BY <2>1, <2>2, <3>1 DEF HandledCount
    <3>3. HandledCount(j, s)' = k
      BY <2>1, <2>2, <2>3, <3>1 DEF HandledCount, HandOffs
    <3>4. handled[j][s] = [x \in 1 .. k - 1 |-> x]
      BY <2>0, <2>3, <3>2 DEF InOrderUpTo
    <3>5. handled'[j][s] = Append([x \in 1 .. k - 1 |-> x], k)
      BY <2>1, <3>4
    <3>6. handled'[j][s] = [x \in 1 .. k |-> x]
      BY <3>5, OneMore
    <3> QED
      BY <2>3, <3>3, <3>6 DEF InOrderUpTo
  <2>4. CASE ~(i = j /\ r = s)
    <3>1. handled'[i][r] = handled[i][r]
      BY <2>0, <2>1, <2>4
    <3>2. \A l \in MsgNo : waiter'[i][l][r] = waiter[i][l][r]
      BY <2>0, <2>1, <2>4 DEF HandOffs
    <3>3. HandledCount(i, r)' = HandledCount(i, r)
      BY <2>1, <2>2, <3>2 DEF HandledCount
    <3> QED
      BY <2>0, <3>1, <3>3, OrderKept
  <2> QED
    BY <2>3, <2>4
<1>14. ASSUME NEW j \in Jobs, NEW k \in MsgNo, NEW s \in Subscribers,
             WaiterSignals(j, k, s)
      PROVE  OrderInv'
  <2> SUFFICES ASSUME NEW i \in Jobs, NEW r \in Prompt
               PROVE  InOrderUpTo(handled[i][r], HandledCount(i, r))'
    BY DEF OrderInv
  <2>0. /\ InOrderUpTo(handled[i][r], HandledCount(i, r))
        /\ r \in Subscribers
    BY <1>0 DEF OrderInv, Prompt
  <2>1. /\ UNCHANGED <<handled, msg>>
        /\ Audience(i)' = Audience(i)
        /\ waiter' = [waiter EXCEPT ![j][k][s] = "send"]
        /\ waiter[j][k][s] # "notify"
        /\ waiter \in HandOffs(WaiterPC)
    BY <1>14, <1>0 DEF WaiterSignals, TypeOK, Audience
  <2>2. \A l \in MsgNo :
          waiter'[i][l][r] = "notify" <=> waiter[i][l][r] = "notify"
    BY <2>0, <2>1 DEF HandOffs
  <2>3. msg[i] \in 0 .. MaxMsgs
    BY <1>0 DEF TypeOK
  <2>4. HandledCount(i, r)' = HandledCount(i, r)
    BY <2>1, <2>2, <2>3 DEF HandledCount
  <2> QED
    BY <2>0, <2>1, <2>4, OrderKept
<1>15. ASSUME NEW j \in Jobs, NEW k \in MsgNo, NEW s \in Subscribers,
             WaiterGivesUp(j, k, s)
      PROVE  OrderInv'
  <2> SUFFICES ASSUME NEW i \in Jobs, NEW r \in Prompt
               PROVE  InOrderUpTo(handled[i][r], HandledCount(i, r))'
    BY DEF OrderInv
  <2>0. /\ InOrderUpTo(handled[i][r], HandledCount(i, r))
        /\ r \in Subscribers
    BY <1>0 DEF OrderInv, Prompt
  <2>1. /\ UNCHANGED <<handled, msg>>
        /\ Audience(i)' = Audience(i)
        /\ waiter' = [waiter EXCEPT ![j][k][s] = "done"]
        /\ waiter[j][k][s] # "notify"
        /\ waiter \in HandOffs(WaiterPC)
    BY <1>15, <1>0 DEF WaiterGivesUp, TypeOK, Audience
  <2>2. \A l \in MsgNo :
          waiter'[i][l][r] = "notify" <=> waiter[i][l][r] = "notify"
    BY <2>0, <2>1 DEF HandOffs
  <2>3. msg[i] \in 0 .. MaxMsgs
    BY <1>0 DEF TypeOK
  <2>4. HandledCount(i, r)' = HandledCount(i, r)
    BY <2>1, <2>2, <2>3 DEF HandledCount
  <2> QED
    BY <2>0, <2>1, <2>4, OrderKept
<1>16. ASSUME NEW j \in Jobs, NEW k \in MsgNo, NEW s \in Subscribers,
             Signal(j, k, s)
      PROVE  OrderInv'
  <2> SUFFICES ASSUME NEW i \in Jobs, NEW r \in Prompt
               PROVE  InOrderUpTo(handled[i][r], HandledCount(i, r))'
    BY DEF OrderInv
  <2>0. /\ InOrderUpTo(handled[i][r], HandledCount(i, r))
        /\ r \in Subscribers
    BY <1>0 DEF OrderInv, Prompt
  <2>1. /\ UNCHANGED <<handled, msg>>
        /\ Audience(i)' = Audience(i)
        /\ waiter' = [waiter EXCEPT ![j][k][s] = "done"]
        /\ waiter[j][k][s] # "notify"
        /\ waiter \in HandOffs(WaiterPC)
    BY <1>16, <1>0 DEF Signal, TypeOK, Audience
  <2>2. \A l \in MsgNo :
          waiter'[i][l][r] = "notify" <=> waiter[i][l][r] = "notify"
    BY <2>0, <2>1 DEF HandOffs
  <2>3. msg[i] \in 0 .. MaxMsgs
    BY <1>0 DEF TypeOK
  <2>4. HandledCount(i, r)' = HandledCount(i, r)
    BY <2>1, <2>2, <2>3 DEF HandledCount
  <2> QED
    BY <2>0, <2>1, <2>4, OrderKept
<1>17. ASSUME NEW j \in Jobs, NEW k \in MsgNo, NEW s \in Subscribers,
             GiveUp(j, k, s)
      PROVE  OrderInv'
  <2> SUFFICES ASSUME NEW i \in Jobs, NEW r \in Prompt
               PROVE  InOrderUpTo(handled[i][r], HandledCount(i, r))'
    BY DEF OrderInv
  <2>0. /\ InOrderUpTo(handled[i][r], HandledCount(i, r))
        /\ r \in Subscribers
    BY <1>0 DEF OrderInv, Prompt
  <2>1. UNCHANGED <<handled, waiter, msg, subscribers, topic>>
    BY <1>17 DEF GiveUp
  <2>2. HandledCount(i, r)' = HandledCount(i, r)
    BY <2>1 DEF HandledCount, Audience
  <2> QED
    BY <2>0, <2>1, <2>2, OrderKept
<1>18. ASSUME NEW j \in Jobs, NEW k \in MsgNo, NEW s \in Subscribers,
             CloseSignal(j, k, s)
      PROVE  OrderInv'
  <2> SUFFICES ASSUME NEW i \in Jobs, NEW r \in Prompt
               PROVE  InOrderUpTo(handled[i][r], HandledCount(i, r))'
    BY DEF OrderInv
  <2>0. /\ InOrderUpTo(handled[i][r], HandledCount(i, r))
        /\ r \in Subscribers
    BY <1>0 DEF OrderInv, Prompt
  <2>1. UNCHANGED <<handled, waiter, msg, subscribers, topic>>
    BY <1>18 DEF CloseSignal
  <2>2. HandledCount(i, r)' = HandledCount(i, r)
    BY <2>1 DEF HandledCount, Audience
  <2> QED
    BY <2>0, <2>1, <2>2, OrderKept
<1>19. ASSUME NEW j \in Jobs, NEW k \in MsgNo, NEW s \in Subscribers,
             TimeOut(j, k, s)
      PROVE  OrderInv'
  <2> SUFFICES ASSUME NEW i \in Jobs, NEW r \in Prompt
               PROVE  InOrderUpTo(handled[i][r], HandledCount(i, r))'
    BY DEF OrderInv
  <2>0. /\ InOrderUpTo(handled[i][r], HandledCount(i, r))
        /\ r \in Subscribers
    BY <1>0 DEF OrderInv, Prompt
  <2>1. UNCHANGED <<handled, waiter, msg, subscribers, topic>>
    BY <1>19 DEF TimeOut
  <2>2. HandledCount(i, r)' = HandledCount(i, r)
    BY <2>1 DEF HandledCount, Audience
  <2> QED
    BY <2>0, <2>1, <2>2, OrderKept
<1> QED
  BY <1>1, <1>2, <1>3, <1>4, <1>5, <1>6, <1>7, <1>8, <1>9, <1>10,
     <1>11, <1>12, <1>13, <1>14, <1>15, <1>16, <1>17, <1>18, <1>19
     DEF Step, Runner, Listener, Waiter, Supervisor

\* Stuttering keeps the invariant.
LEMMA StutterIInv == IInv /\ UNCHANGED vars => IInv'
<1> SUFFICES ASSUME IInv, UNCHANGED vars PROVE IInv'
  OBVIOUS
<1>1. TypeOK'
  BY DEF IInv, TypeOK, vars, startVars, listenVars, noteVars
<1>2. QueueInv'
  BY DEF IInv, QueueInv, JobQueueInv, vars, startVars, listenVars, noteVars
<1>3. HandOffInv'
  BY DEF IInv, HandOffInv, OneHandOffInv, Audience, vars, startVars,
         listenVars, noteVars
<1>4. OrderInv'
  <2> SUFFICES ASSUME NEW i \in Jobs, NEW r \in Prompt
               PROVE  InOrderUpTo(handled[i][r], HandledCount(i, r))'
    BY DEF OrderInv
  <2>1. InOrderUpTo(handled[i][r], HandledCount(i, r))
    BY DEF IInv, OrderInv
  <2>2. /\ HandledCount(i, r)' = HandledCount(i, r)
        /\ handled' = handled
    BY DEF HandledCount, Audience, vars, startVars, listenVars, noteVars
  <2> QED
    BY <2>1, <2>2, OrderKept
<1> QED
  BY <1>1, <1>2, <1>3, <1>4 DEF IInv

\* IInv holds in every reachable state of the engine.
THEOREM Invariance == Spec => []IInv
<1>1. IInv /\ [Next]_vars => IInv'
  BY TypeStep, QueueStep, HandOffStep, OrderStep, StutterIInv DEF Next, IInv
<1> QED
  BY InitIInv, <1>1, PTL DEF Spec

\* The variables keep their types, and no channel outgrows its buffer.
THEOREM TypeCorrect == Spec => []TypeOK
<1>1. IInv => TypeOK
  BY DEF IInv
<1> QED
  BY Invariance, <1>1, PTL

\* The listener hands off one message of a job at a time, whatever the
\* subscribers do (work_engine.go, the wg.Wait of the listener).
THEOREM OneAtATime == Spec => []OneHandOffAtATime
<1>1. IInv => OneHandOffAtATime
  BY DEF IInv, HandOffInv, OneHandOffInv, OneHandOffAtATime
<1> QED
  BY Invariance, <1>1, PTL

\* A subscriber that keeps the deadline handles the messages of every job in
\* the order they were sent, none lost and none twice, however slow others are.
THEOREM PromptInOrder == Spec => []HandledInOrder
<1>1. IInv => HandledInOrder
  <2> SUFFICES ASSUME IInv, NEW j \in Jobs, NEW s \in Prompt
               PROVE  InOrderUpTo(handled[j][s], Len(handled[j][s]))
    BY DEF HandledInOrder
  <2> DEFINE n == HandledCount(j, s)
  <2>1. handled[j][s] = [i \in 1 .. n |-> i]
    BY DEF IInv, OrderInv, InOrderUpTo
  <2>2. n \in Nat
    BY DEF IInv, TypeOK, HandledCount
  <2>3. Len(handled[j][s]) = n
    BY <2>1, <2>2
  <2> QED
    BY <2>1, <2>3 DEF InOrderUpTo
<1> QED
  BY Invariance, <1>1, PTL

-----------------------------------------------------------------------------
(* The engine implements JobDelivery.                                      *)

AudienceMap == [j \in Jobs |-> Audience(j) \ Slow]
HandledMap == [j \in Jobs |-> [s \in Prompt |-> handled[j][s]]]

\* A step that changes nothing the abstract specification sees is a stutter,
\* unless the process dies in it.
LEMMA Invisible ==
  ASSUME AudienceMap' = AudienceMap, sent' = sent, HandledMap' = HandledMap,
         crash = "none"
  PROVE  [Delivery!Next]_(Delivery!vars)
<1>1. CASE crash' = "none"
  BY <1>1 DEF Delivery!vars, AudienceMap, HandledMap
<1>2. CASE crash' # "none"
  <2>1. Delivery!Die
    BY <1>2 DEF Delivery!Die, AudienceMap, HandledMap
  <2> QED
    BY <2>1 DEF Delivery!Next
<1> QED
  BY <1>1, <1>2

\* The audiences seen by JobDelivery move only when a job is started.
LEMMA AudienceMapKept ==
  ASSUME \/ UNCHANGED <<subscribers, topic>>
         \/ \A j \in Jobs : topic[j] = NoTopic /\ topic'[j] = NoTopic
  PROVE  AudienceMap' = AudienceMap
BY DEF AudienceMap, Audience

\* The engine starts where JobDelivery starts: no audience, nothing handled.
LEMMA InitDelivery == Init => Delivery!Init
<1> SUFFICES ASSUME Init PROVE Delivery!Init
  OBVIOUS
<1>1. AudienceMap = [j \in Jobs |-> {}]
  BY DEF Init, AudienceMap, Audience
<1>2. HandledMap = [j \in Jobs |-> [s \in Prompt |-> <<>>]]
  BY DEF Init, HandledMap, Prompt
<1>3. sent = [j \in Jobs |-> 0] /\ crash = "none"
  BY DEF Init
<1> QED
  BY <1>1, <1>2, <1>3 DEF Delivery!Init, AudienceMap, HandledMap

\* Every step of the engine is a step of JobDelivery, or one it does not see.
LEMMA StepDelivery ==
  ASSUME IInv, crash = "none", Step
  PROVE  [Delivery!Next]_(Delivery!vars)
<1>0. TypeOK /\ QueueInv /\ HandOffInv /\ OrderInv
  BY DEF IInv
<1>1. ASSUME NEW s \in Subscribers, NEW t \in Topics, AttachSubscriber(s, t)
      PROVE  [Delivery!Next]_(Delivery!vars)
  <2>1. \A j \in Jobs : topic[j] = NoTopic /\ topic'[j] = NoTopic
    BY <1>0, <1>1 DEF AttachSubscriber, QueueInv, JobQueueInv
  <2>2. UNCHANGED <<sent, handled>>
    BY <1>1 DEF AttachSubscriber, noteVars
  <2> QED
    BY <2>1, <2>2, AudienceMapKept, Invisible DEF HandledMap
<1>2. ASSUME NEW j \in Jobs, NEW t \in Topics, StartJob(j, t)
      PROVE  [Delivery!Next]_(Delivery!vars)
  <2>1. /\ topic[j] = NoTopic /\ sent[j] = 0
        /\ topic' = [topic EXCEPT ![j] = t]
        /\ UNCHANGED <<subscribers, sent, handled, crash>>
    BY <1>0, <1>2
       DEF StartJob, RunnerMoves, QueueInv, JobQueueInv, Unopened, noteVars
  <2>2. AudienceMap[j] = {}
    BY <2>1 DEF AudienceMap, Audience
  <2>3. topic'[j] = t /\ t # NoTopic /\ \A i \in Jobs \ {j} : topic'[i] = topic[i]
    BY <1>0, <2>1 DEF TypeOK
  <2>4. subscribers[t] \ Slow \in SUBSET Prompt
    BY <1>0 DEF TypeOK, Prompt
  <2>5. AudienceMap' = [AudienceMap EXCEPT ![j] = subscribers[t] \ Slow]
    BY <2>1, <2>3 DEF AudienceMap, Audience
  <2>6. Delivery!Open(j)
    BY <2>1, <2>2, <2>4, <2>5 DEF Delivery!Open, AudienceMap
  <2> QED
    BY <2>6 DEF Delivery!Next
<1>3. ASSUME NEW j \in Jobs, RejectJob(j)
      PROVE  [Delivery!Next]_(Delivery!vars)
  <2>1. UNCHANGED <<subscribers, topic, sent, handled>>
    BY <1>3 DEF RejectJob, startVars, noteVars
  <2> QED
    BY <2>1, AudienceMapKept, Invisible DEF HandledMap
<1>4. ASSUME NEW j \in Jobs, SendProgress(j) \/ SendFinal(j)
      PROVE  [Delivery!Next]_(Delivery!vars)
  <2>1. sent[j] < MaxMsgs /\ Send(j)
    BY <1>0, <1>4
       DEF SendProgress, SendFinal, RunnerMoves, QueueInv, JobQueueInv
  <2>2. UNCHANGED <<subscribers, topic, handled, crash>>
    BY <2>1 DEF Send, startVars, noteVars
  <2>3. AudienceMap' = AudienceMap
    BY <2>2, AudienceMapKept
  <2>4. Delivery!Publish(j)
    BY <2>1, <2>2, <2>3 DEF Delivery!Publish, Send, AudienceMap
  <2> QED
    BY <2>4 DEF Delivery!Next
<1>5. ASSUME NEW j \in Jobs,
             \/ BeginOpen(j) \/ EndOpen(j) \/ CloseChannel(j) \/ EndDelete(j)
             \/ Listener(j)
      PROVE  [Delivery!Next]_(Delivery!vars)
  <2>1. UNCHANGED <<subscribers, topic, sent, handled>>
    BY <1>5 DEF BeginOpen, EndOpen, CloseChannel, EndDelete, Listener, Receive,
                AwaitBatch, ListenerExits, startVars, noteVars
  <2> QED
    BY <2>1, AudienceMapKept, Invisible DEF HandledMap
<1>6. ASSUME NEW j \in Jobs, NEW k \in MsgNo, NEW s \in Subscribers,
             Notify(j, k, s)
      PROVE  [Delivery!Next]_(Delivery!vars)
  <2>1. /\ handled' = [handled EXCEPT ![j][s] = Append(handled[j][s], k)]
        /\ handled \in [Jobs -> [Subscribers -> Seq(MsgNo)]]
        /\ waiter[j][k][s] = "notify"
        /\ UNCHANGED <<subscribers, topic, sent, crash>>
    BY <1>0, <1>6 DEF Notify, TypeOK, startVars
  <2>2. AudienceMap' = AudienceMap
    BY <2>1, AudienceMapKept
  <2>3. CASE s \in Slow
    <3>1. HandledMap' = HandledMap
      BY <2>1, <2>3 DEF HandledMap, Prompt
    <3> QED
      BY <2>1, <2>2, <3>1, Invisible
  <2>4. CASE s \notin Slow
    <3>1. s \in Prompt /\ k = msg[j] /\ s \in Audience(j)
      BY <1>0, <2>1, <2>4 DEF HandOffInv, OneHandOffInv, Prompt
    <3>2. HandledCount(j, s) = k - 1
      BY <2>1, <3>1 DEF HandledCount
    <3>3. handled[j][s] = [i \in 1 .. k - 1 |-> i]
      BY <1>0, <3>1, <3>2 DEF OrderInv, InOrderUpTo
    <3>4. Len(handled[j][s]) = k - 1
      BY <3>3
    <3>5. k <= sent[j]
      BY <1>0, <3>1 DEF QueueInv, JobQueueInv
    <3>6. HandledMap' = [HandledMap EXCEPT
                           ![j][s] = Append(handled[j][s], Len(handled[j][s]) + 1)]
      <4>1. HandledMap'[j] =
              [HandledMap[j] EXCEPT ![s] = Append(handled[j][s], k)]
        BY <2>1, <3>1 DEF HandledMap, Prompt
      <4>2. \A i \in Jobs \ {j} : HandledMap'[i] = HandledMap[i]
        BY <2>1 DEF HandledMap, Prompt
      <4>3. k = Len(handled[j][s]) + 1
        BY <3>4
      <4> QED
        BY <4>1, <4>2, <4>3 DEF HandledMap
    <3>7. sent[j] \in Nat
      BY <1>0 DEF TypeOK
    <3>8. HandledMap[j][s] = handled[j][s]
      BY <3>1 DEF HandledMap
    <3>9. s \in AudienceMap[j] /\ Len(HandledMap[j][s]) < sent[j]
      BY <2>4, <3>1, <3>4, <3>5, <3>7, <3>8 DEF AudienceMap
    <3>10. HandledMap' = [HandledMap EXCEPT
                            ![j][s] = Append(HandledMap[j][s],
                                             Len(HandledMap[j][s]) + 1)]
      BY <3>6, <3>8
    <3>11. Delivery!Handle(j, s)
      BY <2>1, <2>2, <3>9, <3>10 DEF Delivery!Handle, HandledMap, AudienceMap
    <3> QED
      BY <3>1, <3>11 DEF Delivery!Next
  <2> QED
    BY <2>3, <2>4
<1>7. ASSUME NEW j \in Jobs, NEW k \in MsgNo, NEW s \in Subscribers,
             \/ WaiterSignals(j, k, s) \/ WaiterGivesUp(j, k, s)
             \/ Signal(j, k, s) \/ Supervisor(j, k, s) \/ TimeOut(j, k, s)
      PROVE  [Delivery!Next]_(Delivery!vars)
  <2>1. UNCHANGED <<subscribers, topic, sent, handled>>
    BY <1>7 DEF WaiterSignals, WaiterGivesUp, Signal, Supervisor, GiveUp,
                CloseSignal, TimeOut, startVars
  <2> QED
    BY <2>1, AudienceMapKept, Invisible DEF HandledMap
<1> QED
  BY <1>1, <1>2, <1>3, <1>4, <1>5, <1>6, <1>7 DEF Step, Runner, Waiter

\* Towards its prompt subscribers the engine implements the safety part of
\* JobDelivery: the channels, goroutines and timers only reorder nothing.
THEOREM ImplementsDelivery ==
  Spec => Delivery!Init /\ [][Delivery!Next]_(Delivery!vars)
<1>1. IInv /\ [Next]_vars => [Delivery!Next]_(Delivery!vars)
  <2> SUFFICES ASSUME IInv, [Next]_vars
               PROVE  [Delivery!Next]_(Delivery!vars)
    OBVIOUS
  <2>1. CASE Next
    BY <2>1, StepDelivery DEF Next
  <2>2. CASE UNCHANGED vars
    BY <2>2 DEF vars, startVars, noteVars, Delivery!vars, Audience
  <2> QED
    BY <2>1, <2>2
<1> QED
  BY InitDelivery, Invariance, <1>1, PTL DEF Spec

=============================================================================

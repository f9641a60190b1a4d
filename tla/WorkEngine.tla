---------------------------- MODULE WorkEngine ----------------------------
(***************************************************************************)
(* The broker's work engine (pkg/broker/work_engine.go).  A started job is *)
(* one goroutine that runs the job and sends its messages into a buffered  *)
(* channel made for that job, and a listener goroutine that takes them out *)
(* one at a time.  For each message the listener starts, per subscriber of *)
(* the job's topic, a supervisor goroutine with a deadline, which starts a *)
(* waiter goroutine that calls the subscriber's Notify.  The listener      *)
(* takes the next message when every supervisor has called wg.Done.        *)
(*                                                                         *)
(* A job is identified with its token (Token() is a fresh UUID), a message *)
(* with its number in the order of the job's sends; the last one sent is   *)
(* the job's terminal message.  Each action is what a goroutine does       *)
(* between two points where another can observe or disturb it.             *)
(***************************************************************************)
EXTENDS Naturals, Sequences

CONSTANTS
  Jobs,         \* the jobs that may be started
  Subscribers,  \* what AttachSubscriber may attach
  Slow,         \* the subscribers whose Notify may overrun subscriberTimeout
  Topics,       \* the valid work topics
  NoTopic,      \* stands for an unset or invalid topic
  BufferSize,   \* jobBufferSize: capacity of a job's channel
  MaxMsgs       \* bound: messages one job sends, the terminal one included

ASSUME EngineAssumption ==
  /\ Slow \subseteq Subscribers
  /\ NoTopic \notin Topics
  /\ BufferSize \in Nat \ {0}
  /\ MaxMsgs \in Nat \ {0}

MsgNo == 1 .. MaxMsgs

\* A hand-off is message k of job j going to subscriber s: g[j][k][s] is what
\* one of its goroutines does.
HandOffs(S) == [Jobs -> [MsgNo -> [Subscribers -> S]]]
Every(v) == [j \in Jobs |-> [k \in MsgNo |-> [s \in Subscribers |-> v]]]

VARIABLES
  subscribers,  \* engine.subscribers: topic -> the attached subscribers
  jobChannels,  \* the tokens that are keys of engine.jobChannels
  topic,        \* topic[j]: the topic job j reports to
  runner,       \* runner[j]: where the goroutine that runs job j is
  sent,         \* sent[j]: messages job j has put into its channel
  channel,      \* channel[j]: the buffered messages, oldest first
  listener,     \* listener[j]: where the listener goroutine of j is
  msg,          \* msg[j]: the listener's loop variable, 0 before the first
  supervisor,   \* supervisor[j][k][s]: the goroutine that holds the deadline
  waiter,       \* waiter[j][k][s]: the goroutine that calls Notify
  expired,      \* expired[j][k][s]: the deadline has passed
  handled,      \* handled[j][s]: messages of j whose Notify s has executed
  crash         \* why the process died, "none" while it lives

startVars == <<subscribers, topic>>
listenVars == <<listener, msg>>
noteVars == <<supervisor, waiter, expired, handled>>
vars == <<startVars, jobChannels, runner, sent, channel, listenVars, noteVars,
          crash>>

RunnerPC == {"idle", "rejected", "ready", "opening", "running", "ended",
             "closing", "returned"}
ListenerPC == {"none", "receiving", "waiting", "done"}
SupervisorPC == {"none", "select", "leaving", "done"}
WaiterPC == {"none", "notify", "select", "send", "done"}
Crashes == {"none", "send on closed channel", "concurrent map writes"}

TypeOK ==
  /\ subscribers \in [Topics -> SUBSET Subscribers]
  /\ jobChannels \subseteq Jobs
  /\ topic \in [Jobs -> Topics \union {NoTopic}]
  /\ runner \in [Jobs -> RunnerPC]
  /\ sent \in [Jobs -> 0 .. MaxMsgs]
  /\ channel \in [Jobs -> Seq(MsgNo)]
  /\ \A j \in Jobs : Len(channel[j]) <= BufferSize
  /\ listener \in [Jobs -> ListenerPC]
  /\ msg \in [Jobs -> 0 .. MaxMsgs]
  /\ supervisor \in HandOffs(SupervisorPC)
  /\ waiter \in HandOffs(WaiterPC)
  /\ expired \in HandOffs(BOOLEAN)
  /\ handled \in [Jobs -> [Subscribers -> Seq(MsgNo)]]
  /\ crash \in Crashes

-----------------------------------------------------------------------------
Init ==
  /\ subscribers = [t \in Topics |-> {}]
  /\ jobChannels = {}
  /\ topic = [j \in Jobs |-> NoTopic]
  /\ runner = [j \in Jobs |-> "idle"]
  /\ sent = [j \in Jobs |-> 0]
  /\ channel = [j \in Jobs |-> <<>>]
  /\ listener = [j \in Jobs |-> "none"]
  /\ msg = [j \in Jobs |-> 0]
  /\ supervisor = Every("none")
  /\ waiter = Every("none")
  /\ expired = Every(FALSE)
  /\ handled = [j \in Jobs |-> [s \in Subscribers |-> <<>>]]
  /\ crash = "none"

\* A plausible slip: runJob leaves the channel open.
LeftOpen(j) == FALSE

\* close(jobChannel) has happened.
Closed(j) == runner[j] \in {"closing", "returned"}

\* The audience of a job: engine.subscribers[topic].
Audience(j) == IF topic[j] = NoTopic THEN {} ELSE subscribers[topic[j]]

\* Job j's runner moves from one point to the next.
RunnerMoves(j, from, to) ==
  /\ runner[j] = from
  /\ runner' = [runner EXCEPT ![j] = to]

-----------------------------------------------------------------------------
(* Starting a job.                                                         *)

\* The application attaches its subscribers while it is being built, before
\* it serves the first request.
AttachSubscriber(s, t) ==
  /\ \A j \in Jobs : runner[j] = "idle"
  /\ s \notin subscribers[t]
  /\ subscribers' = [subscribers EXCEPT ![t] = @ \union {s}]
  /\ UNCHANGED <<topic, jobChannels, runner, sent, channel, listenVars,
                 noteVars, crash>>

\* The topic is valid and setupJob has recorded "not yet started".  An
\* asynchronous start spawns the runner goroutine here and returns; in a
\* synchronous one the caller is the runner.
StartJob(j, t) ==
  /\ RunnerMoves(j, "idle", "ready")
  /\ topic' = [topic EXCEPT ![j] = t]
  /\ UNCHANGED <<subscribers, jobChannels, sent, channel, listenVars, noteVars,
                 crash>>

\* An invalid topic, or setupJob's SetState failed: no job.
RejectJob(j) ==
  /\ RunnerMoves(j, "idle", "rejected")
  /\ UNCHANGED <<startVars, jobChannels, sent, channel, listenVars, noteVars,
                 crash>>

-----------------------------------------------------------------------------
(* The runner goroutine: runJob and work.Run.                              *)

\* engine.jobChannels is a plain Go map that no lock guards.  A write that
\* overlaps another goroutine's may kill the process, or pass unnoticed.
MapWrite(j) ==
  \/ UNCHANGED crash
  \/ /\ \E i \in Jobs \ {j} : runner[i] \in {"opening", "closing"}
     /\ crash' = "concurrent map writes"

BeginOpen(j) ==
  /\ RunnerMoves(j, "ready", "opening")
  /\ MapWrite(j)
  /\ UNCHANGED <<startVars, jobChannels, sent, channel, listenVars, noteVars>>

\* The map write ends, the listener goroutine is spawned, work.Run begins.
EndOpen(j) ==
  /\ RunnerMoves(j, "opening", "running")
  /\ jobChannels' = jobChannels \union {j}
  /\ listener' = [listener EXCEPT ![j] = "receiving"]
  /\ UNCHANGED <<startVars, sent, channel, msg, noteVars, crash>>

\* A plausible slip: one message too many fits.
HasRoomForOneMore(j) == Len(channel[j]) <= BufferSize

HasRoom(j) == Len(channel[j]) < BufferSize

\* `msgBuffer <- m` blocks while the buffer is full.
Send(j) ==
  /\ HasRoom(j)
  /\ sent' = [sent EXCEPT ![j] = @ + 1]
  /\ channel' = [channel EXCEPT ![j] = Append(@, sent[j] + 1)]
  /\ UNCHANGED <<startVars, jobChannels, listenVars, noteVars, crash>>

\* An "in progress" message, forwarded while the bundle runs.
SendProgress(j) ==
  /\ runner[j] = "running"
  /\ sent[j] + 1 < MaxMsgs
  /\ UNCHANGED runner
  /\ Send(j)

\* The one succeeded or failed message that Run ends with.
SendFinal(j) ==
  /\ RunnerMoves(j, "running", "ended")
  /\ Send(j)

\* runJob's deferred function: close the channel, begin to delete its key.
CloseChannel(j) ==
  /\ RunnerMoves(j, "ended", "closing")
  /\ MapWrite(j)
  /\ UNCHANGED <<startVars, jobChannels, sent, channel, listenVars, noteVars>>

EndDelete(j) ==
  /\ RunnerMoves(j, "closing", "returned")
  /\ jobChannels' = jobChannels \ {j}
  /\ UNCHANGED <<startVars, sent, channel, listenVars, noteVars, crash>>

-----------------------------------------------------------------------------
(* The listener goroutine: range over the channel, hand off, wait.         *)

\* Message k of job j is handed off to the job's audience.
HandedOff(g, j, k, to) ==
  [g EXCEPT ![j][k] =
     [s \in Subscribers |-> IF s \in Audience(j) THEN to ELSE @[s]]]

Receive(j) ==
  /\ listener[j] = "receiving"
  /\ channel[j] # <<>>
  /\ msg' = [msg EXCEPT ![j] = Head(channel[j])]
  /\ channel' = [channel EXCEPT ![j] = Tail(@)]
  /\ listener' = [listener EXCEPT ![j] = "waiting"]
  /\ supervisor' = HandedOff(supervisor, j, Head(channel[j]), "select")
  /\ waiter' = HandedOff(waiter, j, Head(channel[j]), "notify")
  /\ UNCHANGED <<startVars, jobChannels, runner, sent, expired, handled, crash>>

\* A plausible slip: wg.Wait left out.
BatchNotAwaited(j) == TRUE

\* A plausible slip: one wg.Add for the whole hand-off, so the first subscriber
\* to finish releases the listener.
OneOfBatchDone(j) ==
  \/ Audience(j) = {}
  \/ \E s \in Audience(j) : supervisor[j][msg[j]][s] \in {"leaving", "done"}

\* Every supervisor of the current hand-off has called wg.Done.
BatchDone(j) ==
  \A s \in Audience(j) : supervisor[j][msg[j]][s] \in {"leaving", "done"}

\* wg.Wait returns.
AwaitBatch(j) ==
  /\ listener[j] = "waiting"
  /\ BatchDone(j)
  /\ listener' = [listener EXCEPT ![j] = "receiving"]
  /\ UNCHANGED <<startVars, jobChannels, runner, sent, channel, msg, noteVars,
                 crash>>

\* A plausible slip: the listener stops at the close, as a select on a done
\* channel would, and forgets what is still buffered.
DrainedAtClose(j) == Closed(j)

\* range ends when the channel is closed and its buffer empty.
Drained(j) == Closed(j) /\ channel[j] = <<>>

ListenerExits(j) ==
  /\ listener[j] = "receiving"
  /\ Drained(j)
  /\ listener' = [listener EXCEPT ![j] = "done"]
  /\ UNCHANGED <<startVars, jobChannels, runner, sent, channel, msg, noteVars,
                 crash>>

-----------------------------------------------------------------------------
(* One hand-off: the waiter goroutine and its supervisor.                  *)

\* sub.Notify(msg) runs.
Notify(j, k, s) ==
  /\ waiter[j][k][s] = "notify"
  /\ waiter' = [waiter EXCEPT ![j][k][s] = "select"]
  /\ handled' = [handled EXCEPT ![j][s] = Append(@, k)]
  /\ UNCHANGED <<startVars, jobChannels, runner, sent, channel, listenVars,
                 supervisor, expired, crash>>

\* The waiter's select: ctx.Done is not ready, on to `signal <- struct{}{}`.
WaiterSignals(j, k, s) ==
  /\ waiter[j][k][s] = "select"
  /\ ~expired[j][k][s]
  /\ waiter' = [waiter EXCEPT ![j][k][s] = "send"]
  /\ UNCHANGED <<startVars, jobChannels, runner, sent, channel, listenVars,
                 supervisor, expired, handled, crash>>

\* The waiter's select: ctx.Done is ready.
WaiterGivesUp(j, k, s) ==
  /\ waiter[j][k][s] = "select"
  /\ expired[j][k][s]
  /\ waiter' = [waiter EXCEPT ![j][k][s] = "done"]
  /\ UNCHANGED <<startVars, jobChannels, runner, sent, channel, listenVars,
                 supervisor, expired, handled, crash>>

\* The deadline of a hand-off to a slow subscriber passes.
TimeOut(j, k, s) ==
  /\ s \in Slow
  /\ supervisor[j][k][s] = "select"
  /\ ~expired[j][k][s]
  /\ expired' = [expired EXCEPT ![j][k][s] = TRUE]
  /\ UNCHANGED <<startVars, jobChannels, runner, sent, channel, listenVars,
                 supervisor, waiter, handled, crash>>

\* The unbuffered signal is sent and received in one step; the supervisor
\* returns, and its first deferred call is wg.Done.
Signal(j, k, s) ==
  /\ waiter[j][k][s] = "send"
  /\ supervisor[j][k][s] = "select"
  /\ waiter' = [waiter EXCEPT ![j][k][s] = "done"]
  /\ supervisor' = [supervisor EXCEPT ![j][k][s] = "leaving"]
  /\ UNCHANGED <<startVars, jobChannels, runner, sent, channel, listenVars,
                 expired, handled, crash>>

\* A plausible slip: no case for ctx.Done, the supervisor waits for Notify.
TimesOutNever(j, k, s) == FALSE

TimesOut(j, k, s) == expired[j][k][s]

\* The supervisor's select takes ctx.Done (also when the waiter is ready).
GiveUp(j, k, s) ==
  /\ supervisor[j][k][s] = "select"
  /\ TimesOut(j, k, s)
  /\ supervisor' = [supervisor EXCEPT ![j][k][s] = "leaving"]
  /\ UNCHANGED <<startVars, jobChannels, runner, sent, channel, listenVars,
                 waiter, expired, handled, crash>>

\* close(notifySignal): a goroutine blocked in a send on it panics, and no one
\* recovers, so the process dies.
CloseSignal(j, k, s) ==
  /\ supervisor[j][k][s] = "leaving"
  /\ supervisor' = [supervisor EXCEPT ![j][k][s] = "done"]
  /\ crash' = IF waiter[j][k][s] = "send"
                THEN "send on closed channel" ELSE crash
  /\ UNCHANGED <<startVars, jobChannels, runner, sent, channel, listenVars,
                 waiter, expired, handled>>

-----------------------------------------------------------------------------
Runner(j) ==
  \/ BeginOpen(j) \/ EndOpen(j) \/ SendProgress(j) \/ SendFinal(j)
  \/ CloseChannel(j) \/ EndDelete(j)

Listener(j) == Receive(j) \/ AwaitBatch(j) \/ ListenerExits(j)

Waiter(j, k, s) ==
  \/ Notify(j, k, s) \/ WaiterSignals(j, k, s) \/ WaiterGivesUp(j, k, s)
  \/ Signal(j, k, s)

Supervisor(j, k, s) == GiveUp(j, k, s) \/ CloseSignal(j, k, s)

Step ==
  \/ \E s \in Subscribers, t \in Topics : AttachSubscriber(s, t)
  \/ \E j \in Jobs, t \in Topics : StartJob(j, t)
  \/ \E j \in Jobs : RejectJob(j) \/ Runner(j) \/ Listener(j)
  \/ \E j \in Jobs, k \in MsgNo, s \in Subscribers :
       Waiter(j, k, s) \/ Supervisor(j, k, s) \/ TimeOut(j, k, s)

\* Nothing moves in a dead process.
Next == crash = "none" /\ Step

\* The Go scheduler runs every runnable goroutine and time passes.  Nothing
\* is assumed of the requests that start jobs, of the bundle a job runs (it
\* may run for ever) or of a slow subscriber's Notify (it may hang).
Fairness ==
  /\ \A j \in Jobs :
       /\ WF_vars(crash = "none" /\ (BeginOpen(j) \/ EndOpen(j)))
       /\ WF_vars(crash = "none" /\ (CloseChannel(j) \/ EndDelete(j)))
       /\ WF_vars(crash = "none" /\ Listener(j))
  /\ \A j \in Jobs, k \in MsgNo, s \in Subscribers :
       /\ s \notin Slow => WF_vars(crash = "none" /\ Notify(j, k, s))
       /\ WF_vars(crash = "none" /\ WaiterSignals(j, k, s))
       /\ WF_vars(crash = "none" /\ WaiterGivesUp(j, k, s))
       /\ WF_vars(crash = "none" /\ (Signal(j, k, s) \/ GiveUp(j, k, s)))
       /\ WF_vars(crash = "none" /\ CloseSignal(j, k, s))
       /\ WF_vars(crash = "none" /\ TimeOut(j, k, s))

Spec == Init /\ [][Next]_vars /\ Fairness

-----------------------------------------------------------------------------
(* Properties.                                                             *)

Prompt == Subscribers \ Slow

InOrderUpTo(seq, k) == seq = [i \in 1 .. k |-> i]

\* A subscriber that keeps the deadline handles the messages of a job in the
\* order they were sent, none lost and none twice, however late the other
\* subscribers of the job are (the listener hands off one message at a time).
HandledInOrder ==
  \A j \in Jobs, s \in Prompt : InOrderUpTo(handled[j][s], Len(handled[j][s]))

\* At most one message of a job is being supervised: the listener takes no
\* message while a subscriber of the previous one is neither done nor late.
OneHandOffAtATime ==
  \A j \in Jobs, k, l \in MsgNo, r, s \in Subscribers :
    supervisor[j][k][r] = "select" /\ supervisor[j][l][s] = "select" => k = l

\* A subscriber that hangs does not lock a job up: every message that was sent
\* is taken from the channel and handed off in the end.
EveryMessageHandedOff ==
  \A j \in Jobs, k \in MsgNo :
    sent[j] >= k ~> msg[j] >= k \/ crash # "none"

\* Once Run has returned, the listener goroutine of the job exits, whatever its
\* subscribers do: no finished job leaks its listener.
ListenerFinishes ==
  \A j \in Jobs : runner[j] = "ended" ~> listener[j] = "done" \/ crash # "none"

\* work_engine.go:79 says "avoid sending on a closed channel if the context is
\* done": no waiter is caught in its send when the supervisor closes the signal.
NoSendOnClosedChannel == crash # "send on closed channel"

-----------------------------------------------------------------------------
(* Why the properties hold: the inductive invariant.                       *)

Unopened == {"idle", "rejected", "ready", "opening"}

\* The channel holds exactly the messages sent and not yet taken, in order.
JobQueueInv(j) ==
  /\ listener[j] = "none" <=> runner[j] \in Unopened
  /\ topic[j] = NoTopic <=> runner[j] \in {"idle", "rejected"}
  /\ runner[j] \in Unopened => sent[j] = 0
  /\ runner[j] = "running" => sent[j] < MaxMsgs
  /\ msg[j] <= sent[j]
  /\ Len(channel[j]) = sent[j] - msg[j]
  /\ \A i \in 1 .. Len(channel[j]) : channel[j][i] = msg[j] + i

QueueInv == \A j \in Jobs : JobQueueInv(j)

\* The messages handed off are those taken; only the last one is supervised,
\* and no goroutine of a prompt hand-off outlives its supervisor's wait.
OneHandOffInv(j, k, s) ==
  /\ supervisor[j][k][s] = "none" <=> waiter[j][k][s] = "none"
  /\ supervisor[j][k][s] # "none" <=> s \in Audience(j) /\ k <= msg[j]
  /\ supervisor[j][k][s] = "select" => k = msg[j] /\ listener[j] = "waiting"
  /\ s \notin Slow =>
       /\ ~expired[j][k][s]
       /\ waiter[j][k][s] \in {"notify", "select", "send"} =>
            supervisor[j][k][s] = "select"

HandOffInv ==
  \A j \in Jobs, k \in MsgNo, s \in Subscribers : OneHandOffInv(j, k, s)

\* How many messages of j the prompt subscriber s has handled: all those taken,
\* but the last one while its Notify has not run.
HandledCount(j, s) ==
  IF s \notin Audience(j) \/ msg[j] = 0 THEN 0
  ELSE IF waiter[j][msg[j]][s] = "notify" THEN msg[j] - 1 ELSE msg[j]

OrderInv ==
  \A j \in Jobs, s \in Prompt : InOrderUpTo(handled[j][s], HandledCount(j, s))

IInv == TypeOK /\ QueueInv /\ HandOffInv /\ OrderInv

-----------------------------------------------------------------------------
(* The engine implements JobDelivery towards its prompt subscribers.       *)

Delivery == INSTANCE JobDelivery WITH
  Subscribers <- Prompt,
  audience <- [j \in Jobs |-> Audience(j) \ Slow],
  sent <- sent,
  handled <- [j \in Jobs |-> [s \in Prompt |-> handled[j][s]]],
  up <- crash = "none"

\* Towards the subscribers that keep the deadline, the channel, the hand-offs
\* and the timers of the engine amount to JobDelivery: every message once, in order,
\* and none forgotten when the channel is closed with messages still in it.
DeliverySpec == Delivery!Spec
=============================================================================

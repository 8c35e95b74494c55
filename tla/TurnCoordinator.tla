--------------------------- MODULE TurnCoordinator ---------------------------
(***************************************************************************)
(* sub-character-stage: TurnCoordinator merges the audio and the           *)
(* expression of a character turn, which voice and face publish on their   *)
(* own, and plays the turn on stage; an audio whose expression does not    *)
(* come within the merge timeout is played alone.                          *)
(*                                                                         *)
(* The consumer thread and the threading.Timer threads share _pending and  *)
(* _timers under one lock, which is held while the driver plays: each      *)
(* locked section is one action.  Timer.cancel only stops a thread that is *)
(* still waiting; one that is past its wait calls _on_timeout whatever     *)
(* happens to its entry in _timers.                                        *)
(***************************************************************************)
EXTENDS Integers, Sequences

CONSTANTS Turn,
          Stage,       \* the consumer process (one: its process lock)
          Nothing,     \* no message
          MaxPublished, \* bound: events published, repetitions included
          MaxFaults    \* bound: kills, interrupts, failing plays

Parts   == {"audio", "expression"}
Event   == [turn : Turn, part : Parts]
NoTimer == 0

ASSUME StageAssumption ==
    /\ Nothing \notin Event
    /\ MaxPublished \in Nat
    /\ MaxFaults \in Nat

VARIABLES
    queue, unacked,  \* QUEUE_CHARACTER_STAGE (module Broker)
    pc,              \* the main thread
    pending,         \* _pending: [Turn -> parts seen]; {} is no entry
    timers,          \* _timers: [Turn -> index in threads, or NoTimer]
    threads,         \* the timer threads started, in order
    heard,           \* history: expression handled since the turn last played
    plays,           \* history: calls of play_turn by this process
    published, faults

inbox   == << queue, unacked >>
merge   == << pending, timers, threads >>
history == << heard, plays >>
bounds  == << published, faults >>
vars    == << inbox, pc, merge, history, bounds >>

Inbox == INSTANCE Broker
           WITH Consumer <- {Stage}, Message <- Event, NoMessage <- Nothing

Init ==
    /\ Inbox!BrokerInit
    /\ pc = "down"
    /\ pending = [t \in Turn |-> {}]
    /\ timers = [t \in Turn |-> NoTimer]
    /\ threads = << >>
    /\ heard = [t \in Turn |-> FALSE]
    /\ plays = << >>
    /\ published = 0
    /\ faults = 0

\* Everything the process had in memory is gone.
Forget ==
    /\ pending' = [t \in Turn |-> {}]
    /\ timers' = [t \in Turn |-> NoTimer]
    /\ threads' = << >>
    /\ heard' = [t \in Turn |-> FALSE]
    /\ plays' = << >>

-----------------------------------------------------------------------------
(* The main thread: consume_messages, handle, close *)

Start ==
    /\ pc = "down"
    /\ pc' = "idle"
    /\ UNCHANGED << inbox, merge, history, bounds >>

Receive ==
    /\ pc = "idle"
    /\ Inbox!Deliver(Stage)
    /\ pc' = "handle"
    /\ UNCHANGED << merge, history, bounds >>

\* The turn in hand, and its parts once _update has stored the event.
This == unacked[Stage].turn

Seen == pending[This] \cup {unacked[Stage].part}

HeardNow == heard[This] \/ unacked[Stage].part = "expression"

\* play_turn, called by the main thread or by timer thread i; it may raise.
Play(t, merged, knew, by, ok) ==
    /\ pending' = [pending EXCEPT ![t] = {}]
    /\ heard' = [heard EXCEPT ![t] = FALSE]
    /\ plays' = Append(plays, [turn |-> t, merged |-> merged, knew |-> knew,
                               by |-> by, closed |-> pc = "closed"])
    /\ \/ ok /\ UNCHANGED faults
       \/ ~ok /\ faults < MaxFaults /\ faults' = faults + 1

\* An expression without its audio waits, without a timer.
KeepExpression ==
    /\ pc = "handle"
    /\ Seen = {"expression"}
    /\ pending' = [pending EXCEPT ![This] = Seen]
    /\ heard' = [heard EXCEPT ![This] = HeardNow]
    /\ pc' = "ack"
    /\ UNCHANGED << inbox, timers, threads, plays, bounds >>

\* Mutant: a repeated audio restarts the timer and leaves the old one running.
ArmTimerAgain ==
    /\ pc = "handle"
    /\ Seen = {"audio"}
    /\ pending' = [pending EXCEPT ![This] = Seen]
    /\ heard' = [heard EXCEPT ![This] = HeardNow]
    /\ threads' = Append(threads, [turn |-> This, state |-> "waiting"])
    /\ timers' = [timers EXCEPT ![This] = Len(threads) + 1]
    /\ pc' = "ack"
    /\ UNCHANGED << inbox, plays, bounds >>

\* An audio without its expression starts the merge timeout, once.
ArmTimer ==
    /\ pc = "handle"
    /\ Seen = {"audio"}
    /\ pending' = [pending EXCEPT ![This] = Seen]
    /\ heard' = [heard EXCEPT ![This] = HeardNow]
    /\ \/ /\ timers[This] = NoTimer
          /\ threads' = Append(threads, [turn |-> This, state |-> "waiting"])
          /\ timers' = [timers EXCEPT ![This] = Len(threads) + 1]
       \/ /\ timers[This] # NoTimer
          /\ UNCHANGED << threads, timers >>
    /\ pc' = "ack"
    /\ UNCHANGED << inbox, plays, bounds >>

\* Timer.cancel for the threads S: a thread past its wait is not stopped.
Cancelled(S) ==
    [i \in DOMAIN threads |->
        IF i \in S /\ threads[i].state = "waiting"
        THEN [threads[i] EXCEPT !.state = "over"] ELSE threads[i]]

\* Mutant: the timer is cancelled but stays in _timers.
CancelTimerKept(t) ==
    /\ threads' = Cancelled({timers[t]})
    /\ UNCHANGED timers

\* _cancel_timer_locked.
CancelTimer(t) ==
    /\ threads' = Cancelled({timers[t]})
    /\ timers' = [timers EXCEPT ![t] = NoTimer]

\* Both parts are there.  When the driver raises, the message is nacked and
\* the exception ends consume_messages.
MergeParts ==
    /\ pc = "handle"
    /\ Seen = Parts
    /\ CancelTimer(This)
    /\ \E ok \in BOOLEAN :
        /\ Play(This, TRUE, HeardNow, "event", ok)
        /\ \/ ok /\ pc' = "ack" /\ UNCHANGED inbox
           \/ ~ok /\ pc' = "closing" /\ Inbox!Requeue(Stage)
    /\ UNCHANGED published

Done ==
    /\ pc = "ack"
    /\ Inbox!Ack(Stage)
    /\ pc' = "idle"
    /\ UNCHANGED << merge, history, bounds >>

\* Ctrl+C reaches the main thread, which goes to the finally clause of main.
Interrupt ==
    /\ pc \in {"idle", "handle", "ack"}
    /\ faults < MaxFaults
    /\ faults' = faults + 1
    /\ pc' = "closing"
    /\ UNCHANGED << inbox, merge, history, published >>

\* close empties both maps under the lock, cancels what was in _timers and
\* closes the driver; then main closes the connection.
Close ==
    /\ pc = "closing"
    /\ threads' = Cancelled({timers[t] : t \in Turn})
    /\ timers' = [t \in Turn |-> NoTimer]
    /\ pending' = [t \in Turn |-> {}]
    /\ heard' = [t \in Turn |-> FALSE]
    /\ Inbox!Requeue(Stage)
    /\ pc' = "closed"
    /\ UNCHANGED << plays, bounds >>

\* The interpreter joins the timer threads before it exits.
Exit ==
    /\ pc = "closed"
    /\ \A i \in DOMAIN threads : threads[i].state = "over"
    /\ pc' = "down"
    /\ Forget
    /\ UNCHANGED << inbox, bounds >>

Kill ==
    /\ pc # "down"
    /\ faults < MaxFaults
    /\ faults' = faults + 1
    /\ Inbox!Requeue(Stage)
    /\ pc' = "down"
    /\ Forget
    /\ UNCHANGED published

-----------------------------------------------------------------------------
(* The timer threads *)

\* The timeout of thread i has passed; from here on it cannot be cancelled.
Elapse(i) ==
    /\ threads[i].state = "waiting"
    /\ threads' = [threads EXCEPT ![i].state = "due"]
    /\ UNCHANGED << inbox, pc, pending, timers, history, bounds >>

Finished(i) == threads' = [threads EXCEPT ![i].state = "over"]

\* _on_timeout pops the timer of the turn, its own or not.
PopTimer(t) == timers' = [timers EXCEPT ![t] = NoTimer]

\* _on_timeout of a turn that is no longer pending, or has no audio.
TimeoutIdle(i) ==
    /\ threads[i].state = "due"
    /\ "audio" \notin pending[threads[i].turn]
    /\ Finished(i)
    /\ PopTimer(threads[i].turn)
    /\ UNCHANGED << inbox, pc, pending, history, bounds >>

\* Mutant: without an expression the timeout gives up.
TimeoutPlaysMergedOnly(i) ==
    /\ threads[i].state = "due"
    /\ LET t == threads[i].turn
       IN  /\ "audio" \in pending[t]
           /\ Finished(i)
           /\ PopTimer(t)
           /\ \/ /\ pending[t] = Parts
                 /\ Play(t, TRUE, heard[t], "own", TRUE)
              \/ /\ pending[t] # Parts
                 /\ UNCHANGED << pending, history, faults >>
    /\ UNCHANGED << inbox, pc, published >>

\* _on_timeout plays the turn with what is there; an exception of the driver
\* ends only this thread.
TimeoutPlays(i) ==
    /\ threads[i].state = "due"
    /\ LET t == threads[i].turn
       IN  /\ "audio" \in pending[t]
           /\ Finished(i)
           /\ PopTimer(t)
           /\ \E ok \in BOOLEAN :
                Play(t, pending[t] = Parts, heard[t],
                     IF timers[t] = i THEN "own" ELSE "stale", ok)
    /\ UNCHANGED << inbox, pc, published >>

-----------------------------------------------------------------------------
\* voice or face publishes an event, again when character.turn is redelivered.
Produce(e) ==
    /\ published < MaxPublished
    /\ published' = published + 1
    /\ Inbox!Publish(e)
    /\ UNCHANGED << pc, merge, history, faults >>

Main    == Receive \/ KeepExpression \/ ArmTimer \/ MergeParts \/ Done \/ Close \/ Exit
Timer(i) == Elapse(i) \/ TimeoutIdle(i) \/ TimeoutPlays(i)

Next ==
    \/ Start \/ Main \/ Interrupt \/ Kill
    \/ \E i \in DOMAIN threads : Timer(i)
    \/ \E e \in Event : Produce(e)

Spec == Init /\ [][Next]_vars

\* A running process keeps handling events and its timers go off.
FairSpec ==
    /\ Spec
    /\ WF_vars(Main)
    /\ WF_vars(\E i \in DOMAIN threads : Timer(i))

-----------------------------------------------------------------------------
(* Properties *)

Running == pc \in {"idle", "handle", "ack"}
Live(i) == threads[i].state \in {"waiting", "due"}

TypeOK ==
    /\ Inbox!BrokerTypeOK
    /\ pc \in {"down", "idle", "handle", "ack", "closing", "closed"}
    /\ pc \in {"handle", "ack"} => unacked[Stage] # Nothing
    /\ pc \in {"down", "idle", "closed"} => unacked[Stage] = Nothing
    /\ pending \in [Turn -> SUBSET Parts]
    /\ threads \in Seq([turn : Turn, state : {"waiting", "due", "over"}])
    /\ timers \in [Turn -> {NoTimer} \cup DOMAIN threads]
    /\ heard \in [Turn -> BOOLEAN]
    /\ plays \in Seq([turn : Turn, merged : BOOLEAN, knew : BOOLEAN,
                      by : {"event", "own", "stale"}, closed : BOOLEAN])
    /\ published \in 0 .. MaxPublished
    /\ faults \in 0 .. MaxFaults

\* A turn that waits for its expression always has a timer that will still go
\* off: neither a cancellation nor a callback that was already due, nor a
\* repeated event, leaves its audio in _pending for ever.
NeverStuck ==
    \A t \in Turn : "audio" \in pending[t] =>
        \E i \in DOMAIN threads : threads[i].turn = t /\ Live(i)

\* A callback that outlived its cancellation can cut short the wait of a
\* repeated turn only: the first time a turn is played, it is by its second
\* part or by its own timer.
FirstPlayWaits ==
    \A i \in DOMAIN plays : plays[i].by = "stale" =>
        \E j \in 1 .. i - 1 : plays[j].turn = plays[i].turn

\* No turn is played without its expression when the process had it, whatever
\* the order of the events and of the timeout.
NoNeedlessFallback == \A i \in DOMAIN plays : plays[i].merged = plays[i].knew

\* After close nothing reaches the driver, not even from a timer that was
\* already due.
SilentAfterClose == \A i \in DOMAIN plays : ~plays[i].closed

\* Every play had its reason, its moment and all it could have: what a race of
\* events, timer callbacks, cancellations and close could each take from it.
PlaysJustified == FirstPlayWaits /\ NoNeedlessFallback /\ SilentAfterClose

\* While the process stays up, a turn whose audio is in the queue is played,
\* with or without an expression.
AudioWaiting(t) == [turn |-> t, part |-> "audio"] \in Inbox!Held
PlayedTurn(t)   == \E i \in DOMAIN plays : plays[i].turn = t
TurnsPlayed ==
    \A t \in Turn : []([]Running /\ AudioWaiting(t) => <>PlayedTurn(t))
=============================================================================

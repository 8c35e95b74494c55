----------------------- MODULE TurnCoordinator_proofs -----------------------
(***************************************************************************)
(* Proofs about TurnCoordinator, for any number of turns, events, timers   *)
(* and faults.  The two maps of the coordinator say the same thing:        *)
(* a turn is in _timers exactly while its audio is in _pending             *)
(* (TimedIsPending), and what is in _timers is a thread of that turn that  *)
(* can still go off (TimersLive).  So no audio waits for ever.  A thread   *)
(* that can go off and is no longer in _timers lost its place to a play of *)
(* its turn (OrphansPlayed), which is why only a repeated turn can be cut  *)
(* short.                                                                  *)
(***************************************************************************)
EXTENDS TurnCoordinator, SequenceTheorems, TLAPS

Thread == [turn : Turn, state : {"waiting", "due", "over"}]
Played == [turn : Turn, merged : BOOLEAN, knew : BOOLEAN,
           by : {"event", "own", "stale"}, closed : BOOLEAN]

\* What is in _timers is a thread of its turn that can still go off.
TimersLive ==
    \A t \in Turn : timers[t] # NoTimer =>
        threads[timers[t]].turn = t /\ Live(timers[t])

TimedIsPending == \A t \in Turn : timers[t] # NoTimer <=> "audio" \in pending[t]

HeardIsPending == \A t \in Turn : heard[t] <=> "expression" \in pending[t]

ClosedIsEmpty == pc = "closed" => \A t \in Turn : pending[t] = {}

OrphansPlayed ==
    pc # "closed" =>
      \A i \in DOMAIN threads :
          Live(i) /\ timers[threads[i].turn] # i => PlayedTurn(threads[i].turn)

TInv == /\ TypeOK
        /\ TimersLive /\ TimedIsPending /\ HeardIsPending /\ ClosedIsEmpty
        /\ OrphansPlayed /\ PlaysJustified

USE StageAssumption

-----------------------------------------------------------------------------
(* The broker, the threads and the plays *)

\* The operations of the queue keep its types.
LEMMA InboxType ==
    ASSUME Inbox!BrokerTypeOK,
           \/ Inbox!Deliver(Stage) \/ Inbox!Ack(Stage) \/ Inbox!Requeue(Stage)
           \/ \E e \in Event : Inbox!Publish(e)
    PROVE  Inbox!BrokerTypeOK'
<1> USE DEF Inbox!BrokerTypeOK
<1>1. CASE Inbox!Deliver(Stage)
  <2>1. Head(queue) \in Event /\ Tail(queue) \in Seq(Event)
    BY <1>1, HeadTailProperties DEF Inbox!Deliver
  <2> QED
    BY <1>1, <2>1 DEF Inbox!Deliver
<1>2. CASE Inbox!Ack(Stage)
  BY <1>2 DEF Inbox!Ack
<1>3. CASE Inbox!Requeue(Stage)
  <2>1. queue' \in Seq(Event)
    <3>1. CASE unacked[Stage] = Nothing
      BY <1>3, <3>1 DEF Inbox!Requeue
    <3>2. CASE unacked[Stage] # Nothing
      <4>1. << unacked[Stage] >> \in Seq(Event)
        BY <3>2
      <4> QED
        BY <1>3, <3>2, <4>1, ConcatProperties DEF Inbox!Requeue
    <3> QED
      BY <3>1, <3>2
  <2> QED
    BY <1>3, <2>1 DEF Inbox!Requeue
<1>4. CASE \E e \in Event : Inbox!Publish(e)
  BY <1>4, AppendProperties DEF Inbox!Publish
<1> QED
  BY <1>1, <1>2, <1>3, <1>4

\* Timer.cancel changes the state of waiting threads only.
LEMMA CancelledThreads ==
    ASSUME threads \in Seq(Thread), NEW S
    PROVE  /\ Cancelled(S) \in Seq(Thread)
           /\ DOMAIN Cancelled(S) = DOMAIN threads
           /\ \A i \in DOMAIN threads :
                 /\ Cancelled(S)[i].turn = threads[i].turn
                 /\ i \notin S => Cancelled(S)[i] = threads[i]
                 /\ i \in S => Cancelled(S)[i].state = "due" \/ Cancelled(S)[i].state = "over"
                 /\ Cancelled(S)[i].state \in {"waiting", "due"} =>
                        threads[i].state \in {"waiting", "due"}
<1>1. /\ Len(threads) \in Nat /\ DOMAIN threads = 1 .. Len(threads)
      /\ threads \in [1 .. Len(threads) -> Thread]
  BY LenProperties
<1>2. \A i \in DOMAIN threads :
        /\ Cancelled(S)[i] = IF i \in S /\ threads[i].state = "waiting"
                             THEN [threads[i] EXCEPT !.state = "over"] ELSE threads[i]
        /\ Cancelled(S)[i] \in Thread
  BY <1>1 DEF Cancelled, Thread
<1>3. Cancelled(S) \in [1 .. Len(threads) -> Thread]
  BY <1>1, <1>2 DEF Cancelled
<1>4. Cancelled(S) \in Seq(Thread)
  BY <1>1, <1>3, SeqDef
<1> QED
  BY <1>1, <1>2, <1>3, <1>4 DEF Thread

\* A thread goes off, or is over.
LEMMA StateThreads ==
    ASSUME threads \in Seq(Thread), NEW i \in DOMAIN threads, NEW x \in {"due", "over"},
           threads' = [threads EXCEPT ![i].state = x]
    PROVE  /\ threads' \in Seq(Thread)
           /\ DOMAIN threads' = DOMAIN threads
           /\ threads'[i].turn = threads[i].turn /\ threads'[i].state = x
           /\ \A j \in DOMAIN threads \ {i} : threads'[j] = threads[j]
<1>1. /\ Len(threads) \in Nat /\ DOMAIN threads = 1 .. Len(threads)
      /\ threads \in [1 .. Len(threads) -> Thread]
  BY LenProperties
<1>2. threads' \in [1 .. Len(threads) -> Thread]
  BY <1>1 DEF Thread
<1>3. threads' \in Seq(Thread)
  BY <1>1, <1>2, SeqDef
<1> QED
  BY <1>1, <1>2, <1>3 DEF Thread

\* A new timer is the last of the threads.
LEMMA NewThread ==
    ASSUME threads \in Seq(Thread), NEW t \in Turn,
           threads' = Append(threads, [turn |-> t, state |-> "waiting"])
    PROVE  /\ threads' \in Seq(Thread)
           /\ Len(threads) + 1 \in DOMAIN threads' /\ Len(threads) + 1 # NoTimer
           /\ Len(threads) + 1 \notin DOMAIN threads
           /\ DOMAIN threads' = DOMAIN threads \cup {Len(threads) + 1}
           /\ \A i \in DOMAIN threads : threads'[i] = threads[i]
           /\ threads'[Len(threads) + 1] = [turn |-> t, state |-> "waiting"]
<1>1. [turn |-> t, state |-> "waiting"] \in Thread
  BY DEF Thread
<1>2. Len(threads) \in Nat /\ DOMAIN threads = 1 .. Len(threads)
  BY LenProperties
<1>3. /\ threads' \in Seq(Thread) /\ Len(threads') = Len(threads) + 1
      /\ \A i \in 1 .. Len(threads) : threads'[i] = threads[i]
      /\ threads'[Len(threads) + 1] = [turn |-> t, state |-> "waiting"]
  BY <1>1, AppendProperties
<1>4. DOMAIN threads' = 1 .. Len(threads) + 1
  BY <1>3, LenProperties
<1> QED
  BY <1>2, <1>3, <1>4 DEF NoTimer

\* A play that has its reasons keeps PlaysJustified, and its turn has been played.
LEMMA PlayEffect ==
    ASSUME plays \in Seq(Played), PlaysJustified, NEW t \in Turn,
           NEW merged \in BOOLEAN, NEW knew \in BOOLEAN,
           NEW by \in {"event", "own", "stale"}, NEW ok \in BOOLEAN,
           Play(t, merged, knew, by, ok),
           merged = knew, pc # "closed", by = "stale" => PlayedTurn(t)
    PROVE  /\ plays' \in Seq(Played)
           /\ PlaysJustified'
           /\ PlayedTurn(t)'
           /\ \A u \in Turn : PlayedTurn(u) => PlayedTurn(u)'
<1> DEFINE new == [turn |-> t, merged |-> merged, knew |-> knew, by |-> by,
                   closed |-> pc = "closed"]
           n   == Len(plays) + 1
<1>1. new \in Played /\ ~new.closed /\ new.turn = t /\ new.by = by
      /\ new.merged = new.knew
  BY DEF Played
<1>2. plays' = Append(plays, new)
  BY DEF Play
<1> HIDE DEF new
<1>3. Len(plays) \in Nat /\ DOMAIN plays = 1 .. Len(plays)
  BY LenProperties
<1>4. /\ plays' \in Seq(Played) /\ Len(plays') = n
      /\ \A i \in 1 .. Len(plays) : plays'[i] = plays[i]
      /\ plays'[n] = new
  BY <1>1, <1>2, AppendProperties
<1>5. DOMAIN plays' = 1 .. n
  BY <1>4, LenProperties
<1>6. PlayedTurn(t)' /\ \A u \in Turn : PlayedTurn(u) => PlayedTurn(u)'
  BY <1>1, <1>3, <1>4, <1>5 DEF PlayedTurn
<1>7. SilentAfterClose' /\ NoNeedlessFallback'
  BY <1>1, <1>3, <1>4, <1>5 DEF PlaysJustified, SilentAfterClose, NoNeedlessFallback
<1>8. FirstPlayWaits'
  <2> SUFFICES ASSUME NEW i \in DOMAIN plays', plays'[i].by = "stale"
               PROVE  \E j \in 1 .. i - 1 : plays'[j].turn = plays'[i].turn
    BY DEF FirstPlayWaits
  <2>1. CASE i = n
    <3>1. PICK j \in 1 .. Len(plays) : plays[j].turn = t
      BY <1>1, <1>3, <1>4, <2>1 DEF PlayedTurn
    <3> QED
      BY <1>1, <1>3, <1>4, <2>1, <3>1
  <2>2. CASE i # n
    <3>1. i \in 1 .. Len(plays) /\ plays[i].by = "stale"
      BY <1>3, <1>4, <1>5, <2>2
    <3>2. PICK j \in 1 .. i - 1 : plays[j].turn = plays[i].turn
      BY <1>3, <3>1 DEF PlaysJustified, FirstPlayWaits
    <3> QED
      BY <1>3, <1>4, <3>1, <3>2
  <2> QED
    BY <2>1, <2>2
<1> QED
  BY <1>4, <1>6, <1>7, <1>8 DEF PlaysJustified

-----------------------------------------------------------------------------
(* The inductive invariant *)

LEMMA TInit == Init => TInv
<1> SUFFICES ASSUME Init
             PROVE  TInv
  OBVIOUS
<1>1. TypeOK
  BY DEF Init, TypeOK, Inbox!BrokerInit, Inbox!BrokerTypeOK, NoTimer
<1> QED
  BY <1>1 DEF Init, TInv, TimersLive, TimedIsPending, HeardIsPending, ClosedIsEmpty,
              OrphansPlayed, PlaysJustified, FirstPlayWaits, NoNeedlessFallback,
              SilentAfterClose, NoTimer

\* A process that has lost its memory.
LEMMA Forgotten ==
    ASSUME TypeOK, Forget, Inbox!BrokerTypeOK', pc' = "down", unacked'[Stage] = Nothing,
           published' = published, faults' \in 0 .. MaxFaults
    PROVE  TInv'
<1>1. TypeOK'
  BY DEF TypeOK, Forget, NoTimer
<1> QED
  BY <1>1 DEF Forget, TInv, TimersLive, TimedIsPending, HeardIsPending, ClosedIsEmpty,
              OrphansPlayed, PlaysJustified, FirstPlayWaits, NoNeedlessFallback,
              SilentAfterClose, NoTimer

\* Nothing of the coordinator moves.
LEMMA Unmoved ==
    ASSUME TInv, UNCHANGED << merge, history >>, TypeOK', pc = "closed" <=> pc' = "closed"
    PROVE  TInv'
  BY DEF merge, history, TInv, TimersLive, TimedIsPending, HeardIsPending, ClosedIsEmpty,
         OrphansPlayed, PlaysJustified, FirstPlayWaits, NoNeedlessFallback,
         SilentAfterClose, NoTimer, Live, PlayedTurn

LEMMA ThisType ==
    ASSUME TypeOK, pc = "handle"
    PROVE  This \in Turn /\ Seen \subseteq Parts /\ unacked[Stage] \in Event
  BY DEF TypeOK, Inbox!BrokerTypeOK, This, Seen, Event, Parts

\* The main thread, a step that plays nothing.
LEMMA MainStep ==
    ASSUME TInv, \/ Start \/ Receive \/ Done \/ Interrupt \/ KeepExpression
                 \/ ArmTimer \/ Close \/ Exit \/ Kill \/ \E e \in Event : Produce(e)
    PROVE  TInv'
<1> USE DEF TInv
<1>1. CASE Start \/ Receive \/ Done \/ Interrupt \/ \E e \in Event : Produce(e)
  <2>1. Inbox!BrokerTypeOK'
    <3>1. CASE Start \/ Interrupt
      BY <3>1 DEF Start, Interrupt, TypeOK, Inbox!BrokerTypeOK, inbox
    <3>2. CASE Receive \/ Done \/ \E e \in Event : Produce(e)
      BY <3>2, InboxType DEF Receive, Done, Produce, TypeOK
    <3> QED
      BY <1>1, <3>1, <3>2
  <2>2. UNCHANGED << merge, history >> /\ (pc = "closed" <=> pc' = "closed")
        /\ published' \in 0 .. MaxPublished /\ faults' \in 0 .. MaxFaults
    BY <1>1 DEF Start, Receive, Done, Interrupt, Produce, TypeOK, bounds
  <2>3. /\ pc' \in {"down", "idle", "handle", "ack", "closing", "closed"}
        /\ pc' \in {"handle", "ack"} => unacked'[Stage] # Nothing
        /\ pc' \in {"down", "idle", "closed"} => unacked'[Stage] = Nothing
    <3>1. CASE Receive
      <4>1. Head(queue) \in Event
        BY <3>1, HeadTailProperties DEF Receive, TypeOK, Inbox!BrokerTypeOK, Inbox!Deliver
      <4> QED
        BY <3>1, <4>1 DEF Receive, TypeOK, Inbox!BrokerTypeOK, Inbox!Deliver
    <3>2. CASE ~Receive
      BY <1>1, <3>2 DEF Start, Done, Interrupt, Produce, TypeOK, Inbox!BrokerTypeOK, inbox,
                        Inbox!Ack, Inbox!Publish
    <3> QED
      BY <3>1, <3>2
  <2>4. TypeOK'
    BY <2>1, <2>2, <2>3 DEF TypeOK, merge, history
  <2> QED
    BY <2>2, <2>4, Unmoved
<1>2. CASE KeepExpression
  <2>1. This \in Turn /\ unacked[Stage] \in Event /\ pc = "handle"
    BY <1>2, ThisType DEF KeepExpression
  <2>2. unacked[Stage].part = "expression" /\ "audio" \notin pending[This]
    BY <1>2, <2>1 DEF KeepExpression, Seen, Parts, Event
  <2>3. /\ pending' = [pending EXCEPT ![This] = {"expression"}]
        /\ heard' = [heard EXCEPT ![This] = TRUE]
        /\ pc' = "ack"
        /\ UNCHANGED << queue, unacked, timers, threads, plays, published, faults >>
    BY <1>2, <2>2 DEF KeepExpression, HeardNow, inbox, bounds
  <2>4. TypeOK'
    BY <2>1, <2>3 DEF TypeOK, Inbox!BrokerTypeOK, Parts
  <2>5. TimedIsPending' /\ HeardIsPending'
    BY <2>1, <2>2, <2>3 DEF TypeOK, TimedIsPending, HeardIsPending
  <2> QED
    BY <2>1, <2>3, <2>4, <2>5
       DEF TimersLive, ClosedIsEmpty, OrphansPlayed, PlaysJustified, FirstPlayWaits,
           NoNeedlessFallback, SilentAfterClose, Live, PlayedTurn
<1>3. CASE ArmTimer
  <2>1. This \in Turn /\ unacked[Stage] \in Event /\ pc = "handle"
    BY <1>3, ThisType DEF ArmTimer
  <2>2. unacked[Stage].part = "audio" /\ "expression" \notin pending[This]
    BY <1>3, <2>1 DEF ArmTimer, Seen, Parts, Event
  <2>3. /\ pending' = [pending EXCEPT ![This] = {"audio"}]
        /\ heard' = [heard EXCEPT ![This] = heard[This]]
        /\ pc' = "ack"
        /\ UNCHANGED << queue, unacked, plays, published, faults >>
    BY <1>3, <2>2 DEF ArmTimer, HeardNow, inbox, bounds, TypeOK
  <2>4. HeardIsPending'
    BY <2>1, <2>2, <2>3 DEF TypeOK, HeardIsPending
  <2>5. PlaysJustified'
    BY <2>3 DEF PlaysJustified, FirstPlayWaits, NoNeedlessFallback, SilentAfterClose
  <2>6. CASE timers[This] # NoTimer
    <3>1. UNCHANGED << threads, timers >>
      BY <1>3, <2>6 DEF ArmTimer
    <3>2. TypeOK'
      BY <2>1, <2>3, <3>1 DEF TypeOK, Inbox!BrokerTypeOK, Parts
    <3>3. TimedIsPending'
      BY <2>1, <2>3, <2>6, <3>1 DEF TypeOK, TimedIsPending
    <3> QED
      BY <2>1, <2>3, <2>4, <2>5, <3>1, <3>2, <3>3
         DEF TimersLive, ClosedIsEmpty, OrphansPlayed, Live, PlayedTurn
  <2>7. CASE timers[This] = NoTimer
    <3> DEFINE n == Len(threads) + 1
    <3>1. /\ threads' = Append(threads, [turn |-> This, state |-> "waiting"])
          /\ timers' = [timers EXCEPT ![This] = n]
      BY <1>3, <2>7 DEF ArmTimer
    <3>2. /\ threads' \in Seq(Thread)
          /\ n \in DOMAIN threads' /\ n # NoTimer /\ n \notin DOMAIN threads
          /\ DOMAIN threads' = DOMAIN threads \cup {n}
          /\ \A i \in DOMAIN threads : threads'[i] = threads[i]
          /\ threads'[n].turn = This /\ threads'[n].state = "waiting"
      BY <2>1, <3>1, NewThread DEF TypeOK, Thread
    <3> HIDE DEF n
    <3>3. TypeOK'
      BY <2>1, <2>3, <3>1, <3>2 DEF TypeOK, Inbox!BrokerTypeOK, Parts, Thread
    <3>4. TimedIsPending'
      BY <2>1, <2>3, <3>1, <3>2 DEF TypeOK, TimedIsPending
    <3>5. TimersLive'
      BY <2>1, <3>1, <3>2 DEF TypeOK, TimersLive, Live
    <3>6. OrphansPlayed'
      <4> SUFFICES ASSUME NEW i \in DOMAIN threads', threads'[i].state \in {"waiting", "due"},
                          timers'[threads'[i].turn] # i
                   PROVE  \E j \in DOMAIN plays' : plays'[j].turn = threads'[i].turn
        BY DEF OrphansPlayed, Live, PlayedTurn
      <4>1. i # n
        BY <2>1, <3>1, <3>2 DEF TypeOK
      <4>2. i \in DOMAIN threads /\ threads'[i] = threads[i] /\ threads[i].turn \in Turn
        <5>1. i \in DOMAIN threads /\ threads'[i] = threads[i]
          BY <3>2, <4>1
        <5>2. threads \in [DOMAIN threads -> Thread]
          BY LenProperties DEF TypeOK, Thread
        <5> QED
          BY <5>1, <5>2 DEF Thread
      <4>3. timers[threads[i].turn] # i
        BY <2>1, <2>7, <3>1, <3>2, <4>1, <4>2 DEF TypeOK, NoTimer
      <4> QED
        BY <2>1, <2>3, <4>2, <4>3 DEF OrphansPlayed, Live, PlayedTurn
    <3> QED
      BY <2>3, <2>4, <2>5, <3>3, <3>4, <3>5, <3>6 DEF ClosedIsEmpty
  <2> QED
    BY <2>6, <2>7
<1>4. CASE Close
  <2>1. /\ threads' = Cancelled({timers[t] : t \in Turn})
        /\ timers' = [t \in Turn |-> NoTimer]
        /\ pending' = [t \in Turn |-> {}]
        /\ heard' = [t \in Turn |-> FALSE]
        /\ pc' = "closed" /\ plays' = plays
        /\ UNCHANGED << published, faults >> /\ Inbox!Requeue(Stage)
    BY <1>4 DEF Close, bounds
  <2>2. threads' \in Seq(Thread)
    BY <2>1, CancelledThreads DEF TypeOK, Thread
  <2>3. Inbox!BrokerTypeOK' /\ unacked'[Stage] = Nothing
    BY <2>1, InboxType DEF TypeOK, Inbox!BrokerTypeOK, Inbox!Requeue
  <2>4. TypeOK'
    BY <2>1, <2>2, <2>3 DEF TypeOK, Thread
  <2> QED
    BY <2>1, <2>4
       DEF TimersLive, TimedIsPending, HeardIsPending, ClosedIsEmpty, OrphansPlayed,
           PlaysJustified, FirstPlayWaits, NoNeedlessFallback, SilentAfterClose, NoTimer
<1>5. CASE Exit
  BY <1>5, Forgotten DEF Exit, TypeOK, Inbox!BrokerTypeOK, inbox, bounds
<1>6. CASE Kill
  <2>1. Inbox!BrokerTypeOK' /\ unacked'[Stage] = Nothing
    BY <1>6, InboxType DEF Kill, TypeOK, Inbox!BrokerTypeOK, Inbox!Requeue
  <2> QED
    BY <1>6, <2>1, Forgotten DEF Kill, TypeOK
<1> QED
  BY <1>1, <1>2, <1>3, <1>4, <1>5, <1>6

\* The second part of a turn comes: it is played merged.
LEMMA MergeStep == ASSUME TInv, MergeParts PROVE TInv'
<1> USE DEF TInv
<1>0. PICK t \in Turn : t = This
  BY ThisType DEF MergeParts
<1>1. unacked[Stage] \in Event /\ pc = "handle"
  BY ThisType DEF MergeParts
<1>2. PICK ok \in BOOLEAN : /\ Play(t, TRUE, HeardNow, "event", ok)
                           /\ \/ ok /\ pc' = "ack" /\ UNCHANGED inbox
                              \/ ~ok /\ pc' = "closing" /\ Inbox!Requeue(Stage)
  BY <1>0 DEF MergeParts
<1>3. HeardNow = TRUE
  BY <1>0, <1>1 DEF MergeParts, Seen, HeardNow, Parts, HeardIsPending, TypeOK
<1>4. /\ plays' \in Seq(Played) /\ PlaysJustified' /\ PlayedTurn(t)'
      /\ \A u \in Turn : PlayedTurn(u) => PlayedTurn(u)'
  BY <1>1, <1>2, <1>3, PlayEffect DEF TypeOK, Played
<1>5. /\ threads' = Cancelled({timers[t]})
      /\ timers' = [timers EXCEPT ![t] = NoTimer]
      /\ pending' = [pending EXCEPT ![t] = {}]
      /\ heard' = [heard EXCEPT ![t] = FALSE]
      /\ faults' \in 0 .. MaxFaults /\ published' = published
  BY <1>0, <1>2 DEF MergeParts, CancelTimer, Play, TypeOK
<1>6. /\ threads' \in Seq(Thread) /\ DOMAIN threads' = DOMAIN threads
      /\ \A i \in DOMAIN threads :
            /\ threads'[i].turn = threads[i].turn
            /\ i # timers[t] => threads'[i] = threads[i]
            /\ threads'[i].state \in {"waiting", "due"} =>
                  threads[i].state \in {"waiting", "due"}
  BY <1>5, CancelledThreads DEF TypeOK, Thread
<1>7. threads \in [DOMAIN threads -> Thread]
  BY LenProperties DEF TypeOK, Thread
<1>8. TypeOK'
  <2>1. /\ Inbox!BrokerTypeOK' /\ pc' \in {"ack", "closing"}
        /\ pc' = "ack" => unacked'[Stage] # Nothing
    <3>1. CASE UNCHANGED inbox /\ pc' = "ack"
      BY <1>1, <3>1 DEF TypeOK, Inbox!BrokerTypeOK, inbox
    <3>2. CASE Inbox!Requeue(Stage) /\ pc' = "closing"
      BY <3>2, InboxType DEF TypeOK
    <3> QED
      BY <1>2, <3>1, <3>2
  <2> QED
    BY <1>1, <1>4, <1>5, <1>6, <2>1 DEF TypeOK, Thread, Played
<1>9. TimedIsPending' /\ HeardIsPending' /\ ClosedIsEmpty'
  BY <1>1, <1>2, <1>5 DEF TypeOK, TimedIsPending, HeardIsPending, ClosedIsEmpty
<1>10. TimersLive'
  <2> SUFFICES ASSUME NEW u \in Turn, timers'[u] # NoTimer
               PROVE  /\ threads'[timers'[u]].turn = u
                      /\ threads'[timers'[u]].state \in {"waiting", "due"}
    BY DEF TimersLive, Live
  <2>1. u # t /\ timers'[u] = timers[u] /\ timers[u] # NoTimer
    BY <1>5 DEF TypeOK
  <2>2. timers[u] \in DOMAIN threads /\ threads[timers[u]].turn = u /\ Live(timers[u])
    BY <2>1 DEF TypeOK, TimersLive
  <2>3. timers[u] # timers[t]
    BY <2>1, <2>2 DEF TimersLive
  <2> QED
    BY <1>6, <2>1, <2>2, <2>3 DEF Live
<1>11. OrphansPlayed'
  <2> SUFFICES ASSUME NEW i \in DOMAIN threads', threads'[i].state \in {"waiting", "due"},
                      timers'[threads'[i].turn] # i
               PROVE  \E j \in DOMAIN plays' : plays'[j].turn = threads'[i].turn
    BY DEF OrphansPlayed, Live, PlayedTurn
  <2>1. i \in DOMAIN threads /\ threads'[i].turn = threads[i].turn /\ Live(i)
        /\ threads[i].turn \in Turn
    BY <1>6, <1>7 DEF Live, Thread
  <2>2. CASE threads[i].turn = t
    BY <1>4, <2>1, <2>2 DEF PlayedTurn
  <2>3. CASE threads[i].turn # t
    <3>1. PlayedTurn(threads[i].turn)
      BY <1>1, <1>5, <2>1, <2>3 DEF OrphansPlayed, TypeOK
    <3> QED
      BY <1>4, <2>1, <3>1 DEF PlayedTurn
  <2> QED
    BY <2>2, <2>3
<1> QED
  BY <1>4, <1>8, <1>9, <1>10, <1>11

\* A timer thread goes off: it finds nothing to do, or plays the turn.
LEMMA TimerStep == ASSUME TInv, NEW i \in DOMAIN threads, Timer(i) PROVE TInv'
<1> USE DEF TInv
<1>0. threads \in [DOMAIN threads -> Thread]
  BY LenProperties DEF TypeOK, Thread
<1>1. PICK t \in Turn : t = threads[i].turn
  BY <1>0 DEF Thread
<1>2. CASE Elapse(i)
  <2>1. /\ threads' \in Seq(Thread) /\ DOMAIN threads' = DOMAIN threads
        /\ threads'[i].turn = t /\ threads'[i].state = "due"
        /\ \A j \in DOMAIN threads \ {i} : threads'[j] = threads[j]
    BY <1>1, <1>2, StateThreads DEF Elapse, TypeOK, Thread
  <2>2. Live(i) /\ UNCHANGED << queue, unacked, pc, pending, timers, heard, plays,
                               published, faults >>
    BY <1>2 DEF Elapse, Live, inbox, history, bounds
  <2>3. TypeOK'
    BY <2>1, <2>2 DEF TypeOK, Inbox!BrokerTypeOK, Thread
  <2>4. \A j \in DOMAIN threads :
          threads'[j].turn = threads[j].turn
          /\ (threads'[j].state \in {"waiting", "due"} <=> Live(j))
    BY <1>1, <2>1, <2>2 DEF Live
  <2>5. TimersLive'
    BY <2>1, <2>2, <2>4 DEF TypeOK, TimersLive, Live
  <2>6. OrphansPlayed'
    BY <2>1, <2>2, <2>4 DEF OrphansPlayed, Live, PlayedTurn
  <2> QED
    BY <2>2, <2>3, <2>5, <2>6 DEF TimedIsPending, HeardIsPending, ClosedIsEmpty, PlaysJustified,
                            FirstPlayWaits, NoNeedlessFallback, SilentAfterClose
<1>3. ASSUME Finished(i)
      PROVE  /\ threads' \in Seq(Thread) /\ DOMAIN threads' = DOMAIN threads
             /\ threads'[i].turn = t /\ threads'[i].state = "over"
             /\ \A j \in DOMAIN threads \ {i} : threads'[j] = threads[j]
  BY <1>1, <1>3, StateThreads DEF Finished, TypeOK, Thread
<1>4. CASE TimeoutIdle(i)
  <2>1. "audio" \notin pending[t] /\ Finished(i)
        /\ UNCHANGED << queue, unacked, pc, pending, heard, plays, published, faults >>
    BY <1>1, <1>4 DEF TimeoutIdle, inbox, history, bounds
  <2>2. timers' = timers
    BY <1>1, <1>4, <2>1 DEF TimeoutIdle, PopTimer, TimedIsPending, TypeOK
  <2>3. TypeOK'
    BY <1>3, <2>1, <2>2, SMTT(30) DEF TypeOK, Inbox!BrokerTypeOK, Thread
  <2>4. TimersLive'
    BY <1>1, <1>3, <2>1, <2>2, SMTT(30) DEF TypeOK, TimersLive, TimedIsPending, Live
  <2>5. OrphansPlayed'
    BY <1>3, <2>1, <2>2 DEF OrphansPlayed, Live, PlayedTurn
  <2> QED
    BY <2>1, <2>2, <2>3, <2>4, <2>5
       DEF TimedIsPending, HeardIsPending, ClosedIsEmpty, PlaysJustified, FirstPlayWaits,
           NoNeedlessFallback, SilentAfterClose
<1>5. CASE TimeoutPlays(i)
  <2>0. PICK by \in {"own", "stale"} : by = IF timers[t] = i THEN "own" ELSE "stale"
    OBVIOUS
  <2>1. PICK ok \in BOOLEAN : Play(t, pending[t] = Parts, heard[t], by, ok)
    BY <1>1, <1>5, <2>0 DEF TimeoutPlays
  <2>2. /\ "audio" \in pending[t] /\ Finished(i) /\ Live(i)
        /\ timers' = [timers EXCEPT ![t] = NoTimer]
        /\ pending' = [pending EXCEPT ![t] = {}]
        /\ heard' = [heard EXCEPT ![t] = FALSE]
        /\ faults' \in 0 .. MaxFaults
        /\ UNCHANGED << queue, unacked, pc, published >>
    BY <1>1, <1>5, <2>1 DEF TimeoutPlays, PopTimer, Play, Live, TypeOK, inbox
  <2>3. pc # "closed"
    BY <1>1, <2>2 DEF ClosedIsEmpty
  <2>4. (pending[t] = Parts) = heard[t] /\ heard[t] \in BOOLEAN
    <3>1. pending[t] = Parts <=> "expression" \in pending[t]
      BY <1>1, <2>2 DEF Parts, TypeOK
    <3>2. heard[t] <=> "expression" \in pending[t]
      BY <1>1 DEF HeardIsPending
    <3>3. heard[t] \in BOOLEAN
      BY <1>1 DEF TypeOK
    <3> QED
      BY <3>1, <3>2, <3>3
  <2>5. by \in {"event", "own", "stale"} /\ (by = "stale" => PlayedTurn(t))
    BY <1>1, <2>0, <2>2, <2>3 DEF OrphansPlayed
  <2>6. /\ plays' \in Seq(Played) /\ PlaysJustified' /\ PlayedTurn(t)'
        /\ \A u \in Turn : PlayedTurn(u) => PlayedTurn(u)'
    <3>1. (pending[t] = Parts) \in BOOLEAN /\ plays \in Seq(Played)
      BY DEF TypeOK, Played
    <3> QED
      BY <1>1, <2>1, <2>3, <2>4, <2>5, <3>1, PlayEffect
  <2>7. TypeOK'
    BY <1>1, <1>3, <2>2, <2>6 DEF TypeOK, Inbox!BrokerTypeOK, Thread, Played
  <2>8. TimedIsPending' /\ HeardIsPending' /\ ClosedIsEmpty'
    BY <1>1, <2>2, <2>3 DEF TypeOK, TimedIsPending, HeardIsPending, ClosedIsEmpty
  <2>9. TimersLive'
    BY <1>1, <1>3, <2>2 DEF TypeOK, TimersLive, Live, NoTimer
  <2>10. OrphansPlayed'
    <3> SUFFICES ASSUME NEW j \in DOMAIN threads', threads'[j].state \in {"waiting", "due"},
                        timers'[threads'[j].turn] # j
                 PROVE  \E k \in DOMAIN plays' : plays'[k].turn = threads'[j].turn
      BY DEF OrphansPlayed, Live, PlayedTurn
    <3>1. j \in DOMAIN threads /\ threads'[j] = threads[j] /\ Live(j)
          /\ threads[j].turn \in Turn
      BY <1>0, <1>3, <2>2 DEF Live, Thread
    <3>2. CASE threads[j].turn = t
      BY <2>6, <3>1, <3>2 DEF PlayedTurn
    <3>3. CASE threads[j].turn # t
      <4>1. PlayedTurn(threads[j].turn)
        BY <1>1, <2>2, <2>3, <3>1, <3>3 DEF OrphansPlayed, TypeOK
      <4> QED
        BY <2>6, <3>1, <4>1 DEF PlayedTurn
    <3> QED
      BY <3>2, <3>3
  <2> QED
    BY <2>6, <2>7, <2>8, <2>9, <2>10
<1> QED
  BY <1>2, <1>4, <1>5 DEF Timer

LEMMA TStep == TInv /\ [Next]_vars => TInv'
<1> SUFFICES ASSUME TInv, [Next]_vars
             PROVE  TInv'
  OBVIOUS
<1>1. CASE UNCHANGED vars
  <2>1. TypeOK'
    BY <1>1 DEF vars, inbox, merge, history, bounds, TInv, TypeOK, Inbox!BrokerTypeOK
  <2> QED
    BY <1>1, <2>1, Unmoved DEF vars
<1>2. CASE Main
  BY <1>2, MainStep, MergeStep DEF Main
<1>3. CASE \E i \in DOMAIN threads : Timer(i)
  BY <1>3, TimerStep
<1>4. CASE Start \/ Interrupt \/ Kill \/ \E e \in Event : Produce(e)
  BY <1>4, MainStep
<1> QED
  BY <1>1, <1>2, <1>3, <1>4 DEF Next

-----------------------------------------------------------------------------
(* Theorems *)

\* The inductive invariant holds of every reachable state.
LEMMA Invariance == Spec => []TInv
  BY TInit, TStep, PTL DEF Spec

\* TurnCoordinator: every reachable state is well typed.
THEOREM Typing == Spec => []TypeOK
<1>1. TInv => TypeOK
  BY DEF TInv
<1> QED
  BY <1>1, Invariance, PTL

\* handle, _on_timeout, _cancel_timer_locked: no interleaving of events, callbacks
\* and cancellations leaves an audio in _pending without a timer that will go off.
THEOREM Unstuck == Spec => []NeverStuck
<1>1. TInv => NeverStuck
  BY DEF TInv, TypeOK, TimersLive, TimedIsPending, NeverStuck, NoTimer
<1> QED
  BY <1>1, Invariance, PTL

\* play_turn: every play had its reason, its moment and all it could have.
THEOREM Justified == Spec => []PlaysJustified
<1>1. TInv => PlaysJustified
  BY DEF TInv
<1> QED
  BY <1>1, Invariance, PTL
=============================================================================

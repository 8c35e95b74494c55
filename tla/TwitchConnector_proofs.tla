---------------------------- MODULE TwitchConnector_proofs ----------------------------
(***************************************************************************)
(* The dedup discipline of twitch-connector, for any number of processes,  *)
(* payloads, keys, retries, copies and faults: the attempt budget, no      *)
(* blind resend, one worker per key, every acknowledged reply accounted    *)
(* for, and the refinement of AtMostOnce.                                  *)
(***************************************************************************)
EXTENDS ReplyConnector, MessageThrottle, SequenceTheorems, TLAPS

\* A process past the dedup check holds the claim of its key.
ClaimHeld ==
    \A c \in Connector, k \in Key :
        pc[c] \in Working \cup {"settle"} /\ KeyOf[cur[c]] = k => k \in claims

\* Nothing has happened to a key that is not claimed.
UnclaimedIsFresh == \A k \in Key : k \notin claims => life[k] = NewLife

\* The POSTs of a key were made by the handling under way, in its earlier
\* attempts, or by one that is over.
BudgetLeft ==
    /\ \A c \in Connector : pc[c] \in {"dispatch", "post"} =>
         attempt[c] \in 1 .. MaxRetries
    /\ \A c \in Connector, k \in Key :
         WorksOn(c, k) /\ pc[c] # "report" => life[k].tries < attempt[c]

\* As long as a handling goes on, no POST it knows of was accepted.
OnlyUnsure ==
    \A c \in Connector, k \in Key :
        WorksOn(c, k) => life[k].accepted <= life[k].unsure

\* A claimed key is being worked on or shows what became of it; a payload
\* without a key is settled only when chat has it or an error was reported.
ClaimedIsAccounted ==
    MaxRetries > 0 =>
      \A k \in claims :
          \/ life[k].accepted > 0 \/ life[k].reported > 0 \/ life[k].cut > 0
          \/ \E c \in Connector : WorksOn(c, k)

AckedIsClaimed == \A r \in acked : Keyed(r) => KeyOf[r] \in claims

UnkeyedIsAccounted ==
    MaxRetries > 0 =>
      \A r \in Reply :
          /\ ~Keyed(r)
          /\ r \in acked \/ \E c \in Connector : pc[c] = "settle" /\ cur[c] = r
          => life[r].accepted > 0 \/ life[r].reported > 0

IInv == /\ TypeOK
        /\ ClaimHeld
        /\ UnclaimedIsFresh
        /\ OneWorkerPerKey
        /\ AttemptBudget
        /\ BudgetLeft
        /\ NoBlindResend
        /\ OnlyUnsure
        /\ ClaimedIsAccounted
        /\ AckedIsClaimed
        /\ UnkeyedIsAccounted

LEMMA Labels ==
    /\ Phases = {"down", "idle", "received", "dispatch", "post", "report", "settle"}
    /\ Working = {"dispatch", "post", "report"}
BY DEF Phases, Working, Down, Idle

LEMMA LifePlusFacts ==
    ASSUME life \in [Subject -> Life], NEW s \in Subject, NEW n \in Life
    PROVE  /\ LifePlus(s, n) \in [Subject -> Life]
           /\ \A x \in Subject \ {s} : LifePlus(s, n)[x] = life[x]
           /\ LifePlus(s, n)[s].tries = life[s].tries + n.tries
           /\ LifePlus(s, n)[s].accepted = life[s].accepted + n.accepted
           /\ LifePlus(s, n)[s].unsure = life[s].unsure + n.unsure
           /\ LifePlus(s, n)[s].reported = life[s].reported + n.reported
           /\ LifePlus(s, n)[s].cut = life[s].cut + n.cut
BY DEF LifePlus, Life

LEMMA SubjectType ==
    ASSUME NEW r \in Reply
    PROVE  /\ SubjectOf(r) \in Subject
           /\ \A k \in Key : SubjectOf(r) = k <=> KeyOf[r] = k
           /\ ~Keyed(r) => SubjectOf(r) = r
           /\ Keyed(r) => KeyOf[r] \in Key /\ SubjectOf(r) = KeyOf[r]
BY ConnectorAssumption DEF SubjectOf, Keyed, Subject

LEMMA TypeInit == Init => TypeOK
BY ConnectorAssumption
   DEF Init, TypeOK, Inbox!BrokerInit, Inbox!BrokerTypeOK, Phases, Down, Idle,
       NewLife, Counts, Life

\* The broker's operations keep its types.
LEMMA RequeueType ==
    ASSUME Inbox!BrokerTypeOK, NEW c \in Connector, Inbox!Requeue(c)
    PROVE  Inbox!BrokerTypeOK'
<1>1. /\ queue \in Seq(Reply)
      /\ unacked \in [Connector -> Reply \cup {NoReply}]
  BY DEF Inbox!BrokerTypeOK
<1>2. unacked' \in [Connector -> Reply \cup {NoReply}]
  BY <1>1 DEF Inbox!Requeue
<1>3. queue' \in Seq(Reply)
  <2>1. CASE unacked[c] = NoReply
    BY <1>1, <2>1 DEF Inbox!Requeue
  <2>2. CASE unacked[c] # NoReply
    <3>1. << unacked[c] >> \in Seq(Reply)
      BY <1>1, <2>2
    <3> QED BY <1>1, <2>2, <3>1, ConcatProperties DEF Inbox!Requeue
  <2> QED BY <2>1, <2>2
<1> QED BY <1>2, <1>3 DEF Inbox!BrokerTypeOK

LEMMA DeliverType ==
    ASSUME Inbox!BrokerTypeOK, NEW c \in Connector, Inbox!Deliver(c)
    PROVE  Inbox!BrokerTypeOK' /\ Head(queue) \in Reply
<1>1. queue \in Seq(Reply) /\ queue # << >>
  BY DEF Inbox!BrokerTypeOK, Inbox!Deliver
<1>2. Head(queue) \in Reply /\ Tail(queue) \in Seq(Reply)
  BY <1>1, HeadTailProperties
<1> QED BY <1>2 DEF Inbox!BrokerTypeOK, Inbox!Deliver

\* A process that dies leaves the rest of the state well typed.
LEMMA DieType ==
    ASSUME TypeOK, NEW c \in Connector, Die(c),
           life' \in [Subject -> Life], faults' \in 0 .. MaxFaults
    PROVE  TypeOK'
<1>1. Inbox!BrokerTypeOK'
  BY RequeueType DEF TypeOK, Die
<1>2. /\ pc' \in [Connector -> Phases]
      /\ cur' \in [Connector -> Reply \cup {NoReply}]
      /\ attempt' \in [Connector -> 0 .. MaxRetries + 1]
      /\ cached' \in [Connector -> SUBSET Channel]
      /\ \A d \in Connector : cur'[d] = NoReply <=> pc'[d] \in {Down, Idle}
  BY ConnectorAssumption DEF TypeOK, Die, Goto, Phases, Down, Idle
<1> QED BY <1>1, <1>2 DEF TypeOK, Die

LEMMA CurType ==
    ASSUME TypeOK, NEW c \in Connector, pc[c] \notin {Down, Idle}
    PROVE  cur[c] \in Reply
BY DEF TypeOK

LEMMA CutShortType ==
    ASSUME TypeOK, NEW c \in Connector
    PROVE  CutShort(c) \in [Subject -> Life]
<1>1. life \in [Subject -> Life]
  BY DEF TypeOK
<1>2. CASE pc[c] \in Working
  <2>1. cur[c] \in Reply
    BY <1>2, CurType, Labels DEF Down, Idle
  <2>2. Counts(0, 0, 0, 0, 1) \in Life
    BY DEF NewLife, Counts, Life
  <2> QED BY <1>1, <1>2, <2>1, <2>2, SubjectType, LifePlusFacts DEF CutShort
<1>3. CASE pc[c] \notin Working
  BY <1>1, <1>3 DEF CutShort
<1> QED BY <1>2, <1>3

\* What one POST adds to the history of its subject.
LEMMA PostEffect ==
    ASSUME NEW c \in Connector, Post(c)
    PROVE  \E n \in Life :
             /\ life' = LifePlus(SubjectOf(cur[c]), n)
             /\ n.tries = 1
             /\ \/ n.accepted = 1 /\ Goto(c, "settle") /\ UNCHANGED attempt
                \/ n.accepted = n.unsure /\ AttemptFailed(c)
<1>1. PICK taken \in {0, 1}, seen \in {"ok", "failed"} :
        /\ seen = "ok" => taken = 1
        /\ life' = LifePlus(SubjectOf(cur[c]),
                       Counts(1, taken, IF seen = "ok" THEN 0 ELSE taken, 0, 0))
        /\ \/ seen = "ok" /\ Goto(c, "settle") /\ UNCHANGED attempt
           \/ seen = "failed" /\ AttemptFailed(c)
  BY DEF Post
<1> DEFINE n == Counts(1, taken, IF seen = "ok" THEN 0 ELSE taken, 0, 0)
<1>2. n \in Life /\ n.tries = 1 /\ n.accepted = taken
      /\ n.unsure = IF seen = "ok" THEN 0 ELSE taken
  BY DEF Counts, Life
<1>3. \/ n.accepted = 1 /\ Goto(c, "settle") /\ UNCHANGED attempt
      \/ n.accepted = n.unsure /\ AttemptFailed(c)
  <2> HIDE DEF n
  <2>1. CASE seen = "ok"
    BY <1>1, <1>2, <2>1
  <2>2. CASE seen = "failed"
    BY <1>1, <1>2, <2>2
  <2> QED BY <2>1, <2>2
<1>4. life' = LifePlus(SubjectOf(cur[c]), n)
  BY <1>1
<1> HIDE DEF n
<1> QED BY <1>2, <1>3, <1>4

\* An exception after the POST leaves the mark of a handling cut short.
LEMMA PostRaisesEffect ==
    ASSUME NEW c \in Connector, PostRaises(c)
    PROVE  \E n \in Life :
             /\ life' = LifePlus(SubjectOf(cur[c]), n)
             /\ n.tries = 1
             /\ n.accepted = n.unsure
             /\ n.cut = 1
<1>1. PICK taken \in {0, 1} :
        life' = LifePlus(SubjectOf(cur[c]),
                         Counts(1, taken, taken, 0, 1))
  BY DEF PostRaises
<1> DEFINE n == Counts(1, taken, taken, 0, 1)
<1>2. n \in Life /\ n.tries = 1 /\ n.accepted = n.unsure /\ n.cut = 1
  BY DEF Counts, Life
<1>3. life' = LifePlus(SubjectOf(cur[c]), n)
  BY <1>1
<1> HIDE DEF n
<1> QED BY <1>2, <1>3

LEMMA TypeStep == TypeOK /\ [Next]_vars => TypeOK'
<1> SUFFICES ASSUME TypeOK, [Next]_vars PROVE TypeOK'
  OBVIOUS
<1> USE ConnectorAssumption
<1>1. ASSUME NEW c \in Connector, Start(c) PROVE TypeOK'
  BY <1>1 DEF Start, TypeOK, brokerVars, history, bounds, Goto, Phases, Down,
              Idle, Inbox!BrokerTypeOK
<1>2. ASSUME NEW c \in Connector, Receive(c) PROVE TypeOK'
  <2>1. Inbox!BrokerTypeOK' /\ Head(queue) \in Reply
    BY <1>2, DeliverType DEF Receive, TypeOK
  <2> QED BY <1>2, <2>1 DEF Receive, TypeOK, history, bounds, Goto, Phases, Down, Idle
<1>3. ASSUME NEW c \in Connector,
             RejectMalformed(c) \/ SkipDuplicate(c) \/ Claim(c) \/ RejectPlatform(c)
      PROVE  TypeOK'
  <2>1. UNCHANGED << queue, unacked, cached, life, acked, published, faults, cur >>
    BY <1>3 DEF RejectMalformed, SkipDuplicate, Claim, RejectPlatform,
                brokerVars, history, bounds
  <2>2. /\ pc' \in [Connector -> Phases]
        /\ attempt' \in [Connector -> 0 .. MaxRetries + 1]
        /\ \A d \in Connector : cur'[d] = NoReply <=> pc'[d] \in {Down, Idle}
    BY <1>3 DEF RejectMalformed, SkipDuplicate, Claim, RejectPlatform, TypeOK,
                Goto, Phases, Down, Idle
  <2>3. claims' \subseteq Key
    <3>1. CASE Claim(c)
      <4>1. cur[c] \in Reply
        BY <3>1, CurType DEF Claim, Down, Idle
      <4> QED BY <3>1, <4>1 DEF Claim, TypeOK, Keyed
    <3>2. CASE ~Claim(c)
      BY <1>3, <3>2 DEF RejectMalformed, SkipDuplicate, RejectPlatform, TypeOK
    <3> QED BY <3>1, <3>2
  <2> QED BY <2>1, <2>2, <2>3 DEF TypeOK, Inbox!BrokerTypeOK
<1>4. ASSUME NEW c \in Connector, Resolve(c) PROVE TypeOK'
  <2>1. UNCHANGED << queue, unacked, claims, life, acked, published, faults, cur >>
    BY <1>4 DEF Resolve, brokerVars, history, bounds
  <2>2. /\ pc' \in [Connector -> Phases]
        /\ attempt' \in [Connector -> 0 .. MaxRetries + 1]
        /\ \A d \in Connector : cur'[d] = NoReply <=> pc'[d] \in {Down, Idle}
    BY <1>4 DEF Resolve, AttemptFailed, TypeOK, Goto, Phases, Down, Idle
  <2>3. cached' \in [Connector -> SUBSET Channel]
    <3>1. cur[c] \in Reply
      BY <1>4, CurType DEF Resolve, Down, Idle
    <3> QED BY <1>4, <3>1 DEF Resolve, TypeOK
  <2> QED BY <2>1, <2>2, <2>3 DEF TypeOK, Inbox!BrokerTypeOK
<1>5. ASSUME NEW c \in Connector, Post(c) PROVE TypeOK'
  <2>1. UNCHANGED << queue, unacked, claims, cached, acked, published, faults, cur >>
    BY <1>5 DEF Post, brokerVars, bounds
  <2>2. /\ pc' \in [Connector -> Phases]
        /\ attempt' \in [Connector -> 0 .. MaxRetries + 1]
        /\ \A d \in Connector : cur'[d] = NoReply <=> pc'[d] \in {Down, Idle}
    BY <1>5 DEF Post, AttemptFailed, TypeOK, Goto, Phases, Down, Idle
  <2>3. life' \in [Subject -> Life]
    <3>1. cur[c] \in Reply
      BY <1>5, CurType DEF Post, Down, Idle
    <3>2. PICK n \in Life : life' = LifePlus(SubjectOf(cur[c]), n)
      BY <1>5, PostEffect
    <3> QED BY <3>1, <3>2, SubjectType, LifePlusFacts DEF TypeOK
  <2> QED BY <2>1, <2>2, <2>3 DEF TypeOK, Inbox!BrokerTypeOK
<1>6. ASSUME NEW c \in Connector, Report(c) PROVE TypeOK'
  <2>1. UNCHANGED << queue, unacked, claims, cached, attempt, acked, published, faults, cur >>
    BY <1>6 DEF Report, brokerVars, bounds
  <2>2. /\ pc' \in [Connector -> Phases]
        /\ \A d \in Connector : cur'[d] = NoReply <=> pc'[d] \in {Down, Idle}
    BY <1>6 DEF Report, TypeOK, Goto, Phases, Down, Idle
  <2>3. life' \in [Subject -> Life]
    <3>1. cur[c] \in Reply
      BY <1>6, CurType DEF Report, Down, Idle
    <3>2. PICK n \in Life : life' = LifePlus(SubjectOf(cur[c]), n)
      BY <1>6 DEF Report, NewLife, Counts, Life
    <3> QED BY <3>1, <3>2, SubjectType, LifePlusFacts DEF TypeOK
  <2> QED BY <2>1, <2>2, <2>3 DEF TypeOK, Inbox!BrokerTypeOK
<1>7. ASSUME NEW c \in Connector, Settle(c) PROVE TypeOK'
  <2>1. cur[c] \in Reply
    BY <1>7, CurType DEF Settle, Down, Idle
  <2> QED BY <1>7, <2>1 DEF Settle, Inbox!Ack, TypeOK, Inbox!BrokerTypeOK, bounds,
                            Goto, Phases, Down, Idle
<1>8. ASSUME NEW c \in Connector, DieDisconnected(c) \/ Crash(c) \/ PostRaises(c)
      PROVE  TypeOK'
  <2>1. Die(c) /\ faults' \in 0 .. MaxFaults
    BY <1>8 DEF DieDisconnected, Crash, PostRaises, TypeOK
  <2>2. life' \in [Subject -> Life]
    <3>1. CASE PostRaises(c)
      <4>1. cur[c] \in Reply
        BY <3>1, CurType DEF PostRaises, Down, Idle
      <4>2. PICK n \in Life : life' = LifePlus(SubjectOf(cur[c]), n)
        BY <3>1, PostRaisesEffect
      <4> QED BY <4>1, <4>2, SubjectType, LifePlusFacts DEF TypeOK
    <3>2. CASE DieDisconnected(c) \/ Crash(c)
      BY <3>2, CutShortType DEF DieDisconnected, Crash
    <3> QED BY <1>8, <3>1, <3>2
  <2> QED BY <2>1, <2>2, DieType
<1>9. ASSUME NEW c \in Connector, LoseConnection(c) PROVE TypeOK'
  <2>1. Inbox!BrokerTypeOK'
    BY <1>9, RequeueType DEF LoseConnection, TypeOK
  <2> QED BY <1>9, <2>1 DEF LoseConnection, TypeOK, procVars, history
<1>10. ASSUME NEW k \in Key, Expire(k) PROVE TypeOK'
  BY <1>10 DEF Expire, TypeOK, brokerVars, procVars, bounds, Inbox!BrokerTypeOK,
               NewLife, Counts, Life
<1>11. ASSUME NEW r \in Reply, Produce(r) PROVE TypeOK'
  <2>1. queue' \in Seq(Reply)
    BY <1>11, AppendProperties DEF Produce, Inbox!Publish, TypeOK, Inbox!BrokerTypeOK
  <2> QED BY <1>11, <2>1 DEF Produce, Inbox!Publish, TypeOK, Inbox!BrokerTypeOK,
                             procVars, history
<1>12. CASE UNCHANGED vars
  BY <1>12 DEF vars, brokerVars, procVars, history, bounds, TypeOK, Inbox!BrokerTypeOK
<1> QED BY <1>1, <1>2, <1>3, <1>4, <1>5, <1>6, <1>7, <1>8, <1>9, <1>10, <1>11, <1>12
        DEF Next, Handle, Fault

-----------------------------------------------------------------------------
(* The inductive invariant *)

LEMMA InvInit == Init => IInv
<1> SUFFICES ASSUME Init PROVE IInv
  OBVIOUS
<1> USE ConnectorAssumption
<1>1. TypeOK
  BY TypeInit
<1>2. /\ claims = {} /\ acked = {}
      /\ \A c \in Connector : pc[c] = "down"
      /\ \A k \in Key : life[k] = Counts(0, 0, 0, 0, 0)
  BY DEF Init, Down, Subject, NewLife
<1>3. \A c \in Connector : pc[c] \notin Working \cup {"settle", "dispatch", "post"}
  BY <1>2, Labels
<1>4. ClaimHeld /\ OneWorkerPerKey /\ BudgetLeft /\ OnlyUnsure
  BY <1>3 DEF ClaimHeld, OneWorkerPerKey, BudgetLeft, OnlyUnsure, WorksOn
<1>5. UnclaimedIsFresh /\ AttemptBudget /\ NoBlindResend
  BY <1>2 DEF UnclaimedIsFresh, AttemptBudget, NoBlindResend, Counts, NewLife
<1>6. ClaimedIsAccounted /\ AckedIsClaimed /\ UnkeyedIsAccounted
  BY <1>2, <1>3 DEF ClaimedIsAccounted, AckedIsClaimed, UnkeyedIsAccounted
<1> QED BY <1>1, <1>4, <1>5, <1>6 DEF IInv

\* Every step is of one of five kinds: it leaves claims, history and the set of
\* keys worked on alone, ...
Frame ==
    /\ UNCHANGED << claims, life, acked >>
    /\ \A d \in Connector, k \in Key : WorksOn(d, k)' <=> WorksOn(d, k)
    /\ \A d \in Connector, k \in Key :
         pc'[d] = "settle" /\ KeyOf[cur'[d]] = k => k \in claims
    /\ \A d \in Connector : pc'[d] \in {"dispatch", "post"} =>
         /\ pc[d] \in {"dispatch", "post"}
         /\ attempt'[d] \in 1 .. MaxRetries
         /\ attempt'[d] >= attempt[d]
    /\ \A d \in Connector : pc'[d] = "settle" =>
         (pc[d] = "settle" /\ cur'[d] = cur[d]) \/ Keyed(cur'[d])

\* ... or it is a step of a handling past the dedup check that adds n to its
\* history: it settles with something to show, dies leaving a trace, or goes
\* on; or it is a Claim, a Settle or an Expire.
Work(c, n) ==
    /\ pc[c] \in Working
    /\ life' = LifePlus(SubjectOf(cur[c]), n)
    /\ UNCHANGED << claims, acked >>
    /\ \A d \in Connector \ {c} :
         pc'[d] = pc[d] /\ cur'[d] = cur[d] /\ attempt'[d] = attempt[d]
    /\ n.tries <= 1
    /\ n.tries = 1 => pc[c] = "post"
    /\ n.accepted <= n.unsure + 1
    /\ \/ /\ pc'[c] = "settle" /\ cur'[c] = cur[c]
          /\ n.accepted > 0 \/ n.reported > 0
       \/ pc'[c] = "down" /\ n.cut > 0
       \/ /\ pc'[c] = "dispatch" /\ cur'[c] = cur[c] /\ n.accepted = n.unsure
          /\ pc[c] # "report"
          /\ attempt'[c] = attempt[c] + 1 /\ attempt[c] < MaxRetries
       \/ pc'[c] = "report" /\ cur'[c] = cur[c] /\ n.accepted = n.unsure

LEMMA FrameStep ==
    ASSUME IInv, TypeOK', Frame
    PROVE  IInv'
<1> USE ConnectorAssumption DEF Frame
<1>1. ClaimHeld'
  BY DEF IInv, ClaimHeld, WorksOn
<1>2. UnclaimedIsFresh' /\ AttemptBudget' /\ NoBlindResend' /\ AckedIsClaimed'
  BY DEF IInv, UnclaimedIsFresh, AttemptBudget, NoBlindResend, AckedIsClaimed
<1>3. OneWorkerPerKey' /\ OnlyUnsure' /\ ClaimedIsAccounted'
  <2>1. OneWorkerPerKey'
    BY DEF IInv, OneWorkerPerKey
  <2>2. OnlyUnsure'
    BY DEF IInv, OnlyUnsure
  <2>3. ClaimedIsAccounted'
    <3>1. claims \subseteq Key
      BY DEF IInv, TypeOK
    <3> QED BY <3>1 DEF IInv, ClaimedIsAccounted
  <2> QED BY <2>1, <2>2, <2>3
<1>4. BudgetLeft'
  <2>1. ASSUME NEW d \in Connector, NEW k \in Key, WorksOn(d, k)', pc'[d] # "report"
        PROVE  life'[k].tries < attempt'[d]
    <3>1. pc'[d] \in {"dispatch", "post"}
      BY <2>1, Labels DEF WorksOn
    <3>2. WorksOn(d, k) /\ pc[d] # "report" /\ attempt'[d] >= attempt[d]
      BY <2>1, <3>1
    <3>3. life[k].tries < attempt[d]
      BY <3>2 DEF IInv, BudgetLeft
    <3>4. life[k].tries \in Nat /\ attempt[d] \in Nat /\ attempt'[d] \in Nat
      BY DEF IInv, TypeOK, Life, Subject
    <3> QED BY <3>2, <3>3, <3>4
  <2> QED BY <2>1 DEF BudgetLeft
<1>5. UnkeyedIsAccounted'
  BY DEF IInv, UnkeyedIsAccounted
<1> QED BY <1>1, <1>2, <1>3, <1>4, <1>5 DEF IInv

LEMMA WorkStep ==
    ASSUME IInv, TypeOK', NEW c \in Connector, NEW n \in Life, Work(c, n)
    PROVE  IInv'
<1> USE ConnectorAssumption DEF Work
<1> DEFINE s == SubjectOf(cur[c])
<1>1. cur[c] \in Reply
  BY CurType, Labels DEF IInv, Down, Idle
<1>2. /\ s \in Subject
      /\ \A k \in Key : s = k <=> KeyOf[cur[c]] = k
      /\ ~Keyed(cur[c]) => s = cur[c]
      /\ Keyed(cur[c]) => s = KeyOf[cur[c]] /\ s \in Key
  BY <1>1, SubjectType
<1> HIDE DEF s
<1>3. /\ \A x \in Subject \ {s} : life'[x] = life[x]
      /\ life'[s].tries = life[s].tries + n.tries
      /\ life'[s].accepted = life[s].accepted + n.accepted
      /\ life'[s].unsure = life[s].unsure + n.unsure
      /\ life'[s].reported = life[s].reported + n.reported
      /\ life'[s].cut = life[s].cut + n.cut
  BY <1>2, LifePlusFacts DEF IInv, TypeOK, s
<1>4. /\ \A x \in Subject :
           /\ life[x].tries \in Nat /\ life[x].accepted \in Nat
           /\ life[x].unsure \in Nat /\ life[x].reported \in Nat
           /\ life[x].cut \in Nat
      /\ n.tries \in Nat /\ n.accepted \in Nat /\ n.unsure \in Nat
      /\ n.reported \in Nat /\ n.cut \in Nat
      /\ Key \subseteq Subject /\ Reply \subseteq Subject
      /\ \A d \in Connector : attempt[d] \in Nat
  BY DEF IInv, TypeOK, Life, Subject
<1>5. \A d \in Connector, k \in Key :
        WorksOn(d, k)' => WorksOn(d, k) /\ (d # c => k # s)
  <2> SUFFICES ASSUME NEW d \in Connector, NEW k \in Key, WorksOn(d, k)'
               PROVE  WorksOn(d, k) /\ (d # c => k # s)
    OBVIOUS
  <2>1. CASE d = c
    BY <2>1, Labels DEF WorksOn
  <2>2. CASE d # c
    <3>1. WorksOn(d, k)
      BY <2>2 DEF WorksOn
    <3>2. k = s => WorksOn(c, k)
      BY <1>2 DEF WorksOn
    <3> QED BY <2>2, <3>1, <3>2 DEF IInv, OneWorkerPerKey
  <2> QED BY <2>1, <2>2
<1>6. Keyed(cur[c]) => WorksOn(c, s)
  BY <1>2 DEF WorksOn
<1>7. ClaimHeld'
  <2> SUFFICES ASSUME NEW d \in Connector, NEW k \in Key,
                      pc'[d] \in Working \cup {"settle"}, KeyOf[cur'[d]] = k
               PROVE  k \in claims
    BY DEF ClaimHeld
  <2>1. pc[d] \in Working \cup {"settle"} /\ KeyOf[cur[d]] = k
    BY Labels
  <2> QED BY <2>1 DEF IInv, ClaimHeld
<1>8. UnclaimedIsFresh'
  <2> SUFFICES ASSUME NEW k \in Key, k \notin claims PROVE life'[k] = NewLife
    BY DEF UnclaimedIsFresh
  <2>1. k # s
    BY <1>2, <1>6 DEF IInv, ClaimHeld, WorksOn
  <2> QED BY <1>3, <1>4, <2>1 DEF IInv, UnclaimedIsFresh
<1>9. OneWorkerPerKey'
  BY <1>5 DEF IInv, OneWorkerPerKey
<1>10. AttemptBudget'
  <2> SUFFICES ASSUME NEW k \in Key PROVE life'[k].tries <= MaxRetries
    BY DEF AttemptBudget
  <2>1. CASE k # s
    BY <1>3, <1>4, <2>1 DEF IInv, AttemptBudget
  <2>2. CASE k = s /\ n.tries = 1
    <3>1. life[k].tries < attempt[c] /\ attempt[c] <= MaxRetries
      BY <1>2, <1>6, <2>2 DEF IInv, BudgetLeft, WorksOn
    <3> QED BY <1>3, <1>4, <2>2, <3>1
  <2>3. CASE k = s /\ n.tries = 0
    <3>1. life[k].tries <= MaxRetries
      BY DEF IInv, AttemptBudget
    <3> QED BY <1>3, <1>4, <2>3, <3>1
  <2> QED BY <1>4, <2>1, <2>2, <2>3
<1>11. BudgetLeft'
  <2>1. ASSUME NEW d \in Connector, pc'[d] \in {"dispatch", "post"}
        PROVE  attempt'[d] \in 1 .. MaxRetries
    <3>1. CASE d = c
      BY <1>4, <2>1, <3>1
    <3>2. CASE d # c
      BY <2>1, <3>2 DEF IInv, BudgetLeft
    <3> QED BY <3>1, <3>2
  <2>2. ASSUME NEW d \in Connector, NEW k \in Key, WorksOn(d, k)', pc'[d] # "report"
        PROVE  life'[k].tries < attempt'[d]
    <3>1. CASE d = c
      <4>1. pc'[c] = "dispatch" /\ pc[c] # "report" /\ attempt'[c] = attempt[c] + 1
        BY <2>2, <3>1, Labels DEF WorksOn
      <4>2. WorksOn(c, k) /\ k = s
        BY <1>2, <1>5, <2>2, <3>1 DEF WorksOn
      <4>3. life[k].tries < attempt[c]
        BY <4>1, <4>2 DEF IInv, BudgetLeft
      <4> QED BY <1>2, <1>3, <1>4, <3>1, <4>1, <4>2, <4>3
    <3>2. CASE d # c
      <4>1. WorksOn(d, k) /\ k # s /\ pc[d] # "report"
        BY <1>5, <2>2, <3>2
      <4> QED BY <1>3, <1>4, <3>2, <4>1 DEF IInv, BudgetLeft
    <3> QED BY <3>1, <3>2
  <2> QED BY <2>1, <2>2 DEF BudgetLeft
<1>12. NoBlindResend'
  <2> SUFFICES ASSUME NEW k \in Key PROVE life'[k].accepted <= 1 + life'[k].unsure
    BY DEF NoBlindResend
  <2>1. CASE k # s
    BY <1>3, <1>4, <2>1 DEF IInv, NoBlindResend
  <2>2. CASE k = s
    <3>1. WorksOn(c, k)
      BY <1>2, <2>2 DEF WorksOn
    <3>2. life[k].accepted <= life[k].unsure
      BY <3>1 DEF IInv, OnlyUnsure
    <3> QED BY <1>2, <1>3, <1>4, <2>2, <3>2
  <2> QED BY <2>1, <2>2
<1>13. OnlyUnsure'
  <2> SUFFICES ASSUME NEW d \in Connector, NEW k \in Key, WorksOn(d, k)'
               PROVE  life'[k].accepted <= life'[k].unsure
    BY DEF OnlyUnsure
  <2>1. life[k].accepted <= life[k].unsure
    BY <1>5 DEF IInv, OnlyUnsure
  <2>2. CASE k # s
    BY <1>3, <1>4, <2>1, <2>2
  <2>3. CASE k = s
    <3>1. d = c /\ n.accepted = n.unsure
      BY <1>5, <2>3, Labels DEF WorksOn
    <3> QED BY <1>2, <1>3, <1>4, <2>1, <2>3, <3>1
  <2> QED BY <2>2, <2>3
<1>14. ClaimedIsAccounted'
  <2> SUFFICES ASSUME MaxRetries > 0, NEW k \in claims
               PROVE  \/ life'[k].accepted > 0 \/ life'[k].reported > 0
                      \/ life'[k].cut > 0
                      \/ \E d \in Connector : WorksOn(d, k)'
    BY DEF ClaimedIsAccounted
  <2>1. k \in Key
    BY DEF IInv, TypeOK
  <2>2. CASE k # s
    <3>1. life'[k] = life[k]
      BY <1>3, <1>4, <2>1, <2>2
    <3>2. \A d \in Connector : WorksOn(d, k) => WorksOn(d, k)'
      BY <1>2, <2>1, <2>2 DEF WorksOn
    <3> QED BY <3>1, <3>2 DEF IInv, ClaimedIsAccounted
  <2>3. CASE k = s
    <3>1. CASE pc'[c] \in {"dispatch", "report"}
      <4>1. pc'[c] \in Working /\ cur'[c] = cur[c]
        BY <3>1, Labels
      <4> QED BY <1>2, <2>1, <2>3, <4>1 DEF WorksOn
    <3>2. CASE pc'[c] \in {"settle", "down"}
      <4>1. n.accepted > 0 \/ n.reported > 0 \/ n.cut > 0
        BY <3>2
      <4> QED BY <1>2, <1>3, <1>4, <2>3, <4>1
    <3> QED BY <3>1, <3>2
  <2> QED BY <2>2, <2>3
<1>15. AckedIsClaimed'
  BY DEF IInv, AckedIsClaimed
<1>16. UnkeyedIsAccounted'
  <2> SUFFICES ASSUME MaxRetries > 0, NEW r \in Reply, ~Keyed(r),
                      r \in acked \/ \E d \in Connector : pc'[d] = "settle" /\ cur'[d] = r
               PROVE  life'[r].accepted > 0 \/ life'[r].reported > 0
    BY DEF UnkeyedIsAccounted
  <2>1. CASE r \in acked \/ \E d \in Connector : pc[d] = "settle" /\ cur[d] = r
    <3>1. life[r].accepted > 0 \/ life[r].reported > 0
      BY <2>1 DEF IInv, UnkeyedIsAccounted
    <3> QED BY <1>2, <1>3, <1>4, <3>1
  <2>2. CASE pc'[c] = "settle" /\ cur'[c] = r
    <3>1. r = s /\ (n.accepted > 0 \/ n.reported > 0)
      BY <1>2, <2>2
    <3> QED BY <1>2, <1>3, <1>4, <3>1
  <2> QED BY <2>1, <2>2
<1> QED BY <1>7, <1>8, <1>9, <1>10, <1>11, <1>12, <1>13, <1>14, <1>15, <1>16 DEF IInv

LEMMA StepKinds ==
    ASSUME IInv, TypeOK', [Next]_vars
    PROVE  \/ Frame
           \/ \E c \in Connector, n \in Life : Work(c, n)
           \/ \E c \in Connector : Claim(c) \/ Settle(c)
           \/ \E k \in Key : Expire(k)
<1> USE ConnectorAssumption
<1> DEFINE Goal == Frame \/ \E c \in Connector, n \in Life : Work(c, n)
<1>0. /\ \A d \in Connector : pc[d] \in {"dispatch", "post"} =>
           attempt[d] \in 1 .. MaxRetries
      /\ \A d \in Connector, k \in Key :
           pc[d] = "settle" /\ KeyOf[cur[d]] = k => k \in claims
      /\ \A d \in Connector : attempt[d] \in Nat
      /\ pc \in [Connector -> Phases] /\ cur \in [Connector -> Reply \cup {NoReply}]
      /\ attempt \in [Connector -> 0 .. MaxRetries + 1]
  BY DEF IInv, TypeOK, BudgetLeft, ClaimHeld
<1>1. ASSUME NEW c \in Connector, Start(c) \/ Receive(c) PROVE Goal
  <2>1. /\ UNCHANGED << claims, life, acked, attempt >>
        /\ \A d \in Connector \ {c} : pc'[d] = pc[d] /\ cur'[d] = cur[d]
        /\ pc[c] \in {"down", "idle"} /\ pc'[c] \in {"idle", "received"}
    BY <1>0, <1>1 DEF Start, Receive, history, Goto, Down, Idle
  <2> QED BY <1>0, <2>1, Labels DEF Frame, WorksOn
<1>2. ASSUME NEW c \in Connector, RejectMalformed(c) PROVE Goal
  <2>1. /\ UNCHANGED << claims, life, acked, attempt, cur >>
        /\ \A d \in Connector \ {c} : pc'[d] = pc[d]
        /\ pc[c] = "received" /\ pc'[c] = "report"
    BY <1>0, <1>2 DEF RejectMalformed, history, Goto
  <2>2. KeyOf[cur[c]] \notin Key
    <3>1. cur[c] \in Reply
      BY <2>1, CurType DEF IInv, Down, Idle
    <3> QED BY <1>2, <3>1 DEF RejectMalformed
  <2> QED BY <1>0, <2>1, <2>2, Labels DEF Frame, WorksOn
<1>3. ASSUME NEW c \in Connector, SkipDuplicate(c) PROVE Goal
  <2>1. /\ UNCHANGED << claims, life, acked, attempt, cur >>
        /\ \A d \in Connector \ {c} : pc'[d] = pc[d]
        /\ pc[c] = "received" /\ pc'[c] = "settle"
        /\ KeyOf[cur[c]] \in claims
    BY <1>0, <1>3 DEF SkipDuplicate, history, Goto
  <2>2. Keyed(cur[c])
    BY <2>1 DEF IInv, TypeOK, Keyed
  <2> QED BY <1>0, <2>1, <2>2, Labels DEF Frame, WorksOn
<1>4. ASSUME NEW c \in Connector, RejectPlatform(c) PROVE Goal
  <2>1. /\ UNCHANGED << claims, life, acked, attempt, cur >>
        /\ \A d \in Connector \ {c} : pc'[d] = pc[d]
        /\ pc[c] = "dispatch" /\ pc'[c] = "report"
    BY <1>0, <1>4 DEF RejectPlatform, history, Goto
  <2> QED BY <1>0, <2>1, Labels DEF Frame, WorksOn
<1>5. ASSUME NEW c \in Connector, Resolve(c) PROVE Goal
  <2>1. /\ UNCHANGED << claims, life, acked, cur >>
        /\ \A d \in Connector \ {c} : pc'[d] = pc[d] /\ attempt'[d] = attempt[d]
        /\ pc[c] = "dispatch"
        /\ \/ pc'[c] = "post" /\ attempt'[c] = attempt[c]
           \/ pc'[c] = "dispatch" /\ attempt'[c] = attempt[c] + 1
              /\ attempt[c] < MaxRetries
           \/ pc'[c] = "report"
    BY <1>0, <1>5 DEF Resolve, AttemptFailed, history, Goto
  <2> QED BY <1>0, <2>1, Labels DEF Frame, WorksOn
<1>6. ASSUME NEW c \in Connector, Post(c) PROVE Goal
  <2>1. PICK n \in Life :
          /\ life' = LifePlus(SubjectOf(cur[c]), n)
          /\ n.tries = 1
          /\ \/ n.accepted = 1 /\ Goto(c, "settle") /\ UNCHANGED attempt
             \/ n.accepted = n.unsure /\ AttemptFailed(c)
    BY <1>6, PostEffect
  <2>2. /\ UNCHANGED << claims, acked, cur >>
        /\ pc[c] = "post"
    BY <1>6 DEF Post
  <2>3. \A d \in Connector \ {c} : pc'[d] = pc[d] /\ attempt'[d] = attempt[d]
    BY <1>0, <2>1 DEF AttemptFailed, Goto
  <2>4. n.accepted \in Nat /\ n.unsure \in Nat
    BY DEF Life
  <2>5. n.accepted <= n.unsure + 1 /\ n.tries <= 1
    BY <2>1, <2>4
  <2>6. \/ pc'[c] = "settle" /\ n.accepted > 0
        \/ /\ pc'[c] = "dispatch" /\ n.accepted = n.unsure
           /\ attempt'[c] = attempt[c] + 1 /\ attempt[c] < MaxRetries
        \/ pc'[c] = "report" /\ n.accepted = n.unsure
    BY <1>0, <2>1 DEF AttemptFailed, Goto
  <2>7. Work(c, n)
    BY <2>1, <2>2, <2>3, <2>5, <2>6, Labels DEF Work
  <2> QED BY <2>7
<1>7. ASSUME NEW c \in Connector, Report(c) PROVE Goal
  <2> DEFINE n == Counts(0, 0, 0, 1, 0)
  <2>1. n \in Life /\ n.tries = 0 /\ n.accepted = 0 /\ n.unsure = 0 /\ n.reported = 1
    BY DEF Counts, Life
  <2>2. /\ life' = LifePlus(SubjectOf(cur[c]), n)
        /\ UNCHANGED << claims, acked, cur, attempt >>
        /\ pc[c] = "report" /\ pc'[c] = "settle"
        /\ \A d \in Connector \ {c} : pc'[d] = pc[d]
    BY <1>0, <1>7 DEF Report, Goto
  <2> HIDE DEF n
  <2>3. Work(c, n)
    BY <2>1, <2>2, Labels DEF Work
  <2> QED BY <2>1, <2>3
<1>8. ASSUME NEW c \in Connector, Die(c), pc[c] \notin Working, UNCHANGED life
      PROVE  Goal
  <2>1. /\ UNCHANGED << claims, life, acked >>
        /\ \A d \in Connector \ {c} :
             pc'[d] = pc[d] /\ cur'[d] = cur[d] /\ attempt'[d] = attempt[d]
        /\ pc'[c] = "down"
    BY <1>0, <1>8 DEF Die, Goto, Down
  <2> QED BY <1>0, <1>8, <2>1, Labels DEF Frame, WorksOn
<1>9. ASSUME NEW c \in Connector, NEW n \in Life, Die(c), pc[c] \in Working,
             life' = LifePlus(SubjectOf(cur[c]), n), n.cut = 1,
             n.accepted = n.unsure, n.tries <= 1, n.tries = 1 => pc[c] = "post"
      PROVE  Goal
  <2>1. /\ UNCHANGED << claims, acked >>
        /\ \A d \in Connector \ {c} :
             pc'[d] = pc[d] /\ cur'[d] = cur[d] /\ attempt'[d] = attempt[d]
        /\ pc'[c] = "down"
    BY <1>0, <1>9 DEF Die, Goto, Down
  <2>2. n.accepted <= n.unsure + 1
    BY <1>9 DEF Life
  <2>3. Work(c, n)
    BY <1>9, <2>1, <2>2 DEF Work
  <2> QED BY <2>3
<1>10. ASSUME NEW c \in Connector, Crash(c) \/ DieDisconnected(c) PROVE Goal
  <2>1. Die(c) /\ life' = CutShort(c)
    BY <1>10 DEF Crash, DieDisconnected
  <2>2. CASE pc[c] \notin Working
    BY <1>8, <2>1, <2>2 DEF CutShort
  <2>3. CASE pc[c] \in Working
    <3> DEFINE n == Counts(0, 0, 0, 0, 1)
    <3>1. n \in Life /\ n.tries = 0 /\ n.accepted = n.unsure /\ n.cut = 1
      BY DEF Counts, Life
    <3>2. life' = LifePlus(SubjectOf(cur[c]), n)
      BY <2>1, <2>3 DEF CutShort
    <3> HIDE DEF n
    <3> HIDE DEF Goal
    <3> QED BY <1>9, <2>1, <2>3, <3>1, <3>2
  <2> QED BY <2>2, <2>3
<1>11. ASSUME NEW c \in Connector, PostRaises(c) PROVE Goal
  <2>1. PICK n \in Life :
          /\ life' = LifePlus(SubjectOf(cur[c]), n)
          /\ n.tries = 1
          /\ n.accepted = n.unsure
          /\ n.cut = 1
    BY <1>11, PostRaisesEffect
  <2>2. Die(c) /\ pc[c] = "post"
    BY <1>11 DEF PostRaises
  <2> HIDE DEF Goal
  <2> QED BY <1>9, <2>1, <2>2, Labels
<1>12. ASSUME UNCHANGED << claims, life, acked, pc, cur, attempt >> PROVE Goal
  BY <1>0, <1>12, Labels DEF Frame, WorksOn
<1>13. ASSUME NEW c \in Connector, LoseConnection(c) PROVE Goal
  <2> HIDE DEF Goal
  <2> QED BY <1>12, <1>13 DEF LoseConnection, procVars, history
<1>14. ASSUME NEW r \in Reply, Produce(r) PROVE Goal
  <2> HIDE DEF Goal
  <2> QED BY <1>12, <1>14 DEF Produce, procVars, history
<1>15. CASE UNCHANGED vars
  <2> HIDE DEF Goal
  <2>1. Goal
    BY <1>12, <1>15 DEF vars, brokerVars, procVars, history, bounds
  <2> QED BY <2>1 DEF Goal
<1>16. CASE Next
  <2> HIDE DEF Goal
  <2>1. \/ Goal
        \/ \E c \in Connector : Claim(c) \/ Settle(c)
        \/ \E k \in Key : Expire(k)
    BY <1>1, <1>2, <1>3, <1>4, <1>5, <1>6, <1>7, <1>10, <1>11, <1>13, <1>14, <1>16
       DEF Next, Handle, Fault
  <2> QED BY <2>1 DEF Goal
<1> QED BY <1>15, <1>16

LEMMA ClaimStep ==
    ASSUME IInv, TypeOK', NEW c \in Connector, Claim(c)
    PROVE  IInv'
<1> USE ConnectorAssumption
<1> DEFINE k0 == KeyOf[cur[c]]
<1>1. /\ pc[c] = "received" /\ k0 \notin claims
      /\ claims' = (IF Keyed(cur[c]) THEN claims \cup {k0} ELSE claims)
      /\ UNCHANGED << cur, life, acked >>
      /\ attempt'[c] = 1
      /\ pc'[c] = (IF MaxRetries = 0 THEN "settle" ELSE "dispatch")
      /\ \A d \in Connector \ {c} : pc'[d] = pc[d] /\ attempt'[d] = attempt[d]
  BY DEF Claim, Goto, IInv, TypeOK, history
<1>2. /\ cur[c] \in Reply
      /\ Keyed(cur[c]) => k0 \in Key
      /\ \A k \in Key : k0 = k => Keyed(cur[c])
  <2>1. cur[c] \in Reply
    BY <1>1, CurType DEF IInv, Down, Idle
  <2> QED BY <2>1 DEF Keyed
<1>3. claims \subseteq claims' /\ claims' \subseteq Key /\ claims \subseteq Key
  BY <1>1, <1>2 DEF IInv, TypeOK
<1>4. \A d \in Connector, k \in Key : WorksOn(d, k) => d # c /\ k # k0 /\ WorksOn(d, k)'
  BY <1>1, Labels DEF IInv, ClaimHeld, WorksOn
<1>5. \A d \in Connector, k \in Key :
        WorksOn(d, k)' => \/ d # c /\ WorksOn(d, k)
                          \/ d = c /\ k = k0 /\ pc'[c] = "dispatch"
  BY <1>1, Labels DEF WorksOn
<1>6. k0 \in Key => life[k0] = NewLife
  BY <1>1 DEF IInv, UnclaimedIsFresh
<1> HIDE DEF k0
<1>7. ClaimHeld'
  <2> SUFFICES ASSUME NEW d \in Connector, NEW k \in Key,
                      pc'[d] \in Working \cup {"settle"}, KeyOf[cur'[d]] = k
               PROVE  k \in claims'
    BY DEF ClaimHeld
  <2>1. CASE d = c
    BY <1>1, <1>2, <2>1 DEF k0
  <2>2. CASE d # c
    BY <1>1, <1>3, <2>2 DEF IInv, ClaimHeld
  <2> QED BY <2>1, <2>2
<1>8. UnclaimedIsFresh' /\ AttemptBudget' /\ NoBlindResend' /\ AckedIsClaimed'
  BY <1>1, <1>3 DEF IInv, UnclaimedIsFresh, AttemptBudget, NoBlindResend, AckedIsClaimed
<1>9. OneWorkerPerKey'
  <2> SUFFICES ASSUME NEW d \in Connector, NEW e \in Connector, NEW k \in Key,
                      WorksOn(d, k)', WorksOn(e, k)'
               PROVE  d = e
    BY DEF OneWorkerPerKey
  <2> QED BY <1>4, <1>5 DEF IInv, OneWorkerPerKey
<1>10. BudgetLeft'
  <2>1. ASSUME NEW d \in Connector, pc'[d] \in {"dispatch", "post"}
        PROVE  attempt'[d] \in 1 .. MaxRetries
    BY <1>1, <2>1 DEF IInv, BudgetLeft
  <2>2. ASSUME NEW d \in Connector, NEW k \in Key, WorksOn(d, k)', pc'[d] # "report"
        PROVE  life'[k].tries < attempt'[d]
    <3>1. CASE d = c
      <4>1. life[k] = NewLife
        BY <1>5, <1>6, <2>2, <3>1
      <4> QED BY <1>1, <3>1, <4>1 DEF NewLife, Counts
    <3>2. CASE d # c
      <4>1. WorksOn(d, k) /\ pc[d] # "report"
        BY <1>1, <1>5, <2>2, <3>2
      <4> QED BY <1>1, <3>2, <4>1 DEF IInv, BudgetLeft
    <3> QED BY <3>1, <3>2
  <2> QED BY <2>1, <2>2 DEF BudgetLeft
<1>11. OnlyUnsure'
  <2> SUFFICES ASSUME NEW d \in Connector, NEW k \in Key, WorksOn(d, k)'
               PROVE  life'[k].accepted <= life'[k].unsure
    BY DEF OnlyUnsure
  <2>1. CASE WorksOn(d, k)
    BY <1>1, <2>1 DEF IInv, OnlyUnsure
  <2>2. CASE k = k0
    <3>1. life[k] = NewLife
      BY <1>6, <2>2
    <3> QED BY <1>1, <3>1 DEF NewLife, Counts
  <2> QED BY <1>5, <2>1, <2>2
<1>12. ClaimedIsAccounted'
  <2> SUFFICES ASSUME MaxRetries > 0, NEW k \in claims'
               PROVE  \/ life[k].accepted > 0 \/ life[k].reported > 0
                      \/ life[k].cut > 0
                      \/ \E d \in Connector : WorksOn(d, k)'
    BY <1>1 DEF ClaimedIsAccounted
  <2>1. CASE k \in claims
    <3>1. k \in Key
      BY <1>3, <2>1
    <3>2. \A d \in Connector : WorksOn(d, k) => WorksOn(d, k)'
      BY <1>4, <3>1
    <3> QED BY <2>1, <3>2 DEF IInv, ClaimedIsAccounted
  <2>2. CASE k \notin claims
    <3>1. k = k0
      BY <1>1, <2>2
    <3>2. WorksOn(c, k)'
      BY <1>1, <3>1, Labels DEF WorksOn, k0
    <3> QED BY <3>2
  <2> QED BY <2>1, <2>2
<1>13. UnkeyedIsAccounted'
  BY <1>1 DEF IInv, UnkeyedIsAccounted
<1> QED BY <1>7, <1>8, <1>9, <1>10, <1>11, <1>12, <1>13 DEF IInv

LEMMA SettleStep ==
    ASSUME IInv, TypeOK', NEW c \in Connector, Settle(c)
    PROVE  IInv'
<1> USE ConnectorAssumption
<1>1. /\ pc[c] = "settle" /\ pc'[c] = "idle"
      /\ UNCHANGED << claims, life >>
      /\ acked' = acked \cup {cur[c]}
      /\ \A d \in Connector \ {c} :
           pc'[d] = pc[d] /\ cur'[d] = cur[d] /\ attempt'[d] = attempt[d]
  BY DEF Settle, Goto, Idle, IInv, TypeOK
<1>2. cur[c] \in Reply
  BY <1>1, CurType DEF IInv, Down, Idle
<1>3. \A d \in Connector, k \in Key : WorksOn(d, k)' <=> WorksOn(d, k)
  BY <1>1, Labels DEF WorksOn
<1>4. ClaimHeld'
  BY <1>1, Labels DEF IInv, ClaimHeld
<1>5. UnclaimedIsFresh' /\ AttemptBudget' /\ NoBlindResend'
  BY <1>1 DEF IInv, UnclaimedIsFresh, AttemptBudget, NoBlindResend
<1>6. OneWorkerPerKey' /\ OnlyUnsure'
  BY <1>1, <1>3 DEF IInv, OneWorkerPerKey, OnlyUnsure
<1>7. BudgetLeft'
  <2>1. \A d \in Connector : pc'[d] \in {"dispatch", "post"} => d # c
    BY <1>1
  <2>2. \A d \in Connector, k \in Key : WorksOn(d, k)' => d # c
    BY <1>1, Labels DEF WorksOn
  <2> QED BY <1>1, <1>3, <2>1, <2>2 DEF IInv, BudgetLeft
<1>8. ClaimedIsAccounted'
  <2>1. claims \subseteq Key
    BY DEF IInv, TypeOK
  <2> QED BY <1>1, <1>3, <2>1 DEF IInv, ClaimedIsAccounted
<1>9. AckedIsClaimed'
  <2>1. Keyed(cur[c]) => KeyOf[cur[c]] \in claims
    BY <1>1, <1>2 DEF IInv, ClaimHeld, Keyed
  <2> QED BY <1>1, <2>1 DEF IInv, AckedIsClaimed, Keyed
<1>10. UnkeyedIsAccounted'
  <2> SUFFICES ASSUME MaxRetries > 0, NEW r \in Reply, ~Keyed(r),
                      r \in acked' \/ \E d \in Connector : pc'[d] = "settle" /\ cur'[d] = r
               PROVE  life[r].accepted > 0 \/ life[r].reported > 0
    BY <1>1 DEF UnkeyedIsAccounted, Keyed
  <2>1. r \in acked \/ \E d \in Connector : pc[d] = "settle" /\ cur[d] = r
    BY <1>1
  <2> QED BY <2>1 DEF IInv, UnkeyedIsAccounted
<1> QED BY <1>4, <1>5, <1>6, <1>7, <1>8, <1>9, <1>10 DEF IInv

LEMMA ExpireStep ==
    ASSUME IInv, TypeOK', NEW x \in Key, Expire(x)
    PROVE  IInv'
<1> USE ConnectorAssumption
<1>1. /\ claims' = claims \ {x}
      /\ acked' = {r \in acked : KeyOf[r] # x}
      /\ UNCHANGED << pc, cur, attempt >>
      /\ \A d \in Connector :
           pc[d] \in Working \cup {"settle"} => KeyOf[cur[d]] # x
  BY DEF Expire, procVars
<1>2. life'[x] = NewLife /\ \A s \in Subject \ {x} : life'[s] = life[s]
  BY DEF Expire, IInv, TypeOK, Subject
<1>3. /\ claims \subseteq Key /\ Key \subseteq Subject /\ Reply \subseteq Subject
      /\ x \notin Reply /\ acked \subseteq Reply
  BY DEF IInv, TypeOK, Subject
<1>4. \A d \in Connector, k \in Key : WorksOn(d, k)' <=> WorksOn(d, k)
  BY <1>1 DEF WorksOn
<1>5. \A d \in Connector, k \in Key : WorksOn(d, k) => k # x
  BY <1>1 DEF WorksOn
<1>6. ClaimHeld'
  BY <1>1 DEF IInv, ClaimHeld
<1>7. UnclaimedIsFresh'
  BY <1>1, <1>2, <1>3 DEF IInv, UnclaimedIsFresh
<1>8. AttemptBudget' /\ NoBlindResend'
  <2>1. AttemptBudget'
    BY <1>2, <1>3 DEF IInv, AttemptBudget, NewLife, Counts
  <2>2. NoBlindResend'
    BY <1>2, <1>3 DEF IInv, NoBlindResend, NewLife, Counts
  <2> QED BY <2>1, <2>2
<1>9. OneWorkerPerKey'
  BY <1>4 DEF IInv, OneWorkerPerKey
<1>10. OnlyUnsure' /\ BudgetLeft'
  <2>1. OnlyUnsure'
    BY <1>2, <1>3, <1>4, <1>5 DEF IInv, OnlyUnsure
  <2>2. BudgetLeft'
    BY <1>1, <1>2, <1>3, <1>4, <1>5 DEF IInv, BudgetLeft
  <2> QED BY <2>1, <2>2
<1>11. ClaimedIsAccounted'
  BY <1>1, <1>2, <1>3, <1>4 DEF IInv, ClaimedIsAccounted
<1>12. AckedIsClaimed'
  BY <1>1, <1>3 DEF IInv, AckedIsClaimed
<1>13. UnkeyedIsAccounted'
  <2>1. \A r \in Reply : life'[r] = life[r]
    BY <1>2, <1>3
  <2> QED BY <1>1, <2>1 DEF IInv, UnkeyedIsAccounted
<1> QED BY <1>6, <1>7, <1>8, <1>9, <1>10, <1>11, <1>12, <1>13 DEF IInv

LEMMA InvStep == IInv /\ [Next]_vars => IInv'
<1> SUFFICES ASSUME IInv, [Next]_vars PROVE IInv'
  OBVIOUS
<1>1. TypeOK'
  BY TypeStep DEF IInv
<1> QED BY <1>1, StepKinds, FrameStep, WorkStep, ClaimStep, SettleStep, ExpireStep

LEMMA Invariant == Spec => []IInv
BY InvInit, InvStep, PTL DEF Spec

\* Every reachable state is well typed: the state the model describes is the
\* state of the code, for any number of processes, payloads and faults.
THEOREM Typing == Spec => []TypeOK
BY TypeInit, TypeStep, PTL DEF Spec

\* Twitch sees at most MaxRetries POSTs for a key while its claim lasts:
\* ReplySubscriber.handle claims before it sends and never releases.
THEOREM Budget == Spec => []AttemptBudget
BY Invariant, PTL DEF IInv

\* A key is posted to chat twice only after an accepted POST looked like a
\* failure to TwitchSender: never because of a redelivery or a restart.
THEOREM BlindResend == Spec => []NoBlindResend
BY Invariant, PTL DEF IInv

\* Both together, the property the runs check.
THEOREM Posts == Spec => []PostsBounded
BY Budget, BlindResend, PTL DEF PostsBounded

\* Two processes never work on one key at the same time, whatever the broker
\* redelivers: the INSERT OR IGNORE of IdempotencyStore.claim lets one in.
THEOREM OneWorker == Spec => []OneWorkerPerKey
BY Invariant, PTL DEF IInv

\* An acknowledged reply is in chat or reported as system.error, unless a
\* handling of its key was cut short (keyed replies only).
THEOREM Accounted == Spec => []AckedIsAccounted
<1>1. ASSUME IInv PROVE AckedIsAccounted
  <2> SUFFICES ASSUME MaxRetries > 0, NEW r \in acked
               PROVE  LET l == life[SubjectOf(r)]
                      IN  \/ l.accepted > 0
                          \/ l.reported > 0
                          \/ Keyed(r) /\ \/ l.cut > 0
                                         \/ \E c \in Connector : WorksOn(c, KeyOf[r])
    BY DEF AckedIsAccounted
  <2>1. r \in Reply
    BY <1>1 DEF IInv, TypeOK
  <2>2. CASE Keyed(r)
    <3>1. KeyOf[r] \in claims
      BY <1>1, <2>2 DEF IInv, AckedIsClaimed
    <3> QED BY <1>1, <2>2, <3>1 DEF IInv, ClaimedIsAccounted, SubjectOf
  <2>3. CASE ~Keyed(r)
    BY <1>1, <2>1, <2>3 DEF IInv, UnkeyedIsAccounted, SubjectOf
  <2> QED BY <2>2, <2>3
<1> QED BY <1>1, Invariant, PTL

-----------------------------------------------------------------------------
(* The connector implements AtMostOnce *)

LEMMA StatusValues ==
    ASSUME NEW k \in Key
    PROVE  /\ k \notin claims => StatusOf(k) = "fresh"
           /\ k \in claims /\ (\E c \in Connector : WorksOn(c, k))
                => StatusOf(k) = "running"
           /\ k \in claims /\ ~(\E c \in Connector : WorksOn(c, k))
                => StatusOf(k) \in {"sent", "reported", "lost"}
BY DEF StatusOf

\* What StatusOf depends on.
LEMMA StatusFrame ==
    ASSUME NEW k \in Key, k \in claims' <=> k \in claims, life'[k] = life[k],
           \A c \in Connector : WorksOn(c, k)' <=> WorksOn(c, k)
    PROVE  StatusOf(k)' = StatusOf(k)
BY DEF StatusOf

LEMMA MoveTo ==
    ASSUME NEW k \in Key, NEW from, NEW to,
           StatusOf(k) \in from, StatusOf(k)' \in to,
           \A j \in Key \ {k} : StatusOf(j)' = StatusOf(j)
    PROVE  AMO!Move(k, from, to)
<1>1. [j \in Key |-> StatusOf(j)]'
        = [[j \in Key |-> StatusOf(j)] EXCEPT ![k] = StatusOf(k)']
  OBVIOUS
<1> QED BY <1>1 DEF AMO!Move

LEMMA WorkStatus ==
    ASSUME IInv, NEW c \in Connector, NEW n \in Life, Work(c, n)
    PROVE  \/ \A k \in Key : StatusOf(k)' = StatusOf(k)
           \/ \E k \in Key : AMO!Finish(k)
<1> USE ConnectorAssumption
<1> DEFINE s == SubjectOf(cur[c])
<1>1. cur[c] \in Reply /\ pc[c] \in Working
  BY CurType, Labels DEF IInv, Work, Down, Idle
<1>2. /\ s \in Subject
      /\ \A k \in Key : s = k <=> KeyOf[cur[c]] = k
  BY <1>1, SubjectType
<1>3. \A k \in Key : k # s => life'[k] = life[k]
  BY <1>2, LifePlusFacts DEF IInv, TypeOK, Work, Subject
<1>4. \A k \in Key, d \in Connector : k # s => (WorksOn(d, k)' <=> WorksOn(d, k))
  BY <1>1, <1>2, Labels DEF Work, WorksOn
<1>5. claims' = claims
  BY DEF Work
<1> HIDE DEF s
<1>6. \A k \in Key : k # s => StatusOf(k)' = StatusOf(k)
  BY <1>3, <1>4, <1>5, StatusFrame
<1>7. CASE s \notin Key
  BY <1>6, <1>7
<1>8. CASE s \in Key
  <2>1. PICK k \in Key : k = s
    BY <1>8
  <2>2. WorksOn(c, k) /\ k \in claims
    BY <1>1, <1>2, <2>1 DEF WorksOn, IInv, ClaimHeld
  <2>3. StatusOf(k) = "running"
    BY <2>2, StatusValues
  <2>4. StatusOf(k)' \in {"running", "sent", "reported", "lost"}
    BY <1>5, <2>2 DEF StatusOf
  <2>5. \A j \in Key \ {k} : StatusOf(j)' = StatusOf(j)
    BY <1>6, <2>1
  <2>6. CASE StatusOf(k)' = "running"
    BY <2>3, <2>5, <2>6
  <2>7. CASE StatusOf(k)' \in {"sent", "reported", "lost"}
    <3>1. AMO!Move(k, {"running"}, {"sent", "reported", "lost"})
      BY <2>3, <2>5, <2>7, MoveTo
    <3> QED BY <3>1 DEF AMO!Finish
  <2> QED BY <2>4, <2>6, <2>7
<1> QED BY <1>7, <1>8

LEMMA ClaimStatus ==
    ASSUME IInv, MaxRetries > 0, NEW c \in Connector, Claim(c)
    PROVE  \/ \A k \in Key : StatusOf(k)' = StatusOf(k)
           \/ \E k \in Key : AMO!Begin(k)
<1> USE ConnectorAssumption
<1> DEFINE k0 == KeyOf[cur[c]]
<1>1. /\ pc[c] = "received" /\ k0 \notin claims
      /\ claims' = (IF Keyed(cur[c]) THEN claims \cup {k0} ELSE claims)
      /\ UNCHANGED << cur, life >>
      /\ pc'[c] = "dispatch"
      /\ \A d \in Connector \ {c} : pc'[d] = pc[d]
  BY DEF Claim, Goto, IInv, TypeOK, history
<1>2. cur[c] \in Reply /\ (Keyed(cur[c]) <=> k0 \in Key)
  <2>1. cur[c] \in Reply
    BY <1>1, CurType DEF IInv, Down, Idle
  <2> QED BY <2>1 DEF Keyed
<1>3. \A k \in Key, d \in Connector : k # k0 => (WorksOn(d, k)' <=> WorksOn(d, k))
  BY <1>1, Labels DEF WorksOn
<1>4. \A k \in Key : k = k0 => WorksOn(c, k)'
  BY <1>1, Labels DEF WorksOn
<1> HIDE DEF k0
<1>5. \A k \in Key : k # k0 => StatusOf(k)' = StatusOf(k)
  BY <1>1, <1>3, StatusFrame
<1>6. CASE k0 \notin Key
  BY <1>5, <1>6
<1>7. CASE k0 \in Key
  <2>1. PICK k \in Key : k = k0
    BY <1>7
  <2>2. StatusOf(k) = "fresh"
    BY <1>1, <2>1, StatusValues
  <2>3. k \in claims' /\ WorksOn(c, k)'
    BY <1>1, <1>2, <1>4, <2>1 DEF k0, WorksOn
  <2>4. StatusOf(k)' = "running"
    BY <2>3 DEF StatusOf
  <2>5. \A j \in Key \ {k} : StatusOf(j)' = StatusOf(j)
    BY <1>5, <2>1
  <2>6. AMO!Move(k, {"fresh"}, {"running"})
    BY <2>2, <2>4, <2>5, MoveTo
  <2> QED BY <2>6 DEF AMO!Begin
<1> QED BY <1>6, <1>7

LEMMA ExpireStatus ==
    ASSUME IInv, NEW x \in Key, Expire(x)
    PROVE  AMO!Forget(x)
<1>1. /\ x \in claims /\ claims' = claims \ {x}
      /\ UNCHANGED << pc, cur >>
      /\ ~ \E d \in Connector : WorksOn(d, x)
  BY DEF Expire, procVars, WorksOn
<1>2. \A k \in Key \ {x} : life'[k] = life[k]
  BY DEF Expire, IInv, TypeOK, Subject
<1>3. StatusOf(x) \in {"sent", "reported", "lost"}
  BY <1>1, StatusValues
<1>4. StatusOf(x)' = "fresh"
  BY <1>1 DEF StatusOf
<1>5. \A k \in Key \ {x} : StatusOf(k)' = StatusOf(k)
  <2>1. \A d \in Connector, k \in Key : WorksOn(d, k)' <=> WorksOn(d, k)
    BY <1>1 DEF WorksOn
  <2> QED BY <1>1, <1>2, <2>1, StatusFrame
<1>6. AMO!Move(x, {"sent", "reported", "lost"}, {"fresh"})
  BY <1>3, <1>4, <1>5, MoveTo
<1> QED BY <1>6 DEF AMO!Forget

\* With at least one attempt allowed, the connector implements the at-most-once
\* contract: a claimed key is worked on once, and ends as sent, reported or lost.
THEOREM Implements == MaxRetries > 0 /\ Spec => ImplementsAtMostOnce
<1> SUFFICES ASSUME MaxRetries > 0 PROVE Spec => AMO!AMOSpec
  BY DEF ImplementsAtMostOnce
<1> DEFINE st == [k \in Key |-> StatusOf(k)]
<1>1. Init => AMO!AMOInit
  BY DEF Init, AMO!AMOInit, StatusOf
<1>2. IInv /\ IInv' /\ [Next]_vars => [AMO!AMONext]_st
  <2> SUFFICES ASSUME IInv, IInv', [Next]_vars PROVE AMO!AMONext \/ st' = st
    OBVIOUS
  <2>1. (\A k \in Key : StatusOf(k)' = StatusOf(k)) => st' = st
    OBVIOUS
  <2>2. CASE Frame
    <3>1. \A k \in Key : StatusOf(k)' = StatusOf(k)
      BY <2>2, StatusFrame DEF Frame
    <3> QED BY <2>1, <3>1
  <2>3. ASSUME NEW c \in Connector, NEW n \in Life, Work(c, n)
        PROVE  AMO!AMONext \/ st' = st
    <3> HIDE DEF st
    <3> QED BY <2>1, <2>3, WorkStatus DEF AMO!AMONext
  <2>4. ASSUME NEW c \in Connector, Claim(c) PROVE AMO!AMONext \/ st' = st
    <3> HIDE DEF st
    <3> QED BY <2>1, <2>4, ClaimStatus DEF AMO!AMONext
  <2>5. ASSUME NEW c \in Connector, Settle(c) PROVE AMO!AMONext \/ st' = st
    <3>1. /\ UNCHANGED << claims, life >>
          /\ \A d \in Connector, k \in Key : WorksOn(d, k)' <=> WorksOn(d, k)
      BY <2>5, Labels DEF Settle, Goto, Idle, IInv, TypeOK, WorksOn
    <3>2. \A k \in Key : StatusOf(k)' = StatusOf(k)
      BY <3>1, StatusFrame
    <3> QED BY <2>1, <3>2
  <2>6. ASSUME NEW x \in Key, Expire(x) PROVE AMO!AMONext \/ st' = st
    BY <2>6, ExpireStatus DEF AMO!AMONext
  <2>7. TypeOK'
    BY DEF IInv
  <2> HIDE DEF st
  <2> QED BY <2>2, <2>3, <2>4, <2>5, <2>6, <2>7, StepKinds
<1> QED BY <1>1, <1>2, Invariant, PTL DEF Spec, AMO!AMOSpec

-----------------------------------------------------------------------------
(***************************************************************************)
(* The throttle respects its window and its channel interval, and never    *)
(* oversleeps, for every limit, interval, number of threads and run.       *)
(***************************************************************************)

\* The deque is the tail of everything sent; what it dropped is out of the
\* window already.
DequeIsTail ==
    /\ Len(timestamps) <= Len(sent)
    /\ \A i \in 1 .. Len(timestamps) :
         timestamps[i] = sent[Len(sent) - Len(timestamps) + i].at
    /\ \A i \in 1 .. Len(sent) - Len(timestamps) :
         clock - sent[i].at >= WindowSeconds

\* last[ch] is the time of the latest message to ch, and lies in the past.
LastIsLatest ==
    \A ch \in PacedChannel :
        /\ last[ch] # Never =>
             /\ last[ch] <= clock
             /\ \E i \in DOMAIN sent : sent[i].ch = ch /\ sent[i].at = last[ch]
        /\ \A i \in DOMAIN sent :
             sent[i].ch = ch => last[ch] # Never /\ sent[i].at <= last[ch]

\* Whoever holds the lock after its decision may still go ahead.
GrantIsSafe ==
    /\ \A t, s \in Thread : place[t] = "granting" /\ place[s] = "granting" => t = s
    /\ \A t \in Thread : place[t] = "granting" =>
         /\ Len(timestamps) < WindowLimit
         /\ last[channel[t]] # Never => clock - last[channel[t]] >= Interval

ThrottleInv == /\ ThrottleTypeOK
        /\ DequeIsTail
        /\ LastIsLatest
        /\ GrantIsSafe
        /\ WindowRespected
        /\ ChannelSpaced
        /\ NoOversleep

LEMMA ThrottleTypeInit == ThrottleInit => ThrottleTypeOK
BY ThrottleAssumption DEF ThrottleInit, ThrottleTypeOK, Time, Never

\* The deque left by a pass of the popleft loop: a tail of the old one.
LEMMA PrunedDeque ==
    ASSUME NEW q \in Seq(Nat), NEW n \in 0 .. Len(q)
    PROVE  /\ SubSeq(q, n + 1, Len(q)) \in Seq(Nat)
           /\ Len(SubSeq(q, n + 1, Len(q))) = Len(q) - n
           /\ \A i \in 1 .. Len(q) - n : SubSeq(q, n + 1, Len(q))[i] = q[n + i]
<1>1. \A i \in n + 1 .. Len(q) : q[i] \in Nat
  BY ElementOfSeq
<1>2. /\ SubSeq(q, n + 1, Len(q)) \in Seq(Nat)
      /\ Len(SubSeq(q, n + 1, Len(q))) =
           IF n + 1 <= Len(q) THEN Len(q) - (n + 1) + 1 ELSE 0
      /\ \A i \in 1 .. Len(q) - (n + 1) + 1 :
           SubSeq(q, n + 1, Len(q))[i] = q[n + 1 + i - 1]
  BY <1>1, SubSeqProperties, LenProperties
<1> QED BY <1>2, LenProperties

\* What Look does, with the deque it leaves behind under a name of its own.
LookGrants(t, kept) ==
    /\ WindowDue(kept) <= clock
    /\ ChannelDue(channel[t]) <= clock
    /\ place' = [place EXCEPT ![t] = "granting"]
    /\ wake' = wake

LookSleeps(t, kept) ==
    \E due \in {WindowDue(kept), ChannelDue(channel[t])} :
        /\ due > clock
        /\ wake' = [wake EXCEPT ![t] = due]
        /\ place' = place

LookOutcome(t, n, kept) ==
    /\ Len(kept) = Len(timestamps) - n
    /\ \A i \in 1 .. Len(kept) : kept[i] = timestamps[n + i]
    /\ Pops(n)
    /\ timestamps' = kept
    /\ WindowDue(kept) \in Nat
    /\ ChannelDue(channel[t]) \in Nat
    /\ LookGrants(t, kept) \/ LookSleeps(t, kept)

LEMMA LookCases ==
    ASSUME ThrottleTypeOK, NEW t \in Thread, Look(t)
    PROVE  \E n \in 0 .. Len(timestamps), kept \in Seq(Nat) :
             LookOutcome(t, n, kept)
<1> USE ThrottleAssumption DEF ThrottleTypeOK, Time, Never
<1>1. PICK n \in 0 .. Len(timestamps) :
        LET kept == SubSeq(timestamps, n + 1, Len(timestamps))
            due  == Later(WindowDue(kept), ChannelDue(channel[t]))
        IN  /\ Pops(n)
            /\ timestamps' = kept
            /\ \/ /\ due <= clock
                  /\ place' = [place EXCEPT ![t] = "granting"]
                  /\ UNCHANGED wake
               \/ /\ due > clock
                  /\ wake' = [wake EXCEPT ![t] = due]
                  /\ UNCHANGED place
  BY DEF Look
<1> DEFINE kept == SubSeq(timestamps, n + 1, Len(timestamps))
<1>2. /\ kept \in Seq(Nat)
      /\ Len(kept) = Len(timestamps) - n
      /\ \A i \in 1 .. Len(timestamps) - n : kept[i] = timestamps[n + i]
  BY PrunedDeque
<1> HIDE DEF kept
<1>3. WindowDue(kept) \in Nat
  <2>1. Len(kept) \in Nat /\ (Len(kept) >= 1 => kept[1] \in Nat)
    <3>1. Len(kept) \in Nat /\ DOMAIN kept = 1 .. Len(kept)
      BY <1>2, LenProperties
    <3>2. ASSUME Len(kept) >= 1 PROVE kept[1] \in Nat
      <4>1. 1 \in 1 .. Len(kept)
        BY <3>1, <3>2
      <4> QED BY <1>2, <4>1, ElementOfSeq
    <3> QED BY <3>1, <3>2
  <2> QED BY <2>1, SMTT(30) DEF WindowDue
<1>4. ChannelDue(channel[t]) \in Nat
  BY DEF ChannelDue
<1>5. \/ Later(WindowDue(kept), ChannelDue(channel[t])) = WindowDue(kept)
         /\ WindowDue(kept) >= ChannelDue(channel[t])
      \/ Later(WindowDue(kept), ChannelDue(channel[t])) = ChannelDue(channel[t])
         /\ ChannelDue(channel[t]) >= WindowDue(kept)
  BY <1>3, <1>4 DEF Later
<1>6. /\ Pops(n)
      /\ timestamps' = kept
      /\ \/ /\ Later(WindowDue(kept), ChannelDue(channel[t])) <= clock
            /\ place' = [place EXCEPT ![t] = "granting"]
            /\ UNCHANGED wake
         \/ /\ Later(WindowDue(kept), ChannelDue(channel[t])) > clock
            /\ wake' = [wake EXCEPT ![t] =
                          Later(WindowDue(kept), ChannelDue(channel[t]))]
            /\ UNCHANGED place
  BY <1>1 DEF kept
<1>7. ASSUME Later(WindowDue(kept), ChannelDue(channel[t])) <= clock
      PROVE  LookGrants(t, kept)
  <2>1. WindowDue(kept) <= clock /\ ChannelDue(channel[t]) <= clock
    BY <1>3, <1>4, <1>5, <1>7
  <2>2. ~(Later(WindowDue(kept), ChannelDue(channel[t])) > clock)
    BY <1>3, <1>4, <1>5, <1>7
  <2> QED BY <1>6, <2>1, <2>2 DEF LookGrants
<1>8. ASSUME Later(WindowDue(kept), ChannelDue(channel[t])) > clock
      PROVE  LookSleeps(t, kept)
  <2>1. ~(Later(WindowDue(kept), ChannelDue(channel[t])) <= clock)
    BY <1>3, <1>4, <1>5, <1>8
  <2>2. Later(WindowDue(kept), ChannelDue(channel[t]))
          \in {WindowDue(kept), ChannelDue(channel[t])}
    BY <1>5
  <2> QED BY <1>6, <1>8, <2>1, <2>2 DEF LookSleeps
<1>9. LookGrants(t, kept) \/ LookSleeps(t, kept)
  BY <1>3, <1>4, <1>5, <1>7, <1>8
<1>10. LookOutcome(t, n, kept)
  BY <1>2, <1>3, <1>4, <1>6, <1>9 DEF LookOutcome
<1> QED BY <1>2, <1>10

LEMMA ThrottleTypeStep == ThrottleTypeOK /\ [ThrottleNext]_throttleVars => ThrottleTypeOK'
<1> SUFFICES ASSUME ThrottleTypeOK, [ThrottleNext]_throttleVars PROVE ThrottleTypeOK'
  OBVIOUS
<1>1. ASSUME NEW t \in Thread, NEW ch \in PacedChannel, Call(t, ch) PROVE ThrottleTypeOK'
  BY <1>1 DEF Call, ThrottleTypeOK, Time, Never
<1>2. ASSUME NEW t \in Thread, Look(t) PROVE ThrottleTypeOK'
  <2>1. timestamps' \in Seq(Nat)
    BY <1>2, LookCases DEF LookOutcome
  <2>2. /\ wake' \in [Thread -> Nat]
        /\ place' \in [Thread -> {"out", "asleep", "granting"}]
    <3>1. PICK n \in 0 .. Len(timestamps), kept \in Seq(Nat) :
            LookOutcome(t, n, kept)
      BY <1>2, LookCases
    <3>2. CASE LookGrants(t, kept)
      BY <3>2 DEF LookGrants, ThrottleTypeOK, Time
    <3>3. CASE LookSleeps(t, kept)
      <4>1. PICK due \in {WindowDue(kept), ChannelDue(channel[t])} :
              /\ wake' = [wake EXCEPT ![t] = due]
              /\ place' = place
        BY <3>3 DEF LookSleeps
      <4>2. due \in Nat
        BY <3>1 DEF LookOutcome
      <4> QED BY <4>1, <4>2 DEF ThrottleTypeOK, Time
    <3> QED BY <3>1, <3>2, <3>3 DEF LookOutcome
  <2> QED BY <1>2, <2>1, <2>2 DEF Look, ThrottleTypeOK, Time
<1>3. ASSUME NEW t \in Thread, Grant(t) PROVE ThrottleTypeOK'
  BY <1>3 DEF Grant, ThrottleTypeOK, Time, Never
<1>4. ASSUME Tick PROVE ThrottleTypeOK'
  BY <1>4 DEF Tick, ThrottleTypeOK, Time, Never
<1>5. CASE UNCHANGED throttleVars
  BY <1>5 DEF throttleVars, ThrottleTypeOK
<1> QED BY <1>1, <1>2, <1>3, <1>4, <1>5 DEF ThrottleNext

\* Every reachable state of the throttle and its callers is well typed, for any
\* limit, window, interval, number of threads and channels.
THEOREM ThrottleTyping == ThrottleSpec => []ThrottleTypeOK
BY ThrottleTypeInit, ThrottleTypeStep, PTL DEF ThrottleSpec

LEMMA ThrottleInvInit == ThrottleInit => ThrottleInv
<1> SUFFICES ASSUME ThrottleInit PROVE ThrottleInv
  OBVIOUS
<1>1. ThrottleTypeOK
  BY ThrottleTypeInit
<1>2. Len(sent) = 0 /\ Len(timestamps) = 0 /\ DOMAIN sent = {}
  BY DEF ThrottleInit
<1>3. DequeIsTail /\ LastIsLatest /\ GrantIsSafe
  BY <1>2 DEF ThrottleInit, DequeIsTail, LastIsLatest, GrantIsSafe, Never
<1>4. WindowRespected /\ ChannelSpaced
  BY <1>2, ThrottleAssumption DEF WindowRespected, ChannelSpaced
<1>5. NoOversleep
  BY DEF ThrottleInit, NoOversleep
<1> QED BY <1>1, <1>3, <1>4, <1>5 DEF ThrottleInv

\* A pass over the deque sends nothing: it only shortens the deque, and lets
\* t go on or puts it to sleep until a moment it read from the state.
LEMMA LookStep ==
    ASSUME ThrottleInv, NEW t \in Thread, Look(t)
    PROVE  ThrottleInv'
<1> USE ThrottleAssumption
<1>1. PICK n \in 0 .. Len(timestamps), kept \in Seq(Nat) : LookOutcome(t, n, kept)
  BY LookCases DEF ThrottleInv
<1>2. ThrottleTypeOK /\ ThrottleTypeOK'
  BY ThrottleTypeStep DEF ThrottleInv, ThrottleNext
<1>3. UNCHANGED << clock, last, channel, sent >> /\ ~Locked /\ place[t] = "asleep"
  BY DEF Look
<1>4. /\ Len(timestamps') = Len(timestamps) - n
      /\ \A i \in 1 .. Len(timestamps') : timestamps'[i] = timestamps[n + i]
      /\ \A i \in 1 .. n : clock - timestamps[i] >= WindowSeconds
  BY <1>1 DEF LookOutcome, Pops, Expired
<1>5. /\ clock \in Nat
      /\ Len(timestamps) \in Nat /\ Len(sent) \in Nat
      /\ \A i \in 1 .. Len(sent) : sent[i].at \in Nat
      /\ DOMAIN sent = 1 .. Len(sent)
  <2>1. /\ clock \in Nat
        /\ timestamps \in Seq(Nat)
        /\ sent \in Seq([at : Nat, ch : PacedChannel])
    BY <1>2 DEF ThrottleTypeOK, Time
  <2>2. \A i \in 1 .. Len(sent) : sent[i] \in [at : Nat, ch : PacedChannel]
    BY <2>1, ElementOfSeq
  <2> QED BY <2>1, <2>2, LenProperties
<1>6. DequeIsTail'
  <2>1. Len(timestamps') <= Len(sent')
    BY <1>3, <1>4, <1>5 DEF ThrottleInv, DequeIsTail
  <2>2. \A i \in 1 .. Len(timestamps') :
          timestamps'[i] = sent'[Len(sent') - Len(timestamps') + i].at
    <3> TAKE i \in 1 .. Len(timestamps')
    <3>1. n + i \in 1 .. Len(timestamps)
      BY <1>4, <1>5
    <3>2. timestamps[n + i] = sent[Len(sent) - Len(timestamps) + (n + i)].at
      BY <3>1 DEF ThrottleInv, DequeIsTail
    <3>3. Len(sent) - Len(timestamps) + (n + i) = Len(sent') - Len(timestamps') + i
      BY <1>3, <1>4, <1>5
    <3> QED BY <1>3, <1>4, <3>2, <3>3
  <2>3. ASSUME NEW i \in 1 .. Len(sent') - Len(timestamps')
        PROVE  clock' - sent'[i].at >= WindowSeconds
    <3>1. CASE i <= Len(sent) - Len(timestamps)
      BY <1>3, <1>5, <3>1 DEF ThrottleInv, DequeIsTail
    <3>2. CASE i > Len(sent) - Len(timestamps)
      <4> DEFINE j == i - (Len(sent) - Len(timestamps))
      <4>1. j \in 1 .. n
        BY <1>3, <1>4, <1>5, <3>2
      <4>2. timestamps[j] = sent[i].at
        <5>1. j \in 1 .. Len(timestamps)
          BY <1>5, <4>1
        <5>2. timestamps[j] = sent[Len(sent) - Len(timestamps) + j].at
          BY <5>1 DEF ThrottleInv, DequeIsTail
        <5>3. Len(sent) - Len(timestamps) + j = i
          BY <1>3, <1>5
        <5> QED BY <5>2, <5>3
      <4> QED BY <1>3, <1>4, <4>1, <4>2
    <3> QED BY <1>3, <1>4, <1>5, <3>1, <3>2
  <2> QED BY <2>1, <2>2, <2>3 DEF DequeIsTail
<1>7. LastIsLatest' /\ WindowRespected' /\ ChannelSpaced'
  BY <1>3 DEF ThrottleInv, LastIsLatest, WindowRespected, ChannelSpaced
<1>8. GrantIsSafe' /\ NoOversleep'
  <2>1. CASE LookGrants(t, kept)
    <3>1. \A s \in Thread : place'[s] = "granting" <=> s = t
      BY <1>2, <1>3, <2>1 DEF LookGrants, Locked, ThrottleTypeOK
    <3>2. Len(timestamps') < WindowLimit
      <4>1. Len(kept) = Len(timestamps') /\ WindowDue(kept) <= clock
        BY <1>1, <2>1 DEF LookOutcome, LookGrants
      <4>2. ASSUME Len(kept) >= WindowLimit PROVE FALSE
        <5>1. kept[1] + WindowSeconds <= clock
          BY <4>1, <4>2 DEF WindowDue
        <5>2. kept[1] = timestamps[n + 1] /\ n < Len(timestamps)
          <6>1. Len(kept) = Len(timestamps) - n /\ Len(kept) >= 1
            BY <1>1, <1>5, <4>2 DEF LookOutcome
          <6>2. 1 \in 1 .. Len(kept) /\ n < Len(timestamps)
            BY <1>5, <6>1
          <6> QED BY <1>1, <6>2 DEF LookOutcome
        <5>3. ~(clock - timestamps[n + 1] >= WindowSeconds)
          BY <1>1, <5>2 DEF LookOutcome, Pops, Expired
        <5>4. timestamps[n + 1] \in Nat
          BY <1>2, <5>2, SMTT(30) DEF ThrottleTypeOK, Time
        <5> QED BY <1>5, <5>1, <5>2, <5>3, <5>4
      <4> QED BY <4>1, <4>2, <1>4, <1>5
    <3>3. last'[channel'[t]] # Never => clock' - last'[channel'[t]] >= Interval
      <4>1. ChannelDue(channel[t]) <= clock
        BY <2>1 DEF LookGrants
      <4>2. channel[t] \in PacedChannel /\ (last[channel[t]] # Never =>
                                          last[channel[t]] \in Nat)
        BY <1>2 DEF ThrottleTypeOK, Time
      <4> QED BY <1>3, <1>5, <4>1, <4>2 DEF ChannelDue
    <3>4. GrantIsSafe'
      BY <3>1, <3>2, <3>3 DEF GrantIsSafe
    <3>5. NoOversleep'
      <4>1. \A s \in Thread : place'[s] = "asleep" => place[s] = "asleep" /\ wake'[s] = wake[s]
        BY <1>2, <2>1 DEF LookGrants, ThrottleTypeOK
      <4> QED BY <4>1, <1>3 DEF ThrottleInv, NoOversleep
    <3> QED BY <3>4, <3>5
  <2>2. CASE LookSleeps(t, kept)
    <3>1. PICK due \in {WindowDue(kept), ChannelDue(channel[t])} :
            /\ due > clock
            /\ wake' = [wake EXCEPT ![t] = due]
            /\ place' = place
      BY <2>2 DEF LookSleeps
    <3>2. GrantIsSafe'
      BY <1>3, <3>1 DEF GrantIsSafe, Locked
    <3>3. \E i \in DOMAIN sent :
            \/ /\ i + WindowLimit <= Len(sent) + 1
               /\ due = sent[i].at + WindowSeconds
            \/ /\ sent[i].ch = channel[t]
               /\ due = sent[i].at + Interval
      <4>1. CASE due = WindowDue(kept)
        <5>1. Len(kept) >= WindowLimit /\ due = kept[1] + WindowSeconds
          BY <1>5, <3>1, <4>1 DEF WindowDue
        <5>2. Len(kept) = Len(timestamps) - n /\ kept[1] = timestamps[n + 1]
          <6>1. Len(kept) = Len(timestamps) - n /\ Len(kept) >= 1
            BY <1>1, <1>5, <5>1 DEF LookOutcome
          <6>2. 1 \in 1 .. Len(kept)
            BY <1>5, <6>1
          <6> QED BY <1>1, <6>1, <6>2 DEF LookOutcome
        <5> DEFINE i == Len(sent) - Len(timestamps) + n + 1
        <5>3. i \in DOMAIN sent /\ i + WindowLimit <= Len(sent) + 1
          BY <1>5, <5>1, <5>2, SMTT(30) DEF ThrottleInv, DequeIsTail
        <5>4. timestamps[n + 1] = sent[i].at
          <6>1. n + 1 \in 1 .. Len(timestamps)
            BY <1>5, <5>1, <5>2
          <6>2. timestamps[n + 1] = sent[Len(sent) - Len(timestamps) + (n + 1)].at
            BY <6>1 DEF ThrottleInv, DequeIsTail
          <6>3. Len(sent) - Len(timestamps) + (n + 1) = i
            BY <1>5
          <6> QED BY <6>2, <6>3
        <5> QED BY <5>1, <5>2, <5>3, <5>4
      <4>2. CASE due = ChannelDue(channel[t])
        <5>1. last[channel[t]] # Never /\ due = last[channel[t]] + Interval
          BY <1>5, <3>1, <4>2 DEF ChannelDue
        <5>2. channel[t] \in PacedChannel
          BY <1>2 DEF ThrottleTypeOK
        <5>3. PICK i \in DOMAIN sent :
                sent[i].ch = channel[t] /\ sent[i].at = last[channel[t]]
          BY <5>1, <5>2 DEF ThrottleInv, LastIsLatest
        <5> QED BY <5>1, <5>3
      <4> QED BY <4>1, <4>2
    <3>4. NoOversleep'
      <4> SUFFICES ASSUME NEW s \in Thread, place[s] = "asleep", wake'[s] > clock
                   PROVE  \E i \in DOMAIN sent :
                            \/ /\ i + WindowLimit <= Len(sent) + 1
                               /\ wake'[s] = sent[i].at + WindowSeconds
                            \/ /\ sent[i].ch = channel[s]
                               /\ wake'[s] = sent[i].at + Interval
        BY <1>3, <3>1 DEF NoOversleep
      <4>1. CASE s = t
        <5>1. wake'[s] = due
          BY <1>2, <3>1, <4>1 DEF ThrottleTypeOK
        <5> QED BY <3>3, <4>1, <5>1
      <4>2. CASE s # t
        <5>1. wake'[s] = wake[s]
          BY <3>1, <4>2
        <5> QED BY <5>1 DEF ThrottleInv, NoOversleep
      <4> QED BY <4>1, <4>2
    <3> QED BY <3>2, <3>4
  <2> QED BY <1>1, <2>1, <2>2 DEF LookOutcome
<1> QED BY <1>2, <1>6, <1>7, <1>8 DEF ThrottleInv

\* The message let through becomes the last of sent and of the deque.
LEMMA GrantStep ==
    ASSUME ThrottleInv, NEW t \in Thread, Grant(t)
    PROVE  ThrottleInv'
<1> USE ThrottleAssumption
<1>1. ThrottleTypeOK /\ ThrottleTypeOK'
  BY ThrottleTypeStep DEF ThrottleInv, ThrottleNext
<1> DEFINE N == Len(sent)
           e == [at |-> clock, ch |-> channel[t]]
<1>2. /\ clock \in Nat /\ N \in Nat /\ Len(timestamps) \in Nat
      /\ channel[t] \in PacedChannel
      /\ \A i \in 1 .. N : sent[i] \in [at : Nat, ch : PacedChannel]
      /\ DOMAIN sent = 1 .. N
  <2>1. /\ clock \in Nat /\ channel[t] \in PacedChannel
        /\ timestamps \in Seq(Nat)
        /\ sent \in Seq([at : Nat, ch : PacedChannel])
    BY <1>1 DEF ThrottleTypeOK, Time
  <2> QED BY <2>1, ElementOfSeq, LenProperties
<1>3. /\ Len(sent') = N + 1 /\ DOMAIN sent' = 1 .. N + 1
      /\ \A i \in 1 .. N : sent'[i] = sent[i]
      /\ sent'[N + 1] = e
      /\ Len(timestamps') = Len(timestamps) + 1
      /\ \A i \in 1 .. Len(timestamps) : timestamps'[i] = timestamps[i]
      /\ timestamps'[Len(timestamps) + 1] = clock
  <2>1. sent \in Seq([at : Nat, ch : PacedChannel]) /\ timestamps \in Seq(Nat)
    BY <1>1 DEF ThrottleTypeOK, Time
  <2>2. e \in [at : Nat, ch : PacedChannel] /\ clock \in Nat
    BY <1>2
  <2>3. sent' = Append(sent, e) /\ timestamps' = Append(timestamps, clock)
    BY DEF Grant
  <2> HIDE DEF e
  <2> QED BY <2>1, <2>2, <2>3, AppendProperties, LenProperties
<1>4. /\ place[t] = "granting"
      /\ UNCHANGED << clock, channel, wake >>
      /\ place' = [place EXCEPT ![t] = "out"]
      /\ last' = [last EXCEPT ![channel[t]] = clock]
  BY DEF Grant
<1>5. /\ Len(timestamps) < WindowLimit
      /\ last[channel[t]] # Never => clock - last[channel[t]] >= Interval
  BY <1>4 DEF ThrottleInv, GrantIsSafe
<1>6. \A i \in 1 .. N : sent[i].at <= clock
  <2> TAKE i \in 1 .. N
  <2>1. sent[i].ch \in PacedChannel /\ sent[i].at \in Nat /\ i \in DOMAIN sent
    BY <1>2
  <2>2. /\ last[sent[i].ch] # Never
        /\ sent[i].at <= last[sent[i].ch]
        /\ last[sent[i].ch] <= clock
    BY <2>1 DEF ThrottleInv, LastIsLatest
  <2>3. last[sent[i].ch] \in Nat
    BY <1>1, <2>1, <2>2 DEF ThrottleTypeOK, Time
  <2> QED BY <1>2, <2>1, <2>2, <2>3
<1>7. DequeIsTail'
  <2>1. Len(timestamps') <= Len(sent')
    BY <1>2, <1>3 DEF ThrottleInv, DequeIsTail
  <2>2. \A i \in 1 .. Len(timestamps') :
          timestamps'[i] = sent'[Len(sent') - Len(timestamps') + i].at
    <3> TAKE i \in 1 .. Len(timestamps')
    <3>1. Len(sent') - Len(timestamps') + i = N - Len(timestamps) + i
      BY <1>2, <1>3
    <3>2. CASE i = Len(timestamps) + 1
      <4>1. N - Len(timestamps) + i = N + 1
        BY <1>2, <3>2
      <4> QED BY <1>3, <3>1, <3>2, <4>1
    <3>3. CASE i # Len(timestamps) + 1
      <4>1. i \in 1 .. Len(timestamps) /\ N - Len(timestamps) + i \in 1 .. N
        BY <1>2, <1>3, <3>3 DEF ThrottleInv, DequeIsTail
      <4>2. timestamps[i] = sent[N - Len(timestamps) + i].at
        BY <4>1 DEF ThrottleInv, DequeIsTail
      <4> QED BY <1>3, <3>1, <4>1, <4>2
    <3> QED BY <3>2, <3>3
  <2>3. \A i \in 1 .. Len(sent') - Len(timestamps') :
          clock' - sent'[i].at >= WindowSeconds
    <3> TAKE i \in 1 .. Len(sent') - Len(timestamps')
    <3>1. i \in 1 .. N - Len(timestamps) /\ i \in 1 .. N
      BY <1>2, <1>3
    <3> QED BY <1>3, <1>4, <3>1 DEF ThrottleInv, DequeIsTail
  <2> QED BY <2>1, <2>2, <2>3 DEF DequeIsTail
<1>8. LastIsLatest'
  <2> SUFFICES ASSUME NEW ch \in PacedChannel
               PROVE  /\ last'[ch] # Never =>
                           /\ last'[ch] <= clock'
                           /\ \E i \in DOMAIN sent' :
                                sent'[i].ch = ch /\ sent'[i].at = last'[ch]
                      /\ \A i \in DOMAIN sent' : sent'[i].ch = ch =>
                           last'[ch] # Never /\ sent'[i].at <= last'[ch]
    BY DEF LastIsLatest
  <2>1. CASE ch = channel[t]
    <3>1. last'[ch] = clock /\ last'[ch] # Never
      BY <1>1, <1>2, <1>4, <2>1 DEF ThrottleTypeOK, Never
    <3>2. sent'[N + 1].ch = ch /\ sent'[N + 1].at = clock /\ N + 1 \in DOMAIN sent'
      BY <1>2, <1>3, <2>1
    <3>3. \A i \in DOMAIN sent' : sent'[i].at <= clock
      <4> TAKE i \in DOMAIN sent'
      <4>1. CASE i = N + 1
        BY <1>2, <3>2, <4>1
      <4>2. CASE i # N + 1
        BY <1>2, <1>3, <1>6, <4>2
      <4> QED BY <4>1, <4>2
    <3> QED BY <1>2, <1>4, <3>1, <3>2, <3>3
  <2>2. CASE ch # channel[t]
    <3>1. last'[ch] = last[ch]
      BY <1>4, <2>2
    <3>2. sent'[N + 1].ch # ch
      BY <1>3, <2>2
    <3>3. \A i \in DOMAIN sent' : sent'[i].ch = ch =>
            last'[ch] # Never /\ sent'[i].at <= last'[ch]
      <4> TAKE i \in DOMAIN sent'
      <4> HAVE sent'[i].ch = ch
      <4>1. i \in 1 .. N /\ sent'[i] = sent[i]
        BY <1>2, <1>3, <3>2
      <4> QED BY <1>2, <3>1, <4>1 DEF ThrottleInv, LastIsLatest
    <3>4. ASSUME last'[ch] # Never
          PROVE  /\ last'[ch] <= clock'
                 /\ \E i \in DOMAIN sent' :
                      sent'[i].ch = ch /\ sent'[i].at = last'[ch]
      <4>1. PICK i \in DOMAIN sent : sent[i].ch = ch /\ sent[i].at = last[ch]
        BY <3>1, <3>4 DEF ThrottleInv, LastIsLatest
      <4>2. i \in DOMAIN sent' /\ sent'[i] = sent[i]
        BY <1>2, <1>3, <4>1
      <4>3. last'[ch] <= clock'
        BY <1>4, <3>1, <3>4 DEF ThrottleInv, LastIsLatest
      <4> QED BY <3>1, <4>1, <4>2, <4>3
    <3> QED BY <3>3, <3>4
  <2> QED BY <2>1, <2>2
<1>9. GrantIsSafe'
  <2>1. \A s \in Thread : place'[s] # "granting"
    BY <1>1, <1>4 DEF ThrottleInv, GrantIsSafe, ThrottleTypeOK
  <2> QED BY <2>1 DEF GrantIsSafe
<1>10. WindowRespected'
  <2> SUFFICES ASSUME NEW i \in 1 .. Len(sent') - WindowLimit
               PROVE  sent'[i + WindowLimit].at - sent'[i].at >= WindowSeconds
    BY DEF WindowRespected
  <2>1. i \in 1 .. N /\ sent'[i] = sent[i]
    BY <1>2, <1>3
  <2>2. CASE i + WindowLimit = N + 1
    <3>1. i \in 1 .. N - Len(timestamps)
      BY <1>2, <1>5, <2>2
    <3>2. clock - sent[i].at >= WindowSeconds
      BY <3>1 DEF ThrottleInv, DequeIsTail
    <3> QED BY <1>3, <2>1, <2>2, <3>2
  <2>3. CASE i + WindowLimit # N + 1
    <3>1. i \in 1 .. N - WindowLimit /\ i + WindowLimit \in 1 .. N
      <4>1. N \in Nat /\ Len(sent') = N + 1 /\ WindowLimit \in Nat
        BY <1>2, <1>3
      <4> HIDE DEF N
      <4> QED BY <4>1, <2>3
    <3> QED BY <1>3, <2>1, <3>1 DEF ThrottleInv, WindowRespected
  <2> QED BY <2>2, <2>3
<1>11. ChannelSpaced'
  <2> SUFFICES ASSUME NEW i \in DOMAIN sent', NEW j \in DOMAIN sent',
                      i < j, sent'[i].ch = sent'[j].ch
               PROVE  sent'[j].at - sent'[i].at >= Interval
    BY DEF ChannelSpaced
  <2>1. i \in 1 .. N /\ sent'[i] = sent[i]
    BY <1>2, <1>3
  <2>2. CASE j = N + 1
    <3>1. sent[i].ch = channel[t] /\ sent'[j].at = clock
      BY <1>3, <2>1, <2>2
    <3>2. last[channel[t]] # Never /\ sent[i].at <= last[channel[t]]
      BY <1>2, <2>1, <3>1 DEF ThrottleInv, LastIsLatest
    <3>3. last[channel[t]] \in Nat /\ sent[i].at \in Nat
      BY <1>1, <1>2, <2>1, <3>2 DEF ThrottleTypeOK, Time
    <3> QED BY <1>2, <1>5, <2>1, <3>1, <3>2, <3>3
  <2>3. CASE j # N + 1
    <3>1. j \in 1 .. N /\ sent'[j] = sent[j]
      BY <1>2, <1>3, <2>3
    <3> QED BY <1>2, <2>1, <3>1 DEF ThrottleInv, ChannelSpaced
  <2> QED BY <2>2, <2>3
<1>12. NoOversleep'
  <2> SUFFICES ASSUME NEW s \in Thread, place'[s] = "asleep", wake[s] > clock
               PROVE  \E i \in DOMAIN sent' :
                        \/ /\ i + WindowLimit <= Len(sent') + 1
                           /\ wake[s] = sent'[i].at + WindowSeconds
                        \/ /\ sent'[i].ch = channel[s]
                           /\ wake[s] = sent'[i].at + Interval
    BY <1>4 DEF NoOversleep
  <2>1. place[s] = "asleep"
    BY <1>1, <1>4 DEF ThrottleTypeOK
  <2>2. PICK i \in DOMAIN sent :
          \/ /\ i + WindowLimit <= Len(sent) + 1
             /\ wake[s] = sent[i].at + WindowSeconds
          \/ /\ sent[i].ch = channel[s]
             /\ wake[s] = sent[i].at + Interval
    BY <2>1 DEF ThrottleInv, NoOversleep
  <2>3. i \in DOMAIN sent' /\ sent'[i] = sent[i]
    BY <1>2, <1>3
  <2>4. i + WindowLimit <= N + 1 => i + WindowLimit <= Len(sent') + 1
    BY <1>2, <1>3
  <2> QED BY <2>2, <2>3, <2>4
<1> QED BY <1>1, <1>7, <1>8, <1>9, <1>10, <1>11, <1>12 DEF ThrottleInv

LEMMA ThrottleInvStep == ThrottleInv /\ [ThrottleNext]_throttleVars => ThrottleInv'
<1> SUFFICES ASSUME ThrottleInv, [ThrottleNext]_throttleVars PROVE ThrottleInv'
  OBVIOUS
<1>0. ThrottleTypeOK /\ ThrottleTypeOK'
  BY ThrottleTypeStep DEF ThrottleInv
<1> USE ThrottleAssumption
<1>1. ASSUME NEW t \in Thread, NEW ch \in PacedChannel, Call(t, ch) PROVE ThrottleInv'
  <2>1. /\ UNCHANGED << clock, timestamps, last, sent >>
        /\ place[t] = "out"
        /\ place' = [place EXCEPT ![t] = "asleep"]
        /\ wake' = [wake EXCEPT ![t] = clock]
        /\ channel' = [channel EXCEPT ![t] = ch]
    BY <1>1 DEF Call
  <2>2. DequeIsTail' /\ LastIsLatest' /\ WindowRespected' /\ ChannelSpaced'
    BY <2>1 DEF ThrottleInv, DequeIsTail, LastIsLatest, WindowRespected, ChannelSpaced
  <2>3. \A s \in Thread : place'[s] = "granting" => place[s] = "granting" /\ s # t
    BY <1>0, <2>1 DEF ThrottleTypeOK
  <2>4. GrantIsSafe'
    BY <1>0, <2>1, <2>3 DEF ThrottleInv, GrantIsSafe, ThrottleTypeOK
  <2>5. \A s \in Thread : place'[s] = "asleep" /\ wake'[s] > clock =>
          place[s] = "asleep" /\ wake'[s] = wake[s] /\ channel'[s] = channel[s]
    BY <1>0, <2>1 DEF ThrottleTypeOK, Time
  <2>6. NoOversleep'
    BY <2>1, <2>5 DEF ThrottleInv, NoOversleep
  <2> QED BY <1>0, <2>2, <2>4, <2>6 DEF ThrottleInv
<1>2. ASSUME NEW t \in Thread, Look(t) PROVE ThrottleInv'
  BY <1>2, LookStep
<1>3. ASSUME NEW t \in Thread, Grant(t) PROVE ThrottleInv'
  BY <1>3, GrantStep
<1>4. ASSUME Tick PROVE ThrottleInv'
  <2>1. UNCHANGED << timestamps, last, place, channel, wake, sent >>
        /\ clock' = clock + 1
    BY <1>4 DEF Tick
  <2>2. /\ clock \in Nat
        /\ \A i \in 1 .. Len(sent) : sent[i].at \in Nat
        /\ \A ch \in PacedChannel : last[ch] \in Nat \cup {Never}
        /\ Len(sent) \in Nat /\ Len(timestamps) \in Nat
    <3>1. sent \in Seq([at : Nat, ch : PacedChannel]) /\ timestamps \in Seq(Nat)
      BY <1>0 DEF ThrottleTypeOK, Time
    <3>2. \A i \in 1 .. Len(sent) : sent[i] \in [at : Nat, ch : PacedChannel]
      BY <3>1, ElementOfSeq
    <3> QED BY <1>0, <3>1, <3>2, LenProperties DEF ThrottleTypeOK, Time
  <2>3. \A i \in 1 .. Len(sent') - Len(timestamps') :
          clock' - sent'[i].at >= WindowSeconds
    <3> TAKE i \in 1 .. Len(sent') - Len(timestamps')
    <3>1. i \in 1 .. Len(sent) - Len(timestamps) /\ i \in 1 .. Len(sent)
      BY <2>1, <2>2
    <3>2. clock - sent[i].at >= WindowSeconds
      BY <3>1 DEF ThrottleInv, DequeIsTail
    <3> QED BY <2>1, <2>2, <3>1, <3>2
  <2>4. DequeIsTail'
    BY <2>1, <2>3 DEF ThrottleInv, DequeIsTail
  <2>5. LastIsLatest'
    BY <2>1, <2>2 DEF ThrottleInv, LastIsLatest, Never
  <2>6. GrantIsSafe'
    <3>1. \A t \in Thread : last[channel[t]] # Never => last[channel[t]] \in Nat
      BY <1>0 DEF ThrottleTypeOK, Time
    <3> QED BY <2>1, <2>2, <3>1 DEF ThrottleInv, GrantIsSafe
  <2>7. WindowRespected' /\ ChannelSpaced'
    BY <2>1 DEF ThrottleInv, WindowRespected, ChannelSpaced
  <2>8. NoOversleep'
    <3>1. \A t \in Thread : wake'[t] > clock' => wake[t] > clock
      BY <1>0, <2>1, <2>2 DEF ThrottleTypeOK, Time
    <3> QED BY <2>1, <3>1 DEF ThrottleInv, NoOversleep
  <2> QED BY <1>0, <2>4, <2>5, <2>6, <2>7, <2>8 DEF ThrottleInv
<1>5. CASE UNCHANGED throttleVars
  BY <1>0, <1>5 DEF throttleVars, ThrottleInv, DequeIsTail, LastIsLatest, GrantIsSafe,
                    WindowRespected, ChannelSpaced, NoOversleep
<1> QED BY <1>1, <1>2, <1>3, <1>4, <1>5 DEF ThrottleNext

LEMMA ThrottleInvariant == ThrottleSpec => []ThrottleInv
BY ThrottleInvInit, ThrottleInvStep, PTL DEF ThrottleSpec

\* MessageThrottle.wait: no window of WindowSeconds sees more than WindowLimit
\* messages, for any limit, window, number of threads and channels.
THEOREM ThrottleWindow == ThrottleSpec => []WindowRespected
<1>1. ThrottleInv => WindowRespected
  BY DEF ThrottleInv
<1> QED BY <1>1, ThrottleInvariant, PTL

\* MessageThrottle.wait: messages to one channel keep their distance.
THEOREM ThrottleChannel == ThrottleSpec => []ChannelSpaced
<1>1. ThrottleInv => ChannelSpaced
  BY DEF ThrottleInv
<1> QED BY <1>1, ThrottleInvariant, PTL

\* MessageThrottle.wait: every message let through keeps both limits.
THEOREM Limits == ThrottleSpec => []LimitsRespected
<1>1. ThrottleInv => LimitsRespected
  BY DEF ThrottleInv, LimitsRespected
<1> QED BY <1>1, ThrottleInvariant, PTL

\* MessageThrottle.wait: nobody sleeps past the end of the limit it waits for.
THEOREM ThrottleTight == ThrottleSpec => []NoOversleep
<1>1. ThrottleInv => NoOversleep
  BY DEF ThrottleInv
<1> QED BY <1>1, ThrottleInvariant, PTL
=============================================================================

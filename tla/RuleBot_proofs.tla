--------------------------- MODULE RuleBot_proofs ---------------------------
(***************************************************************************)
(* Proofs about RuleBot, for any number of bots, messages, repetitions and *)
(* crashes.  A message is in chat once because what is in chat is claimed  *)
(* (ChatIsClaimed) and only an unclaimed reply is posted.  The cooldown of *)
(* a keyword holds because last_at is the newest time the rule spoke, or 0 *)
(* when it did not (LastIsNewest).                                         *)
(***************************************************************************)
EXTENDS RuleBot, SequenceTheorems, TLAPS

ChatIsClaimed == \A i \in DOMAIN chat : KeyOf(chat[i]) \in claimed

LastIsNewest ==
    \A b \in Bot :
        /\ lastReply[b] <= clock
        /\ \A t \in spoken[b] : t <= lastReply[b]
        /\ lastReply[b] \in spoken[b] \/ (spoken[b] = {} /\ lastReply[b] = 0)

BInv == /\ TypeOK
        /\ ChatIsClaimed /\ OneReplyPerMessage
        /\ LastIsNewest /\ KeywordsOnCooldown

USE RuleBotAssumption

-----------------------------------------------------------------------------
(* Type correctness *)

\* The operations of the queue keep its types.
LEMMA InboxType ==
    ASSUME Inbox!BrokerTypeOK, NEW b \in Bot,
           \/ Inbox!Deliver(b) \/ Inbox!Ack(b) \/ Inbox!Requeue(b)
           \/ \E m \in Message : Inbox!Publish(m)
    PROVE  Inbox!BrokerTypeOK'
<1> USE DEF Inbox!BrokerTypeOK
<1>1. CASE Inbox!Deliver(b)
  <2>1. Head(queue) \in Message /\ Tail(queue) \in Seq(Message)
    BY <1>1, HeadTailProperties DEF Inbox!Deliver
  <2> QED
    BY <1>1, <2>1 DEF Inbox!Deliver
<1>2. CASE Inbox!Ack(b)
  BY <1>2 DEF Inbox!Ack
<1>3. CASE Inbox!Requeue(b)
  <2>1. queue' \in Seq(Message)
    <3>1. CASE unacked[b] = Nothing
      BY <1>3, <3>1 DEF Inbox!Requeue
    <3>2. CASE unacked[b] # Nothing
      <4>1. << unacked[b] >> \in Seq(Message)
        BY <3>2
      <4> QED
        BY <1>3, <3>2, <4>1, ConcatProperties DEF Inbox!Requeue
    <3> QED
      BY <3>1, <3>2
  <2> QED
    BY <1>3, <2>1 DEF Inbox!Requeue
<1>4. CASE \E m \in Message : Inbox!Publish(m)
  BY <1>4, AppendProperties DEF Inbox!Publish
<1> QED
  BY <1>1, <1>2, <1>3, <1>4

\* A process that ends leaves the rest well typed.
LEMMA DieType ==
    ASSUME TypeOK, NEW b \in Bot, Die(b), faults' \in 0 .. MaxFaults
    PROVE  TypeOK'
<1>1. Inbox!BrokerTypeOK'
  BY InboxType DEF Die, TypeOK
<1>2. /\ pc' \in [Bot -> {"down", "idle", "decide", "publish", "ack"}]
      /\ \A d \in Bot : unacked'[d] # Nothing <=> pc'[d] \in {"decide", "publish", "ack"}
  BY DEF Die, TypeOK, Inbox!Requeue, Inbox!BrokerTypeOK
<1> QED
  BY <1>1, <1>2 DEF Die, TypeOK, connector

\* What process_payload remembers is well typed.
LEMMA DecideType ==
    ASSUME TypeOK, NEW b \in Bot, Decide(b)
    PROVE  /\ lastReply' \in [Bot -> 0 .. MaxClock]
           /\ spoken' \in [Bot -> SUBSET (0 .. MaxClock)]
           /\ muted' \subseteq Message
<1>1. unacked[b] \in Message /\ clock \in 0 .. MaxClock
  BY DEF TypeOK, Inbox!BrokerTypeOK, Decide
<1>2. CASE Answer(b)
  BY <1>1, <1>2 DEF Answer, TypeOK
<1>3. CASE Mute(b)
  BY <1>1, <1>3 DEF Mute, TypeOK
<1>4. CASE UNCHANGED memory
  BY <1>4 DEF memory, TypeOK
<1> QED
  BY <1>2, <1>3, <1>4 DEF Decide

LEMMA TypeInit == Init => TypeOK
  BY EmptySeq DEF Init, TypeOK, Inbox!BrokerInit, Inbox!BrokerTypeOK

LEMMA TypeStep == TypeOK /\ [Next]_vars => TypeOK'
<1> SUFFICES ASSUME TypeOK, [Next]_vars
             PROVE  TypeOK'
  OBVIOUS
<1>1. CASE UNCHANGED vars
  BY <1>1 DEF vars, inbox, memory, connector, bounds, TypeOK, Inbox!BrokerTypeOK
<1>2. ASSUME NEW b \in Bot, Start(b)
      PROVE  TypeOK'
  BY <1>2 DEF Start, inbox, memory, connector, bounds, TypeOK, Inbox!BrokerTypeOK
<1>3. ASSUME NEW b \in Bot, Receive(b)
      PROVE  TypeOK'
  <2>1. Head(queue) \in Message
    BY <1>3, HeadTailProperties DEF Receive, Inbox!Deliver, TypeOK, Inbox!BrokerTypeOK
  <2>2. Inbox!BrokerTypeOK'
    BY <1>3, InboxType DEF Receive, TypeOK
  <2>3. /\ pc' \in [Bot -> {"down", "idle", "decide", "publish", "ack"}]
        /\ \A d \in Bot : unacked'[d] # Nothing <=> pc'[d] \in {"decide", "publish", "ack"}
    BY <1>3, <2>1 DEF Receive, TypeOK, Inbox!Deliver, Inbox!BrokerTypeOK
  <2> QED
    BY <1>3, <2>2, <2>3 DEF Receive, memory, connector, bounds, TypeOK
<1>4. ASSUME NEW b \in Bot, Decide(b)
      PROVE  TypeOK'
  <2>1. /\ pc' \in [Bot -> {"down", "idle", "decide", "publish", "ack"}]
        /\ \A d \in Bot : unacked'[d] # Nothing <=> pc'[d] \in {"decide", "publish", "ack"}
    BY <1>4 DEF Decide, TypeOK, inbox
  <2> QED
    BY <1>4, <2>1, DecideType DEF Decide, inbox, connector, bounds, TypeOK, Inbox!BrokerTypeOK
<1>5. ASSUME NEW b \in Bot, Publish(b)
      PROVE  TypeOK'
  <2>1. unacked[b] \in Message
    BY <1>5 DEF Publish, TypeOK, Inbox!BrokerTypeOK
  <2>2. replies' \in Seq(Message)
    BY <1>5, <2>1, AppendProperties DEF Publish, TypeOK
  <2> QED
    BY <1>5, <2>2 DEF Publish, inbox, memory, connector, bounds, TypeOK, Inbox!BrokerTypeOK
<1>6. ASSUME NEW b \in Bot, AckMessage(b)
      PROVE  TypeOK'
  BY <1>6 DEF AckMessage, Inbox!Ack, memory, connector, bounds, TypeOK, Inbox!BrokerTypeOK
<1>7. ASSUME NEW b \in Bot, Crash(b) \/ DecideRaises(b)
      PROVE  TypeOK'
  BY <1>7, DieType, SMTT(30) DEF Crash, DecideRaises, TypeOK
<1>8. CASE Egress
  <2>1. Head(replies) \in Message /\ Tail(replies) \in Seq(Message)
    BY <1>8, HeadTailProperties DEF Egress, TypeOK
  <2>2. Append(chat, Head(replies)) \in Seq(Message)
    BY <2>1, AppendProperties DEF TypeOK
  <2>3. chat' \in Seq(Message) /\ settled' \subseteq Message /\ dropped' \subseteq Message
    BY <1>8, <2>1, <2>2 DEF Egress, TypeOK
  <2> QED
    BY <1>8, <2>1, <2>3 DEF Egress, inbox, memory, bounds, TypeOK, Inbox!BrokerTypeOK
<1>9. ASSUME NEW m \in Message, Ingress(m)
      PROVE  TypeOK'
  <2>1. queue' \in Seq(Message) /\ unacked' = unacked
    BY <1>9, AppendProperties DEF Ingress, Inbox!Publish, TypeOK, Inbox!BrokerTypeOK
  <2> QED
    BY <1>9, <2>1 DEF Ingress, memory, connector, TypeOK, Inbox!BrokerTypeOK
<1>10. CASE Tick
  BY <1>10 DEF Tick, inbox, memory, connector, bounds, TypeOK, Inbox!BrokerTypeOK
<1> QED
  BY <1>1, <1>2, <1>3, <1>4, <1>5, <1>6, <1>7, <1>8, <1>9, <1>10 DEF Next, Handle

-----------------------------------------------------------------------------
(* One reply per message *)

\* The connector posts the first reply of a key only.
LEMMA EgressOnce ==
    ASSUME TypeOK, ChatIsClaimed, OneReplyPerMessage, Egress
    PROVE  ChatIsClaimed' /\ OneReplyPerMessage'
<1>1. Head(replies) \in Message
  BY HeadTailProperties DEF Egress, TypeOK
<1>2. CASE chat' = chat
  BY <1>2 DEF Egress, ChatIsClaimed, OneReplyPerMessage
<1>3. CASE chat' # chat
  <2>1. PICK m \in Message : /\ chat' = Append(chat, m) /\ KeyOf(m) \notin claimed
                             /\ claimed' = claimed \cup {KeyOf(m)}
    BY <1>1, <1>3 DEF Egress
  <2>2. /\ Len(chat) \in Nat /\ DOMAIN chat = 1 .. Len(chat)
        /\ chat' \in Seq(Message) /\ Len(chat') = Len(chat) + 1
        /\ \A i \in 1 .. Len(chat) : chat'[i] = chat[i]
        /\ chat'[Len(chat) + 1] = m
    BY <2>1, AppendProperties, LenProperties DEF TypeOK
  <2>3. DOMAIN chat' = 1 .. Len(chat) + 1
    BY <2>2, LenProperties
  <2>4. ChatIsClaimed'
    <3> SUFFICES ASSUME NEW i \in DOMAIN chat'
                 PROVE  KeyOf(chat'[i]) \in claimed'
      BY DEF ChatIsClaimed, KeyOf, SourceOf, CorrelationOf
    <3>1. CASE i = Len(chat) + 1
      BY <2>1, <2>2, <3>1
    <3>2. CASE i # Len(chat) + 1
      BY <2>1, <2>2, <2>3, <3>2 DEF ChatIsClaimed
    <3> QED
      BY <3>1, <3>2
  <2>5. \A i \in 1 .. Len(chat) : chat[i] # m
    BY <2>1, <2>2 DEF ChatIsClaimed
  <2>6. OneReplyPerMessage'
    BY <2>2, <2>3, <2>5 DEF OneReplyPerMessage
  <2> QED
    BY <2>4, <2>6
<1> QED
  BY <1>2, <1>3

-----------------------------------------------------------------------------
(* Keyword cooldowns *)

\* An answer comes a cooldown after the last one, silence only within it.
LEMMA DecideCooldown ==
    ASSUME TypeOK, LastIsNewest, KeywordsOnCooldown, NEW b \in Bot, Decide(b)
    PROVE  LastIsNewest' /\ KeywordsOnCooldown'
<1>1. clock \in Nat /\ Uptime <= clock /\ clock' = clock /\ Cooldown \in Nat
      /\ lastReply[b] \in Nat /\ spoken[b] \subseteq Nat
  BY DEF Decide, TypeOK
<1>2. CASE Answer(b)
  <2>1. /\ lastReply' = [lastReply EXCEPT ![b] = clock]
        /\ spoken' = [spoken EXCEPT ![b] = spoken[b] \cup {clock}]
        /\ muted' = muted
        /\ clock - lastReply[b] >= Cooldown
    BY <1>1, <1>2 DEF Answer, Cooling
  <2>2. \A t \in spoken[b] : clock - t >= Cooldown
    BY <1>1, <2>1 DEF LastIsNewest
  <2>3. LastIsNewest'
    BY <1>1, <2>1 DEF LastIsNewest, TypeOK
  <2>4. CooldownRespected'
    <3> SUFFICES ASSUME NEW d \in Bot, NEW s \in spoken'[d], NEW t \in spoken'[d], s # t
                 PROVE  s - t >= Cooldown \/ t - s >= Cooldown
      BY DEF CooldownRespected
    <3>1. CASE d = b
      BY <1>1, <2>1, <2>2, <3>1 DEF KeywordsOnCooldown, CooldownRespected, TypeOK
    <3>2. CASE d # b
      BY <2>1, <3>2 DEF KeywordsOnCooldown, CooldownRespected, TypeOK
    <3> QED
      BY <3>1, <3>2
  <2> QED
    BY <2>1, <2>3, <2>4 DEF KeywordsOnCooldown, MutedOnlyByReply
<1>3. CASE Mute(b)
  <2>1. UNCHANGED << lastReply, spoken >> /\ clock - lastReply[b] < Cooldown
    BY <1>3 DEF Mute, Cooling
  <2>2. Uptime >= Cooldown => muted' = muted
    <3>1. Uptime >= Cooldown => lastReply[b] \in spoken[b]
      BY <1>1, <2>1 DEF LastIsNewest
    <3>2. Uptime >= Cooldown => ~ \A t \in spoken[b] : clock - t >= Cooldown
      BY <1>1, <2>1, <3>1
    <3> QED
      BY <1>3, <3>2 DEF Mute
  <2> QED
    BY <1>1, <2>1, <2>2 DEF LastIsNewest, KeywordsOnCooldown, CooldownRespected,
                            MutedOnlyByReply
<1>4. CASE UNCHANGED memory
  BY <1>1, <1>4 DEF memory, LastIsNewest, KeywordsOnCooldown, CooldownRespected,
                    MutedOnlyByReply
<1> QED
  BY <1>2, <1>3, <1>4 DEF Decide

\* A process that ends forgets what it said; the clock goes on.
LEMMA OthersCooldown ==
    ASSUME TypeOK, LastIsNewest, KeywordsOnCooldown,
           \/ Tick \/ \E b \in Bot : Die(b)
           \/ UNCHANGED << lastReply, spoken, muted, clock >>
    PROVE  LastIsNewest' /\ KeywordsOnCooldown'
<1>1. CASE Tick
  BY <1>1 DEF Tick, memory, TypeOK, LastIsNewest, KeywordsOnCooldown, CooldownRespected,
              MutedOnlyByReply
<1>2. CASE \E b \in Bot : Die(b)
  <2>1. PICK b \in Bot : Die(b)
    BY <1>2
  <2>2. /\ lastReply' = [lastReply EXCEPT ![b] = 0]
        /\ spoken' = [spoken EXCEPT ![b] = {}]
        /\ UNCHANGED << muted, clock >>
    BY <2>1 DEF Die
  <2>3. LastIsNewest'
    BY <2>2 DEF TypeOK, LastIsNewest
  <2>4. CooldownRespected' /\ MutedOnlyByReply'
    BY <2>2 DEF TypeOK, KeywordsOnCooldown, CooldownRespected, MutedOnlyByReply
  <2> QED
    BY <2>3, <2>4 DEF KeywordsOnCooldown
<1>3. CASE UNCHANGED << lastReply, spoken, muted, clock >>
  BY <1>3 DEF LastIsNewest, KeywordsOnCooldown, CooldownRespected, MutedOnlyByReply
<1> QED
  BY <1>1, <1>2, <1>3

-----------------------------------------------------------------------------
(* The inductive invariant *)

LEMMA BInit == Init => BInv
<1> SUFFICES ASSUME Init
             PROVE  BInv
  OBVIOUS
<1>1. TypeOK
  BY TypeInit
<1>2. ChatIsClaimed /\ OneReplyPerMessage
  BY DEF Init, ChatIsClaimed, OneReplyPerMessage
<1>3. LastIsNewest /\ KeywordsOnCooldown
  BY DEF Init, LastIsNewest, KeywordsOnCooldown, CooldownRespected, MutedOnlyByReply
<1> QED
  BY <1>1, <1>2, <1>3 DEF BInv

LEMMA BStep == BInv /\ [Next]_vars => BInv'
<1> SUFFICES ASSUME BInv, [Next]_vars
             PROVE  BInv'
  OBVIOUS
<1> USE DEF BInv
<1>1. TypeOK'
  BY TypeStep
<1>2. ChatIsClaimed' /\ OneReplyPerMessage'
  <2>1. CASE Egress
    BY <2>1, EgressOnce
  <2>2. CASE ~Egress
    <3>1. UNCHANGED << chat, claimed >>
      BY <2>2 DEF Next, Handle, Start, Receive, Decide, Publish, AckMessage, DecideRaises,
                  Crash, Die, Ingress, Tick, connector, vars
    <3> QED
      BY <3>1 DEF ChatIsClaimed, OneReplyPerMessage, KeyOf, SourceOf, CorrelationOf
  <2> QED
    BY <2>1, <2>2
<1>3. LastIsNewest' /\ KeywordsOnCooldown'
  <2>1. CASE \E b \in Bot : Decide(b)
    BY <2>1, DecideCooldown
  <2>2. CASE Tick \/ \E b \in Bot : Die(b)
    BY <2>2, OthersCooldown
  <2>3. CASE UNCHANGED << lastReply, spoken, muted, clock >>
    BY <2>3, OthersCooldown
  <2> QED
    BY <2>1, <2>2, <2>3
       DEF Next, Handle, Start, Receive, Publish, AckMessage, DecideRaises, Crash, Egress,
           Ingress, memory, vars
<1> QED
  BY <1>1, <1>2, <1>3

-----------------------------------------------------------------------------
(* Theorems *)

\* The inductive invariant holds of every reachable state.
LEMMA Invariance == Spec => []BInv
  BY BInit, BStep, PTL DEF Spec

\* The rule bot, from the inbox to the chat: every reachable state is well typed.
THEOREM Typing == Spec => []TypeOK
<1>1. BInv => TypeOK
  BY DEF BInv
<1> QED
  BY <1>1, Invariance, PTL

\* _make_reply, HandleReply: a chat message is answered in chat at most once, whatever
\* is repeated or crashes, and however many bots run.
THEOREM OneReply == Spec => []OneReplyPerMessage
<1>1. BInv => OneReplyPerMessage
  BY DEF BInv
<1> QED
  BY <1>1, Invariance, PTL

\* _process_keyword: a rule keeps its cooldown, and is silent for no other reason once
\* the clock has passed it.
THEOREM Cooldowns == Spec => []KeywordsOnCooldown
<1>1. BInv => KeywordsOnCooldown
  BY DEF BInv
<1> QED
  BY <1>1, Invariance, PTL
=============================================================================

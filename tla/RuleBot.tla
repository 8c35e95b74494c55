------------------------------- MODULE RuleBot -------------------------------
(***************************************************************************)
(* The rule bot from end to end: ingress publishes chat.message and        *)
(* eventsub.* payloads, sub-bot-logic decides on a reply and publishes it  *)
(* as chat.reply, twitch-connector posts it.  Commands and keyword replies *)
(* carry the message id as correlation_id, event replies the broadcaster   *)
(* id; the connector deduplicates on "source:correlation_id".              *)
(*                                                                         *)
(* The connector appears here by its contract (AtMostOnce, implemented by  *)
(* ReplyConnector): the first reply of a key is worked on and ends in chat *)
(* or as a failure, the others are dropped.                                *)
(***************************************************************************)
EXTENDS Integers, Sequences

CONSTANTS Bot,         \* sub-bot-logic processes
          Message,     \* payloads on the inbox
          Kind,        \* [Message -> Kinds]
          Broadcaster, \* [Message -> broadcaster id]
          Nothing,
          Cooldown,    \* cooldown_sec of the keyword rule
          Uptime,      \* time.monotonic() when the first process starts
          MaxClock,    \* bound on the clock
          MaxPublished, \* bound: payloads published, repetitions included
          MaxFaults    \* bound: crashes

\* What the rules make of a payload: a command and an IRC notice are always
\* answered, a keyword unless its rule cools down, an EventSub event by its
\* template, anything else not at all; "poison" makes from_dict or the reply's
\* own validation raise.
Kinds == {"command", "notice", "keyword", "event", "silent", "poison"}

ASSUME RuleBotAssumption ==
    /\ Nothing \notin Message
    /\ Kind \in [Message -> Kinds]
    /\ Cooldown \in Nat \ {0}
    /\ Uptime \in Nat
    /\ MaxClock \in Nat /\ Uptime <= MaxClock
    /\ MaxPublished \in Nat
    /\ MaxFaults \in Nat

VARIABLES
    queue, unacked,  \* QUEUE_BOT_LOGIC_INBOX (module Broker)
    pc,              \* [Bot -> "down" | "idle" | "decide" | "publish" | "ack"]
    lastReply,       \* _keyword_cooldowns of each process: last_at, or 0
    clock,           \* time.monotonic()
    replies,         \* the queue of twitch-connector: messages answered
    claimed,         \* keys the connector has claimed
    settled,         \* history: messages whose reply is in chat or reported
    dropped,         \* history: messages with a reply dropped as duplicate
    chat,            \* history: what was posted, in order
    spoken,          \* history: [Bot -> times of its keyword replies]
    muted,           \* history: silent keyword messages with no reply before
    published, faults

inbox     == << queue, unacked >>
connector == << claimed, settled, dropped, chat >>
memory    == << lastReply, spoken, muted >>
bounds    == << published, faults >>
vars      == << inbox, pc, memory, clock, replies, connector, bounds >>

Inbox == INSTANCE Broker
           WITH Consumer <- Bot, Message <- Message, NoMessage <- Nothing

SourceOf(m) == CASE Kind[m] = "command" -> "logic-commands"
                 [] Kind[m] = "keyword" -> "logic-keywords"
                 [] OTHER               -> "logic-events"

\* _make_reply and process_eventsub: the correlation_id of the reply, and the
\* connector's dedup key made of it.
CorrelationOf(m) == IF Kind[m] = "event" THEN << "broadcaster", Broadcaster[m] >>
                                         ELSE << "message", m >>

KeyOf(m) == << SourceOf(m), CorrelationOf(m) >>

Init ==
    /\ Inbox!BrokerInit
    /\ pc = [b \in Bot |-> "down"]
    /\ lastReply = [b \in Bot |-> 0]
    /\ clock = Uptime
    /\ replies = << >>
    /\ claimed = {}
    /\ settled = {}
    /\ dropped = {}
    /\ chat = << >>
    /\ spoken = [b \in Bot |-> {}]
    /\ muted = {}
    /\ published = 0
    /\ faults = 0

-----------------------------------------------------------------------------
(* sub-bot-logic *)

Start(b) ==
    /\ pc[b] = "down"
    /\ pc' = [pc EXCEPT ![b] = "idle"]
    /\ UNCHANGED << inbox, memory, clock, replies, connector, bounds >>

Receive(b) ==
    /\ pc[b] = "idle"
    /\ Inbox!Deliver(b)
    /\ pc' = [pc EXCEPT ![b] = "decide"]
    /\ UNCHANGED << memory, clock, replies, connector, bounds >>

\* Mutant: the cooldown lasts one unit too long.
CoolingInclusive(b) == clock - lastReply[b] <= Cooldown

Cooling(b) == clock - lastReply[b] < Cooldown

\* _process_keyword: last_at is set before the reply is published, and only
\* when there is one.
Answer(b) ==
    /\ ~Cooling(b)
    /\ lastReply' = [lastReply EXCEPT ![b] = clock]
    /\ spoken' = [spoken EXCEPT ![b] = @ \cup {clock}]
    /\ UNCHANGED muted

Mute(b) ==
    /\ Cooling(b)
    /\ muted' = IF \A t \in spoken[b] : clock - t >= Cooldown
                THEN muted \cup {unacked[b]} ELSE muted
    /\ UNCHANGED << lastReply, spoken >>

\* process_payload.
Decide(b) ==
    /\ pc[b] = "decide"
    /\ LET kind == Kind[unacked[b]]
       IN  \/ /\ \/ kind \in {"command", "notice", "event"} /\ UNCHANGED memory
                 \/ kind = "keyword" /\ Answer(b)
              /\ pc' = [pc EXCEPT ![b] = "publish"]
           \/ /\ \/ kind = "keyword" /\ Mute(b)
                 \/ kind = "silent" /\ UNCHANGED memory
              /\ pc' = [pc EXCEPT ![b] = "ack"]
    /\ UNCHANGED << inbox, clock, replies, connector, bounds >>

\* Mutant: the reply goes to a routing key no queue is bound for.
PublishUnrouted(b) ==
    /\ pc[b] = "publish"
    /\ pc' = [pc EXCEPT ![b] = "ack"]
    /\ UNCHANGED << inbox, memory, clock, replies, connector, bounds >>

\* publish_topic_blocking(chat.reply).
Publish(b) ==
    /\ pc[b] = "publish"
    /\ replies' = Append(replies, unacked[b])
    /\ pc' = [pc EXCEPT ![b] = "ack"]
    /\ UNCHANGED << inbox, memory, clock, connector, bounds >>

AckMessage(b) ==
    /\ pc[b] = "ack"
    /\ Inbox!Ack(b)
    /\ pc' = [pc EXCEPT ![b] = "idle"]
    /\ UNCHANGED << memory, clock, replies, connector, bounds >>

\* The process ends, the message in hand goes back to the head of the queue,
\* and the cooldowns are forgotten.
Die(b) ==
    /\ Inbox!Requeue(b)
    /\ pc' = [pc EXCEPT ![b] = "down"]
    /\ lastReply' = [lastReply EXCEPT ![b] = 0]
    /\ spoken' = [spoken EXCEPT ![b] = {}]
    /\ UNCHANGED << muted, clock, replies, connector, published >>

Crash(b) ==
    /\ pc[b] # "down"
    /\ faults < MaxFaults
    /\ faults' = faults + 1
    /\ Die(b)

\* An exception leaving the handler: nack with requeue, and re-raised.
DecideRaises(b) ==
    /\ pc[b] = "decide"
    /\ Kind[unacked[b]] = "poison"
    /\ Die(b)
    /\ UNCHANGED faults

-----------------------------------------------------------------------------
(* The other ends *)

\* Mutant: the connector runs without an IdempotencyStore.
EgressUnclaimed ==
    /\ replies # << >>
    /\ replies' = Tail(replies)
    /\ settled' = settled \cup {Head(replies)}
    /\ chat' \in {chat, Append(chat, Head(replies))}
    /\ UNCHANGED << inbox, pc, memory, clock, claimed, dropped, bounds >>

\* twitch-connector takes the next reply: a claimed key is dropped, a new one
\* ends in chat or - attempts exhausted, crash - does not.
Egress ==
    /\ replies # << >>
    /\ replies' = Tail(replies)
    /\ LET m == Head(replies)
       IN  \/ /\ KeyOf(m) \in claimed
              /\ dropped' = dropped \cup {m}
              /\ UNCHANGED << claimed, settled, chat >>
           \/ /\ KeyOf(m) \notin claimed
              /\ claimed' = claimed \cup {KeyOf(m)}
              /\ settled' = settled \cup {m}
              /\ chat' \in {chat, Append(chat, m)}
              /\ UNCHANGED dropped
    /\ UNCHANGED << inbox, pc, memory, clock, bounds >>

\* Ingress publishes a payload; a reconnecting source can repeat it.
Ingress(m) ==
    /\ published < MaxPublished
    /\ published' = published + 1
    /\ Inbox!Publish(m)
    /\ UNCHANGED << pc, memory, clock, replies, connector, faults >>

Tick ==
    /\ clock < MaxClock
    /\ clock' = clock + 1
    /\ UNCHANGED << inbox, pc, memory, replies, connector, bounds >>

Handle(b) ==
    Receive(b) \/ Decide(b) \/ DecideRaises(b) \/ Publish(b) \/ AckMessage(b)

Next ==
    \/ \E b \in Bot : Start(b) \/ Handle(b) \/ Crash(b)
    \/ Egress
    \/ \E m \in Message : Ingress(m)
    \/ Tick

Spec == Init /\ [][Next]_vars

\* Both subscribers keep working while they are up; starting one is up to the
\* operator.
FairSpec == Spec /\ WF_vars(Egress) /\ \A b \in Bot : WF_vars(Handle(b))

-----------------------------------------------------------------------------
(* Properties *)

TypeOK ==
    /\ Inbox!BrokerTypeOK
    /\ pc \in [Bot -> {"down", "idle", "decide", "publish", "ack"}]
    /\ \A b \in Bot : unacked[b] # Nothing <=> pc[b] \in {"decide", "publish", "ack"}
    /\ lastReply \in [Bot -> 0 .. MaxClock]
    /\ spoken \in [Bot -> SUBSET (0 .. MaxClock)]
    /\ clock \in Uptime .. MaxClock
    /\ replies \in Seq(Message)
    /\ settled \subseteq Message /\ dropped \subseteq Message
    /\ muted \subseteq Message
    /\ chat \in Seq(Message)
    /\ published \in 0 .. MaxPublished
    /\ faults \in 0 .. MaxFaults

\* A chat message is answered in chat at most once, whatever ingress repeats,
\* whoever crashes between publishing the reply and acknowledging the message,
\* and however many bots run.
OneReplyPerMessage ==
    \A i, j \in DOMAIN chat : chat[i] = chat[j] => i = j

\* The documentation (docs/use-cases/02-rule-bot.md:68): an EventSub event is
\* announced by a chat.reply; none is dropped as a repetition of another.
EventsAnnounced == dropped \subseteq settled

\* A process answers one keyword rule at most once per Cooldown.
CooldownRespected ==
    \A b \in Bot : \A s, t \in spoken[b] : s # t => s - t >= Cooldown \/ t - s >= Cooldown

\* With a clock that starts late enough, a keyword stays unanswered only when
\* the rule was answered less than Cooldown ago: never because of the 0.0 that
\* stands for "not yet".
MutedOnlyByReply == Uptime >= Cooldown => muted = {}

\* A keyword rule keeps its cooldown, and is silent for no other reason.
KeywordsOnCooldown == CooldownRespected /\ MutedOnlyByReply

\* While one bot stays up, every command is answered or its failure reported.
CommandsSettled ==
    (\E b \in Bot : <>[](pc[b] # "down"))
      => \A m \in Message :
           Kind[m] = "command" /\ m \in Inbox!Held ~> m \in settled
=============================================================================

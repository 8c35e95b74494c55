--------------------------- MODULE ReplyConnector ---------------------------
(***************************************************************************)
(* twitch-connector: the egress subscriber of `chat.reply`                 *)
(* (app/src/app/subscribers/twitch_connector).  Each process takes one     *)
(* message at a time from the shared durable queue, claims its             *)
(* deduplication key in the shared SQLite IdempotencyStore, tries to send  *)
(* it through the Twitch Helix API at most MaxRetries times, reports       *)
(* system.error when it gives up, and acknowledges.                        *)
(*                                                                         *)
(* The steps of ReplySubscriber.handle are separate actions, so that       *)
(* another process, a crash, a lost connection (the handler blocks the     *)
(* heartbeat for as long as throttle, timeouts and backoff take) or the    *)
(* expiry of a claim can come between any two of them.                     *)
(***************************************************************************)
EXTENDS Integers, Sequences

CONSTANTS Connector,    \* twitch-connector processes reading the queue
          Reply,        \* distinct chat.reply payloads
          Key,          \* deduplication keys "source:correlation"
          NoKey,        \* payload without correlation_id and reply_to id
          KeyOf,        \* [Reply -> Key \cup {NoKey}], the key of a payload
          Kind,         \* [Reply -> Kinds], how handle treats a payload
          ChannelOf,    \* [Reply -> Channel], where a payload goes
          Channel,
          NoReply,
          MaxRetries,   \* --max-retries
          MaxPublished, \* bound: messages published, repeated payloads included
          MaxFaults     \* bound: crashes + lost connections + stray exceptions

\* A well-formed payload for Twitch, one for a platform without a sender, and
\* one ChatReplyEvent.from_dict refuses (it never gets as far as a key).
Kinds == {"twitch", "unsupported", "malformed"}

ASSUME ConnectorAssumption ==
    /\ NoKey \notin Key
    /\ NoReply \notin Reply
    /\ Reply \cap Key = {}
    /\ KeyOf \in [Reply -> Key \cup {NoKey}]
    /\ ChannelOf \in [Reply -> Channel]
    /\ Kind \in [Reply -> Kinds]
    /\ \A r \in Reply : Kind[r] = "malformed" => KeyOf[r] = NoKey
    /\ MaxRetries \in Nat
    /\ MaxPublished \in Nat
    /\ MaxFaults \in Nat

VARIABLES
    queue, unacked,   \* the broker's side (module Broker)
    claims,           \* keys in idempotency_keys, namespace chat.reply
    pc,               \* where each process is in consume_messages / handle
    cur,              \* the payload its handler is working on
    attempt,          \* the loop variable of handle
    cached,           \* _broadcaster_cache of each process: channels resolved
    life,             \* history: what happened to a subject (see Subject)
    acked,            \* history: payloads acknowledged
    published,        \* messages published so far
    faults            \* faults so far

brokerVars == << queue, unacked >>
procVars   == << pc, cur, attempt, cached >>
history    == << life, acked >>
bounds     == << published, faults >>
vars       == << brokerVars, procVars, claims, history, bounds >>

Inbox == INSTANCE Broker
           WITH Consumer <- Connector, Message <- Reply, NoMessage <- NoReply

(***************************************************************************)
(* A subject is what handle deduplicates on: the key, or for a payload     *)
(* without one the payload itself.  `life` counts, since the key was last  *)
(* free: POSTs made, POSTs Twitch accepted, accepted POSTs the connector   *)
(* saw fail, system.error events, and handlings cut short.                 *)
(***************************************************************************)
Keyed(r)  == KeyOf[r] # NoKey
SubjectOf(r) == IF Keyed(r) THEN KeyOf[r] ELSE r
Subject   == Key \cup Reply

Counts(t, a, u, r, x) ==
    [tries |-> t, accepted |-> a, unsure |-> u, reported |-> r, cut |-> x]

NewLife   == Counts(0, 0, 0, 0, 0)
Life      == [tries : Nat, accepted : Nat, unsure : Nat, reported : Nat, cut : Nat]

\* The history with the counts of n added to those of subject s.
LifePlus(s, n) ==
    [life EXCEPT ![s] = [tries    |-> life[s].tries + n.tries,
                         accepted |-> life[s].accepted + n.accepted,
                         unsure   |-> life[s].unsure + n.unsure,
                         reported |-> life[s].reported + n.reported,
                         cut      |-> life[s].cut + n.cut]]

Down    == "down"
Idle    == "idle"
Phases  == {Down, Idle, "received", "dispatch", "post", "report", "settle"}
Working == {"dispatch", "post", "report"}   \* past the dedup check, not done

Goto(c, label) == pc' = [pc EXCEPT ![c] = label]

Init ==
    /\ Inbox!BrokerInit
    /\ claims = {}
    /\ pc = [c \in Connector |-> Down]
    /\ cur = [c \in Connector |-> NoReply]
    /\ attempt = [c \in Connector |-> 0]
    /\ cached = [c \in Connector |-> {}]
    /\ life = [s \in Subject |-> NewLife]
    /\ acked = {}
    /\ published = 0
    /\ faults = 0

-----------------------------------------------------------------------------
(* Processes starting and dying *)

\* main: connect, declare and bind the queue, consume.
Start(c) ==
    /\ pc[c] = Down
    /\ Goto(c, Idle)
    /\ UNCHANGED << brokerVars, claims, cur, attempt, cached, history, bounds >>

\* Mutant: the claim is released when the handling dies.
DieReleasing(c) ==
    /\ Inbox!Requeue(c)
    /\ Goto(c, Down)
    /\ cur' = [cur EXCEPT ![c] = NoReply]
    /\ attempt' = [attempt EXCEPT ![c] = 0]
    /\ cached' = [cached EXCEPT ![c] = {}]
    /\ claims' = IF cur[c] = NoReply THEN claims ELSE claims \ {KeyOf[cur[c]]}
    /\ UNCHANGED << acked, published >>

\* The process ends: by a kill, or by an exception leaving the handler, which
\* on_message turns into a nack before re-raising it through main.  Either
\* way the broker requeues what was unacknowledged, the in-memory cache is
\* gone and the claim stays.
Die(c) ==
    /\ Inbox!Requeue(c)
    /\ Goto(c, Down)
    /\ cur' = [cur EXCEPT ![c] = NoReply]
    /\ attempt' = [attempt EXCEPT ![c] = 0]
    /\ cached' = [cached EXCEPT ![c] = {}]
    /\ UNCHANGED << claims, acked, published >>

CutShort(c) ==
    IF pc[c] \in Working
    THEN LifePlus(SubjectOf(cur[c]), Counts(0, 0, 0, 0, 1))
    ELSE life

Crash(c) ==
    /\ pc[c] # Down
    /\ faults < MaxFaults
    /\ faults' = faults + 1
    /\ life' = CutShort(c)
    /\ Die(c)

\* The broker drops a connection whose heartbeat the busy handler starves.
\* The handler does not notice until it next uses the channel.
LoseConnection(c) ==
    /\ unacked[c] # NoReply
    /\ faults < MaxFaults
    /\ faults' = faults + 1
    /\ Inbox!Requeue(c)
    /\ UNCHANGED << procVars, claims, history, published >>

Connected(c) == unacked[c] # NoReply

\* Using a channel whose connection is gone raises out of the handler.
DieDisconnected(c) ==
    /\ pc[c] \in {"report", "settle"}
    /\ ~Connected(c)
    /\ life' = CutShort(c)
    /\ Die(c)
    /\ UNCHANGED faults

-----------------------------------------------------------------------------
(* ReplySubscriber.handle *)

Receive(c) ==
    /\ pc[c] = Idle
    /\ Inbox!Deliver(c)
    /\ cur' = [cur EXCEPT ![c] = Head(queue)]
    /\ Goto(c, "received")
    /\ UNCHANGED << claims, attempt, cached, history, bounds >>

\* Mutant: a payload that cannot be parsed is nacked with requeue=True and the
\* consumer goes on, instead of being reported and acknowledged.
RejectRequeues(c) ==
    /\ pc[c] = "received"
    /\ Kind[cur[c]] = "malformed"
    /\ Inbox!Requeue(c)
    /\ Goto(c, Idle)
    /\ cur' = [cur EXCEPT ![c] = NoReply]
    /\ UNCHANGED << claims, attempt, cached, history, bounds >>

RejectMalformed(c) ==
    /\ pc[c] = "received"
    /\ Kind[cur[c]] = "malformed"
    /\ Goto(c, "report")
    /\ UNCHANGED << brokerVars, claims, cur, attempt, cached, history, bounds >>

SkipDuplicate(c) ==
    /\ pc[c] = "received"
    /\ Kind[cur[c]] # "malformed"
    /\ KeyOf[cur[c]] \in claims
    /\ Goto(c, "settle")
    /\ UNCHANGED << brokerVars, claims, cur, attempt, cached, history, bounds >>

\* Mutants: the key is read before and written with INSERT OR REPLACE, so two
\* processes can both find it free; None is claimed like any other key.
ClaimUnchecked(c) ==
    /\ pc[c] = "received"
    /\ Kind[cur[c]] # "malformed"
    /\ claims' = IF Keyed(cur[c]) THEN claims \cup {KeyOf[cur[c]]} ELSE claims
    /\ attempt' = [attempt EXCEPT ![c] = 1]
    /\ Goto(c, IF MaxRetries = 0 THEN "settle" ELSE "dispatch")
    /\ UNCHANGED << brokerVars, cur, cached, history, bounds >>

\* INSERT OR IGNORE reported a new row, or there was no key to claim.  With
\* MaxRetries = 0 the loop body never runs and handle returns at once.
Claim(c) ==
    /\ pc[c] = "received"
    /\ Kind[cur[c]] # "malformed"
    /\ KeyOf[cur[c]] \notin claims
    /\ claims' = IF Keyed(cur[c]) THEN claims \cup {KeyOf[cur[c]]} ELSE claims
    /\ attempt' = [attempt EXCEPT ![c] = 1]
    /\ Goto(c, IF MaxRetries = 0 THEN "settle" ELSE "dispatch")
    /\ UNCHANGED << brokerVars, cur, cached, history, bounds >>

RejectPlatform(c) ==
    /\ pc[c] = "dispatch"
    /\ Kind[cur[c]] = "unsupported"
    /\ Goto(c, "report")
    /\ UNCHANGED << brokerVars, claims, cur, attempt, cached, history, bounds >>

FailedSilently(c) ==
    \/ /\ attempt[c] < MaxRetries
       /\ attempt' = [attempt EXCEPT ![c] = @ + 1]
       /\ Goto(c, "dispatch")
    \/ /\ attempt[c] >= MaxRetries
       /\ Goto(c, "settle")
       /\ UNCHANGED attempt

\* A TwitchSendError or OSError: back off and try again, or give up.
AttemptFailed(c) ==
    \/ /\ attempt[c] < MaxRetries
       /\ attempt' = [attempt EXCEPT ![c] = @ + 1]
       /\ Goto(c, "dispatch")
    \/ /\ attempt[c] >= MaxRetries
       /\ Goto(c, "report")
       /\ UNCHANGED attempt

\* _resolve_broadcaster_id: the cache, or GET users, which may fail.
Resolve(c) ==
    /\ pc[c] = "dispatch"
    /\ Kind[cur[c]] = "twitch"
    /\ \/ /\ cached' = [cached EXCEPT ![c] = @ \cup {ChannelOf[cur[c]]}]
          /\ Goto(c, "post")
          /\ UNCHANGED attempt
       \/ /\ ChannelOf[cur[c]] \notin cached[c]
          /\ AttemptFailed(c)
          /\ UNCHANGED cached
    /\ UNCHANGED << brokerVars, claims, cur, history, bounds >>

\* The throttle has let the message through (module MessageThrottle) and the
\* POST is made; `taken` says whether Twitch accepted it, `seen` what the
\* connector makes of it.  A read timeout after Twitch accepted the message is
\* an OSError like any other.
Post(c) ==
    /\ pc[c] = "post"
    /\ \E taken \in {0, 1}, seen \in {"ok", "failed"} :
        /\ seen = "ok" => taken = 1
        /\ life' = LifePlus(SubjectOf(cur[c]),
                       Counts(1, taken, IF seen = "ok" THEN 0 ELSE taken, 0, 0))
        /\ \/ /\ seen = "ok"
              /\ Goto(c, "settle")
              /\ UNCHANGED attempt
           \/ /\ seen = "failed"
              /\ AttemptFailed(c)
    /\ UNCHANGED << brokerVars, claims, cur, cached, acked, bounds >>

\* An exception handle does not catch: a body that is not JSON, a truncated
\* response (HTTPException), a token that cannot be refreshed.
PostRaises(c) ==
    /\ pc[c] = "post"
    /\ faults < MaxFaults
    /\ faults' = faults + 1
    /\ \E taken \in {0, 1} :
         life' = LifePlus(SubjectOf(cur[c]), Counts(1, taken, taken, 0, 1))
    /\ Die(c)

\* Mutant: giving up releases the claim, so that the reply can be tried again.
ReportReleasing(c) ==
    /\ pc[c] = "report"
    /\ Connected(c)
    /\ life' = LifePlus(SubjectOf(cur[c]), Counts(0, 0, 0, 1, 0))
    /\ claims' = claims \ {KeyOf[cur[c]]}
    /\ Goto(c, "settle")
    /\ UNCHANGED << brokerVars, cur, attempt, cached, acked, bounds >>

\* publish_error on the consuming channel.
Report(c) ==
    /\ pc[c] = "report"
    /\ Connected(c)
    /\ life' = LifePlus(SubjectOf(cur[c]), Counts(0, 0, 0, 1, 0))
    /\ Goto(c, "settle")
    /\ UNCHANGED << brokerVars, claims, cur, attempt, cached, acked, bounds >>

\* handle returned: basic_ack, then wait for the next delivery.
Settle(c) ==
    /\ pc[c] = "settle"
    /\ Inbox!Ack(c)
    /\ acked' = acked \cup {cur[c]}
    /\ Goto(c, Idle)
    /\ cur' = [cur EXCEPT ![c] = NoReply]
    /\ attempt' = [attempt EXCEPT ![c] = 0]
    /\ UNCHANGED << claims, cached, life, bounds >>

-----------------------------------------------------------------------------
(* The environment *)

WorksOn(c, k) == pc[c] \in Working /\ KeyOf[cur[c]] = k

\* A key claimed more than ttl_seconds (86400) ago is purged by the next
\* claim of any process.  No handling that got past the dedup check lasts a
\* day (three 30 s timeouts, throttle and backoff).
Expire(k) ==
    /\ k \in claims
    /\ \A c \in Connector :
         pc[c] \in Working \cup {"settle"} => KeyOf[cur[c]] # k
    /\ claims' = claims \ {k}
    /\ life' = [life EXCEPT ![k] = NewLife]
    /\ acked' = {r \in acked : KeyOf[r] # k}
    /\ UNCHANGED << brokerVars, procVars, bounds >>

\* A producer publishes a payload, possibly again after its own redelivery.
Produce(r) ==
    /\ published < MaxPublished
    /\ published' = published + 1
    /\ Inbox!Publish(r)
    /\ UNCHANGED << claims, procVars, history, faults >>

Handle(c) ==
    \/ Receive(c)
    \/ RejectMalformed(c)
    \/ SkipDuplicate(c)
    \/ Claim(c)
    \/ RejectPlatform(c)
    \/ Resolve(c)
    \/ Post(c)
    \/ Report(c)
    \/ Settle(c)
    \/ DieDisconnected(c)

Fault(c) == Crash(c) \/ LoseConnection(c) \/ PostRaises(c)

Next ==
    \/ \E c \in Connector : Start(c) \/ Handle(c) \/ Fault(c)
    \/ \E k \in Key : Expire(k)
    \/ \E r \in Reply : Produce(r)

Spec == Init /\ [][Next]_vars

\* A running process keeps executing its handler; nobody promises to start one.
FairSpec == Spec /\ \A c \in Connector : WF_vars(Handle(c))
-----------------------------------------------------------------------------
(* Properties *)

TypeOK ==
    /\ Inbox!BrokerTypeOK
    /\ claims \subseteq Key
    /\ pc \in [Connector -> Phases]
    /\ cur \in [Connector -> Reply \cup {NoReply}]
    /\ \A c \in Connector : cur[c] = NoReply <=> pc[c] \in {Down, Idle}
    /\ attempt \in [Connector -> 0 .. MaxRetries + 1]
    /\ cached \in [Connector -> SUBSET Channel]
    /\ life \in [Subject -> Life]
    /\ acked \subseteq Reply
    /\ published \in 0 .. MaxPublished
    /\ faults \in 0 .. MaxFaults

\* However often a keyed reply is published, redelivered, or cut short by a
\* crash, and whichever processes get hold of it, Twitch sees at most
\* MaxRetries POSTs for its key while the claim lasts: ReplySubscriber claims
\* before it sends and never releases.
AttemptBudget == \A k \in Key : life[k].tries <= MaxRetries

\* A key is posted to chat a second time only after an accepted POST looked
\* like a failure to the connector: never because of a redelivery, a second
\* process or a restart.
NoBlindResend == \A k \in Key : life[k].accepted <= 1 + life[k].unsure

\* Together: a key is posted a bounded number of times, and again only for
\* want of an answer.
PostsBounded == AttemptBudget /\ NoBlindResend

\* Two processes never work on the same key at the same time, even when the
\* broker redelivered to one what the other is still busy with.
OneWorkerPerKey ==
    \A c, d \in Connector, k \in Key : WorksOn(c, k) /\ WorksOn(d, k) => c = d

\* No reply disappears without a trace: once it is acknowledged, chat has it,
\* or a system.error event was published for it, or a handling of its key was
\* cut short by a crash - and the last is possible for keyed replies only.
\* (With MaxRetries = 0 the loop of handle sends and reports nothing.)
AckedIsAccounted ==
    MaxRetries > 0 =>
      \A r \in acked :
        LET l == life[SubjectOf(r)]
        IN  \/ l.accepted > 0
            \/ l.reported > 0
            \/ Keyed(r) /\ \/ l.cut > 0
                           \/ \E c \in Connector : WorksOn(c, KeyOf[r])

\* Within the lifetime of a claim the connector implements the at-most-once
\* contract of AtMostOnce.
StatusOf(k) ==
    IF k \notin claims THEN "fresh"
    ELSE IF \E c \in Connector : WorksOn(c, k) THEN "running"
    ELSE IF life[k].accepted > 0 THEN "sent"
    ELSE IF life[k].reported > 0 THEN "reported"
    ELSE "lost"

AMO == INSTANCE AtMostOnce WITH status <- [k \in Key |-> StatusOf(k)]
ImplementsAtMostOnce == AMO!AMOSpec

\* If some process stays up, every published reply is eventually acknowledged
\* and leaves the queue: no redelivery loop, no handler that waits for ever.
QueueDrains ==
    (\E c \in Connector : <>[](pc[c] # Down))
      => \A r \in Reply : []<>(r \notin Inbox!Held)
=============================================================================

----------------------------- MODULE StreamInfo -----------------------------
(***************************************************************************)
(* From Twitch to the metadata of sub-llm's prompts: ingress-twitch-stream *)
(* polls the stream, publishes each snapshot whose id it can claim, and    *)
(* sub-llm keeps the latest (ingress_twitch_stream, context_buffer).       *)
(*                                                                         *)
(* The snapshot id is made of the content and the minute, so a snapshot is *)
(* published again every minute, and a sub-llm that starts anew hears of   *)
(* the stream though nothing changed.  The minute is that of the answer's  *)
(* arrival: an answer may be older than it says.  A tick is half a minute. *)
(***************************************************************************)
EXTENDS Integers, Sequences

CONSTANTS Game,       \* titles and games of a live stream
          Retries,    \* _MAX_RETRIES
          MaxTicks,   \* bound: ticks
          MaxChanges, \* bound: changes of the stream
          InfoFaults   \* bound: failed publishings and crashes

Offline == [live |-> FALSE, game |-> "", since |-> 0]
Unknown == [live |-> FALSE, game |-> "unknown", since |-> 0]

VARIABLES
    tick,      \* the time
    stream,    \* the stream at Twitch
    changed,   \* history: when it last changed
    changes, infoFaults, \* how often it changed; the faults so far
    poller,    \* "sleep", "fetch", "answered", "fetched" or "claimed"
    attempt,   \* attempts of _gql so far
    snapshot,  \* what Twitch answered, when it looked (history), and fetched_at
    ids,       \* the ids claimed in the idempotency store
    infoQueue, \* stream.metadata on its way to sub-llm
    known,     \* StreamMetadataBuffer: the latest snapshot
    polled,    \* history: when Twitch looked for the last poll that ended well
    troubled   \* history: the last failed publishing or crash of sub-llm

infoVars == << tick, stream, changed, changes, infoFaults, poller, attempt, snapshot, ids,
               infoQueue, known, polled, troubled >>
world == << tick, stream, changed, changes >>

Half == 2
Bucket(t) == t \div Half
Never == 0 - Half

InfoInit ==
    /\ tick = Half /\ stream = Offline /\ changed = 0 /\ changes = 0 /\ infoFaults = 0
    /\ poller = "sleep" /\ attempt = 0 /\ snapshot = [of |-> Offline, seen |-> 0, at |-> 0]
    /\ ids = {} /\ infoQueue = << >> /\ known = Unknown /\ polled = Never /\ troubled = Never

InfoTick ==
    /\ tick < MaxTicks /\ tick' = tick + 1
    /\ UNCHANGED << stream, changed, changes, infoFaults, poller, attempt, snapshot, ids,
                    infoQueue, known, polled, troubled >>

StreamChanges(s) ==
    /\ changes < MaxChanges /\ s # stream
    /\ stream' = s /\ changed' = tick /\ changes' = changes + 1
    /\ UNCHANGED << tick, infoFaults, poller, attempt, snapshot, ids, infoQueue, known, polled,
                    troubled >>

Streams == {Offline} \cup
           {[live |-> TRUE, game |-> g, since |-> IF stream.live THEN stream.since ELSE tick] :
               g \in Game}

\* Mutant: the id of a snapshot is its content.
SnapshotId_Content(s) ==
    << s.of.live, s.of.game, IF s.of.live THEN Bucket(s.at - s.of.since) ELSE -1 >>

\* _snapshot_id: the content, the minutes on the air and the minute on the clock.
SnapshotId(s) ==
    << s.of.live, s.of.game, IF s.of.live THEN Bucket(s.at - s.of.since) ELSE -1, Bucket(s.at) >>

\* The polling loop wakes up: publish_snapshot asks Twitch.
Wake ==
    /\ poller = "sleep" /\ poller' = "fetch" /\ attempt' = 1
    /\ UNCHANGED << world, infoFaults, snapshot, ids, infoQueue, known, polled, troubled >>

\* The request reaches Twitch, which answers with the stream of that moment.
Look ==
    /\ poller = "fetch" /\ poller' = "answered"
    /\ snapshot' = [snapshot EXCEPT !.of = stream, !.seen = tick]
    /\ UNCHANGED << world, infoFaults, attempt, ids, infoQueue, known, polled, troubled >>

\* TwitchStreamFetcher.fetch and _gql: fetched_at is the time the answer has come.  A
\* request that fails is repeated; an answer that cannot be read, and the last failure,
\* end the poll.
Fetch(outcome) ==
    /\ poller = "answered" \/ (poller = "fetch" /\ outcome = "failed")
    /\ CASE outcome = "ok" ->
                /\ snapshot' = [snapshot EXCEPT !.at = tick]
                /\ poller' = "fetched" /\ UNCHANGED attempt
         [] outcome = "failed" /\ attempt <= Retries ->
                attempt' = attempt + 1 /\ poller' = "fetch" /\ UNCHANGED snapshot
         [] OTHER ->
                poller' = "sleep" /\ UNCHANGED << attempt, snapshot >>
    /\ UNCHANGED << world, infoFaults, ids, infoQueue, known, polled, troubled >>

\* idempotency.claim of the snapshot id.
ClaimSnapshot ==
    /\ poller = "fetched"
    /\ IF SnapshotId(snapshot) \in ids
       THEN /\ poller' = "sleep" /\ polled' = snapshot.seen /\ UNCHANGED ids
       ELSE /\ poller' = "claimed" /\ ids' = ids \cup {SnapshotId(snapshot)}
            /\ UNCHANGED polled
    /\ UNCHANGED << world, infoFaults, attempt, snapshot, infoQueue, known, troubled >>

PublishSnapshot ==
    /\ poller = "claimed" /\ poller' = "sleep"
    /\ infoQueue' = Append(infoQueue, snapshot.of) /\ polled' = snapshot.seen
    /\ UNCHANGED << world, infoFaults, attempt, snapshot, ids, known, troubled >>

\* publish_topic raises, or the process is stopped before: the claim stays, the
\* process ends and is started again.
PublishFails ==
    /\ poller = "claimed" /\ poller' = "sleep"
    /\ infoFaults < InfoFaults /\ infoFaults' = infoFaults + 1 /\ troubled' = snapshot.at
    /\ UNCHANGED << world, attempt, snapshot, ids, infoQueue, known, polled >>

\* _handle_stream_metadata: the latest event is kept, and acknowledged.
KeepMetadata ==
    /\ infoQueue # << >>
    /\ known' = Head(infoQueue) /\ infoQueue' = Tail(infoQueue)
    /\ UNCHANGED << world, infoFaults, poller, attempt, snapshot, ids, polled, troubled >>

\* sub-llm ends and starts: its memory is empty, what it had not acknowledged is
\* delivered again.
Restart ==
    /\ known # Unknown /\ infoFaults < InfoFaults /\ infoFaults' = infoFaults + 1
    /\ known' = Unknown /\ troubled' = tick
    /\ UNCHANGED << world, poller, attempt, snapshot, ids, infoQueue, polled >>

InfoNext ==
    \/ InfoTick \/ (\E s \in Streams : StreamChanges(s))
    \/ Wake \/ Look \/ (\E outcome \in {"ok", "failed", "unreadable"} : Fetch(outcome))
    \/ ClaimSnapshot \/ PublishSnapshot \/ PublishFails \/ KeepMetadata \/ Restart

InfoSpec == InfoInit /\ [][InfoNext]_infoVars

\* When sub-llm has caught up, and neither the stream changed nor anything went wrong
\* since the minute began in which Twitch looked for the last good poll, its prompts have
\* the title and game of the stream - also when sub-llm had just started and the stream
\* had not changed for long, or an answer came so late that it is stamped with a later
\* minute: what a minute claims and publishes is never held back by an earlier minute, nor
\* by an older answer of the same one (publish_snapshot, _snapshot_id).
MetadataTrue ==
    /\ infoQueue = << >>
    /\ Bucket(changed) < Bucket(polled) /\ Bucket(troubled) < Bucket(polled)
    => known.live = stream.live /\ known.game = stream.game
=============================================================================

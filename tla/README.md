# Verification of streamer_toolbox

TLA+ models of the processes of streamer_toolbox, model-checked with TLC; every safety
property the runs check is also proved with TLAPS, for every value of the constants.
Paths are relative to the repository; `app/` stands for `app/src/app/`.

1. The system
2. Modules and the code they model
3. Runs: what they check, bounds, fairness
4. What the runs show about the documentation
5. Proofs
6. What is left out, and why
7. What could come next

## 1. The system

streamer_toolbox is a set of small processes around one durable topic exchange of
RabbitMQ (`stream_helper`). *Ingress* publishers turn Twitch, YouTube, Discord and
audio sources into `chat.message`, `eventsub.*` and `stt.segment` messages;
*subscribers* and *workers* read them from durable queues; the *egress* subscriber
`twitch-connector` posts `chat.reply` messages to chat. A runner starts the
processes and stops the stack when one of them fails. Some state is shared outside
the broker: one SQLite database (texts, summaries, idempotency keys), JSON
configuration files, PID files, a Chroma directory. Every consumer is
single-threaded (`bus.rabbitmq.consume_messages`, prefetch 1): a handler that
returns is acknowledged, one that raises is nacked with requeue and, since the
exception is re-raised, ends the process.

### Inventory

| Component | State | Operations | Interacts by | Hard behaviour | What makes it correct |
|---|---|---|---|---|---|
| Message bus `packages/bus` | queues in RabbitMQ | publish, consume, ack, nack | every process | redelivery after crash, at-least-once | a message is lost only by an ack |
| Idempotency store `stream_store/idempotency.py` | claimed keys with a TTL | claim, release, purge | all consumers, several processes | claim races, a crash after the claim | one owner per key; the key's work starts once |
| twitch-connector `app/subscribers/twitch_connector` | claims, broadcaster cache, throttle | resolve, POST, retry, report | consumes `chat.reply` | retry after a timeout of an accepted POST, crash mid-way, lost connection | bounded POSTs, no blind resend, nothing vanishes unaccounted |
| Message throttle `throttle.py` | timestamps in the window, last send per channel | wait | the connector's sends | the boundary of the window, the clock read twice | window and channel limits, no oversleep |
| Rule bot `app/subscribers/sub_bot_logic` | rules, cooldowns | process_payload, reload | chat and event messages in, replies out | crash between publish and ack, cooldown state, shared correlation ids | one reply per message, cooldown kept, every event announced |
| Config GUI `tools/streamer-config-gui`, `packages/control` | JSON files | PUT, publish `config.changed` | files and broker | torn writes, lost notices, concurrent PUTs | the subscriber ends with the rules of the file |
| Character brain, voice, face, stage `app/subscribers/sub_character_*` | pending turns, timers | merge, time out, play | `character.*` messages | timer against event, stale callbacks, repeats | a turn with audio is played, with its expression if it came |
| Process lock `app/processes/process_lock.py` | PID file | acquire, release, clear leftovers | file system, runner | check-then-act on the file, kills | one instance per name |
| Runner `app/processes/runner.py`, `child_supervisor.py`, `app/main.py` | child processes | spawn, poll, shutdown, fall back to another ingress | signals, process lock | a signal during startup, exit codes, a hung child | a failed child stops the stack; no orphan |
| Stream text store `stream_store/store.py` | sessions, chat and STT records, summaries, checkpoints | append, fetch, mark, unmark, save, relocate | several processes through SQLite | a crash between two commits, concurrent writers | each record summarised, again only after a failure |
| Memory worker, trigger, scheduler `app/workers/memory_*.py` | session, batch in hand, event and requested session | run_once, wait, signal | store, LLM, requests over the bus | a crash between saving and marking, a request while the event is cleared | a marked record has its summary; no request is slept through |
| Memory view and repair `app/memory_view` | revision, the page | repair, serve, count announcements | store, files, HTTP | repair beside a running worker, a stale page | repair loses no summary; the page follows the store |
| Stream record and QA memory writers `app/subscribers/stream_record_writer.py`, `sub_qa_memory_*` | claims, message in hand | append, claim, write | store, idempotency store | a crash between claim, write and ack | an acknowledged message is kept |
| LLM subscriber `app/subscribers/sub_llm` | claims, context buffers, Chroma collections | answer, record, index, announce | chat in, replies out, Chroma files | slow calls against redelivery, killed between claim and answer, a sync cut short | one answer per question, silence has a reason, the index is whole |
| Live status, first chat `sub_live_status`, `first_chat.py` | status, claims | announce, welcome | metadata, EventSub, idempotency store | several instances, a claim released at exit, concurrent handler tasks | one announcement per run, one welcome per stream |
| Overlay `app/subscribers/sub_show_overlay` | bounded queue, snapshot of lines | enqueue, drain, render, serve | messages, HTTP page | a full queue emptied while it is drained | the page shows the newest lines in order |
| TTS `app/subscribers/sub_tts` | bounded playback queue | filter, enqueue, play, shut down | messages, worker thread | shutdown during playback, a full queue | each accepted text is spoken or replaced, in order, once |
| Subtitles `app/subscribers/sub_visual` | filter, output, the line shown | filter, show, reload | messages, file or Spout2 | chat and notices in one queue, a torn file | what is shown passed the rules |
| Chat ingress `app/publishers/ingress_*`, `packages/*chat-lens` | connection, claims, reader threads, bounded queues | read, claim, publish, start, stop | chat services, a browser over WebSocket | reconnects, repeated notifications, a stop before the thread began | a message is published once; a stopped read is silent |
| Audio ingress `ingress_twitch_audio`, `ingress_local_audio` | bounded chunk queue, position | capture, put back, transcribe | threads | overflow, requeued chunks | each chunk is accounted for; positions are exact |
| Stream info ingress `ingress_twitch_stream` | last poll, claims | poll, claim, publish | Helix API, sub-llm | a snapshot claimed and not published, a state that returns | what sub-llm says of the stream is current |
| Identity and OAuth `packages/identity-oauth` | tokens, `.env` | refresh, authorize, callback | files, Twitch | a late answer, a rotated token only in the memory of one role | a token taken for fresh is; a rotated one is not used again by the role that rotated it |
| Emotes, game info, safety, voice clone | caches | lookup, filter | libraries | stale caches | pure functions mostly |

`PROJECT.json` names the files of each, says which are modelled, and lists under
"hazards" the line each hard behaviour bites at with the properties that cover it.

### How the modelled parts fit together

    Twitch, YouTube, sound                                         (LensReader: a browser's session)
      |  ChatIngress, YouTubeChat, AudioIngress, StreamInfo
      v
    the exchange ---> [inbox] ---> sub-bot-logic ---> [chat.reply] ---> twitch-connector ---> chat
      |   ^           (Broker)     (RuleBot,  ^       (AtMostOnce)      (ReplyConnector,
      |   |                         ConfigReload)                        MessageThrottle)
      |   |   config.changed  streamer-config-gui -+
      |   |
      |-> sub-llm: LlmSubscriber, KnowledgeIndex, LiveContext;  sub-live-status: LiveStatus
      |-> recorder, QA writers, memory worker, repair on one SQLite file: StreamMemory --> MemoryBoard
      |-> brain --> voice, face: CharacterPipeline --> [stage queue] --> TurnCoordinator --> OBS
      |-> ShowOverlay, Subtitles, TtsQueue --> screen, loudspeaker
    Runner starts them all; ProcessLock keeps one instance of each; OAuthTokens keeps them signed in

Where one component's behaviour depends on another's they are in one model: the bot
with its queue and the connector's contract (RuleBot, `AtMostOnce`), the GUI with the
file, the queue and the subscriber (ConfigReload), the runner with every child and the
lock files it releases (Runner, ProcessLock), both writers with the worker and the
repair (StreamMemory), the poll of Twitch with the prompts (StreamInfo), the brain with
voice, face and their queues (CharacterPipeline). The rest meet over the exchange only,
as messages that may come again or not at all, and each model has those among its inputs.

## 2. Modules and the code they model

Every definition that stands for code is mapped to its lines under "map" in
`PROJECT.json`. Operators introduced by a comment "Mutant:" (`Signal_NotSet`) are
deliberately wrong versions of the definition that follows them; no behaviour uses them,
they serve to show that each checked property can fail.

### Bus and egress

**Broker** — one durable queue and the consumers of it. `Publish`, `Deliver`, `Ack`
and `Requeue` are the calls of `packages/bus/src/bus/rabbitmq.py` seen from the
queue: prefetch 1, a nack or a lost connection returns the message to the head.
RabbitMQ itself is external; what the module assumes of it is its documented
contract for durable queues. It is stateless on its own and is instantiated with the
variables of each consumer model.

**AtMostOnce** — the abstract specification of the claim-before-send discipline,
per key: `fresh -> running -> sent | reported | lost -> fresh` (the last when the
claim expires).

**ReplyConnector** — `ReplySubscriber.handle` in several processes. `pc` is the
place in `consume_messages`/`handle` (`down`, `idle`, `received`, `dispatch`, `post`,
`report`, `settle`), `cur` and `attempt` are its locals, `claims` is the SQLite
table for the namespace `chat.reply`, `cached` the broadcaster cache. One action per
step another process or the broker can fall between: receive, refuse a malformed
payload, skip a duplicate, claim, resolve the channel, POST (accepted and known,
accepted but reported as failed, refused), report a `system.error`, acknowledge. A
crash, a lost connection (a handler that blocks longer than the heartbeat: the
message is redelivered while the handler goes on) and an exception outside the
caught types are faults. `life` is history: per key the number of POSTs, accepted
ones, accepted ones that looked like failures, reports, and handlings cut short;
for payloads without a key the same per payload. A claim expires (`Expire`) only
while nobody works on its key: the TTL is a day, the longest handling a few minutes.

**MessageThrottle** — `MessageThrottle.wait`. The connector calls it from the one thread
that consumes; the model lets several share it, as `_send_lock` is there for. `Look` is the
loop body under the lock up to the decision, `Grant` the second reading of the clock and
the bookkeeping, still under the lock; `Tick` may fall between them. `wake` is when the
caller's `time.sleep` ends; the scheduler may wake it later.

### Rule bot and configuration

**ConfigReload** — `PUT` requests of the GUI (`Open` truncates, `Write` writes,
`Announce` publishes or fails, `GuiCrash`) against the subscriber (`Start`, `Bind`,
`Receive`, `HandleNotice`, `HandleChat`, `Done`, `Crash`). The file holds a version,
or is `Empty` (truncated) or `Mixed` (a shorter text over a longer one), which
`BotResponseMap.reload` replaces by its defaults. Chat messages travel in the same
queue and carry, as history, the newest version whose PUT had returned.

**RuleBot** — from ingress to chat: `BotLogicSubscriber.handle` and the decisions of
`BotRulesEngine` (answer or not, source, correlation id, cooldown), the queue of the
connector, and the connector by its contract: the first reply of a key is posted or
reported, the next ones are dropped. That an accepted POST can be retried after a
timeout is ReplyConnector's subject and is not repeated here, so `OneReplyPerMessage`
means "one, but for retried timeouts". Each process keeps its own cooldowns; a
payload whose handling raises comes back and kills the next process too
(`DecideRaises`).

### Processes

**ProcessLock** — the PID file as a protocol over the file system. `is_file`,
`read_text`, `pid_is_alive`, `unlink`, `O_EXCL` creation and the write of the pid are
separate actions of processes that share nothing but the path: what was read (`pidRead`) may
be out of date when it is looked up, and when the file is unlinked. `site` says which call of
`_locked_pid` is being made: the runner's before it spawns, the first of
`acquire_process_lock`, the one inside `acquire` after a lost race, or the one after
`acquire` returned False. `turn` is history: no two starts overlapped, no write
failed, and no runner released the lock of a live instance, so far. A pid stands for
one instance; its reuse by unrelated programs is left out. The unlinking of a file
that another process still holds open succeeds as on POSIX; on Windows the same
violation remains when the reader unlinks after the writer has closed the file.

**Runner** — `cmd_run` and `run_processes`. `pc` walks through the stack's lock, the
check of running children, the supervised start of EventSub (a poll of its exit code, a
status line read by another thread, a timeout), the fallback to IRC, the spawning, the
polling loop and the shutdown. The signal handler runs in the main thread between any
two of its steps (`Signal`); children end for reasons of their own (`ChildEnds`), and
when
the runner is killed each ends by its parent-death hook (`ParentDeath`). `SetupHook` is
EventSub's registration of its subscriptions: what decides the fallback is whether that
of the chat succeeded. A child that ignores SIGTERM is killed after the join's
timeout, which ends it at once.

### Memory of the stream

**StreamMemory** — `StreamRecordWriter`, both QA writers, `run_scheduled_worker` with
`MemoryWorker.run_once` and `MemoryTriggerHandle`, and `repair_session_channel_isolation`,
on one SQLite file. Every commit is an action, so crashes and other processes fall between
any two, also between the answer a QA writer keeps and the session it makes the active one.
Nothing in the repository but its test calls the repair; the model lets somebody run it at
any time. `records` and `summaries` are the tables, `checkpoint` the channel's active
session, `claims` the claims of QA pairs; `inbox`, `replies` and `requests` are the queues.
A session is a channel and a day; `WorkerSession` is the worker's choice of one (explicit,
of the active channel, or the latest). History: `acked` messages, `orphans` (QA claims of a
process that died), and whether a repair was cut short or met a batch in hand (`disturbed`).
A database may start with a record that an older version filed under the wrong channel,
which is what the repair is for. `config` is the environment: which sources are summarised,
whose channel, which QA writer and which loop.

**MemoryBoard** — the board's listener thread, its HTTP threads and the page in the
browser. The revision counts announcements since the process started and is read before
what the store says, in the same request; the page loads again when it differs from the one
it remembers. It polls whether or not an earlier load is under way, and a click on a session
starts another one, so loads overlap (`loads`) and their answers may cross. The board answers
with the oldest `BoardLimit` summaries of a session (`Oldest`; 100 in the code), and the page
stays with the session it first found active until another one is clicked.

### sub-llm and its neighbours

**LlmSubscriber** — `_handle_chat_message` and `main` in two instances: claim of the
content for its window of the clock, claim of the message, the model, the publishing of
the reply and of the QA record, the release of claims one after the other when no reply
went out, and the greeting with its startup claim. An instance is killed, interrupted or
raises at any step, a claim or a release itself may raise, a publish raises after the broker
had the message, and the broker hands the question to the other instance when the model took
longer than the heartbeat. `Owned` are the claims an instance has made and has yet to give
back or to answer under; `orphans` (history) those left by one that ended without doing so.

**KnowledgeIndex** — the incremental sync of Chroma collections: compare the
fingerprint, upsert the chunks, read and write back the file of fingerprints, each a
step. Sources change meanwhile, syncs of two processes overlap, and one may stop in
between.

**LiveContext** — append and prune of a context buffer, the algorithm the three share,
and its reconfiguration; `heard` is every entry that ever came, `kept` which of them are
in the buffer. **StreamInfo** — the polling loop of `ingress-twitch-stream`:
Twitch looks at the stream (`Look`), the answer arrives, is late or fails (`Fetch`, which
stamps it with the time of its arrival), retries, the claim of a snapshot by content and
minute, its publishing, and what sub-llm keeps of it. **LiveStatus** — the first metadata an instance handles is
announced under a claim that is released when that instance exits in good order.

### Ingress

**ChatIngress** — the handler tasks of EventSub, which interleave at their awaits; the IRC
thread with its queue and loop; the claims both use; the welcome of the first viewer between
`stream.online` and `stream.offline`. Notifications are repeated or lost with the process.
**YouTubeChat** — the reader's thread, its bounded queue that loses the oldest, and the
loop. **AudioIngress** — capture, the bounded chunk queue, the model that loads meanwhile
and the chunk put back at the end, transcription, and the position of a segment.
**LensReader** — a WebSocket session that starts and stops reads: two threads per read (IRC
and the draining of its queue), joins that give up after five seconds, and the sends
scheduled on the server's loop.

### Output

**ShowOverlay** — the bounded queue that is emptied and refilled by its producer while
the render thread takes batches from it, the snapshot, and a page that polls it.
**Subtitles** — the filter and the output of `sub-visual`, a file or Spout2, and their
reload from a file that may be torn; of the GUI it has one save at a time (ConfigReload has
the rest). **TtsQueue** — the playback queue, its thread, and
the shutdown that speaks out what waits.

**CharacterPipeline** — `sub-character-brain`, `-voice` and `-face` with their queues: what
is generated, remembered, published and replied, when each of them is interrupted and
handles its message again. **TurnCoordinator** — `sub-character-stage`. The main thread
(`Receive`, `KeepExpression`, `ArmTimer`, `MergeParts`, `Done`, `Close`, `Exit`) and the
`threading.Timer` threads (`Elapse`, `TimeoutIdle`, `TimeoutPlays`) share `_pending` and
`_timers` under one lock that is held during playback, so each locked section is one action.
`threads` keeps every timer thread ever started: one whose wait is over (`due`) cannot be
cancelled and runs `_on_timeout` later, when `_timers` may hold another timer of the same
turn. `plays` records the calls of `play_turn`.

**OAuthTokens** — the refresh of an access token whose answer comes late or never, the
rotation of refresh tokens in the memory of a role, the refresh tokens both roles start with
(`given`; one and the same with a single account or the legacy variable), and `authorize`
with its callback server and `.env`.

**MC…** modules give the constants of each specification their values for TLC. MCLlm,
MCEdges and MCThrottleBoard hold several specifications that share no state: a variable `part` chooses, in
the initial state, which of them a behaviour is about, the others stay at their initial
values, so one run explores the sum of their state spaces and not the product.
**…_proofs** modules hold the TLAPS proofs (section 5).

## 3. Runs: what they check, bounds, fairness

| Run | Properties | Bounds | Why they suffice |
|---|---|---|---|
| `connector` | PostsBounded, OneWorkerPerKey, AckedIsAccounted, ImplementsAtMostOnce, QueueDrains | 2 processes, 5 payloads, 2 keys, any 2 publications, 2 attempts, 1 fault | one publication each of two payloads sharing a key, or the same one twice, covers repetition; one fault puts a message into two hands or cuts a handling short; safety is proved for all values |
| `throttle_board` | LimitsRespected, NoOversleep, BoardCurrent | 2 threads, 2 channels, window 2 in 4, interval 2, 4 sends, clock to 9; 2 sessions, 2 loads at a time, 2 summaries, the oldest one of a session listed, 2 starts of the board, 1 failure | the window fills twice and both limits are binding in either order; a poll, a click and a restart each meet a load under way, and a summary is beyond the limit; proved for all values |
| `config_reload` | SettledIsFresh, NoOlderRules, Converges | 2 savers, 3 saves, 2 chat messages, 2 faults | two writes can interleave, and a third can follow a crash; safety is proved for all values |
| `rule_bot` | OneReplyPerMessage, KeywordsOnCooldown, CommandsSettled | 2 processes, 6 kinds of payload, any 2 publications, 1 crash, clock 2..5, cooldown 2 | a pair of payloads is what deduplication and cooldown relate; safety is proved for all values |
| `stage` | NeverStuck, PlaysJustified, TurnsPlayed | 2 turns, any 5 publications of their events, 1 fault | five events allow a turn to be played, repeated, and a stale timer to meet the repetition; safety is proved for all values |
| `lock` | OneInstanceInTurn, StartsDecided, NoLeftoverRefuses | 3 instances, one of a runner, 3 starts, 2 kills, 1 failing write | a holder, one that clears and one that starts are all the protocol involves at a time; safety is proved for all values |
| `runner` | NothingLeftBehind, OneChatIngress, EverybodyStops | 4 processes; no child, a stack with IRC, one with EventSub, one with both | a child of each role and two of the plain kind, signals, failures and kills without a bound; safety is proved for all values |
| `memory` | NothingLost, RepeatsOnlyAfterFault, NoRequestSleeps, RecordsSummarized | 2 channels, 2 days, batches of 2, 2 messages, 1 repair, 1 fault, 3 of these together; a table that is empty or has a foreign record; 2 environments | a batch can be partly in hand when the repair, a crash or the next day comes; two records and a summary are what the commits relate; the three invariants are proved for all values |
| `llm` | AnsweredOnce, SilenceExplained, ClaimsExplained, IndexComplete, StatusOncePerExit, ContextCurrent | 2 instances, 2 questions, 2 messages, 2 windows of the clock, 2 faults; 2 readers, 2 sources of 2 chunks, 3 edits, 1 stop; 2 announcers, 4 lives; clock 3, 3 entries; 5 ticks, 2 changes of the stream, 1 retry, 1 fault | two messages are the same question in one window or in two, or different ones; the second fault strikes the handling of what the first sent back; three edits let a source return to an older text; all six are proved for all values |
| `edges` | ChatArrives, SpeechAccounted, SessionOwnsReads, ScreensCurrent, SpokenThrough, TokensWork, AnswersBelongTogether | in `Edges.cfg`: queues of 1 to 3, one or two more messages than they hold, one or two faults and restarts of each process, 3 turns with a memory of 2, tokens that live 2 ticks | every bounded queue overflows and is drained after it; each process is restarted with work in hand; all seven are proved for all values |
| `rule_bot_events`, `lock_two_starts` | EventsAnnounced; OneInstance | minimal | section 4 |

All runs switch TLC's deadlock check off because the modelled programs do stop: the
bounds on publications, starts and the clock end every behaviour, and a process may be
down for good. Bounds appear as guards on actions of the environment only, never
on steps of the code. Type correctness is not a property of the runs: each module
has a type invariant with a theorem in its proof module. The symmetry in `llm` permutes
processes, questions, sources and chunks, that in `throttle_board` threads, channels,
sessions and loads, which nothing orders; these runs check invariants only.

What the properties mean:

* `PostsBounded`, `OneWorkerPerKey`: at most `MaxRetries` POSTs per key and claim, and a
  key is in chat twice only if an accepted POST looked like a failure; no two processes
  work on one key, although the broker may hand the same message to both.
* `AckedIsAccounted`: an acknowledged reply is in chat, was reported as
  `system.error`, or (keyed replies only) an earlier handling of it was cut short.
  The last case is real: the claim outlives the crash, so the redelivery is skipped.
* `ImplementsAtMostOnce`: refinement of AtMostOnce by `StatusOf`.
* `LimitsRespected`, `NoOversleep`: the window's and the channel's limit hold by the times
  recorded, which are later readings of the clock than those decided on, and a pending sleep
  ends exactly when its reason does.
* `SettledIsFresh`, `NoOlderRules`, `Converges`: once each announced save is dealt
  with, the subscriber has what a fresh start would load; no chat message sent after
  a PUT returned is answered with older rules (the defaults aside), and the
  subscriber ends with the rules of the file. All three exclude saves that were
  never announced: the GUI ignores the result of its publish, and what a lost notice
  leaves behind is corrected only by the next one or by a restart.
* `OneReplyPerMessage`, `KeywordsOnCooldown`, `CommandsSettled`: at most one reply per
  chat message whatever is repeated or crashes; two keyword replies of a process are a
  cooldown apart and nothing but a reply mutes one (the initial 0.0 mutes nothing if
  the clock starts at or after one cooldown); every command is settled while a process stays up.
* `NeverStuck`, `PlaysJustified`, `TurnsPlayed`: a waiting audio has a live timer; every
  play has both parts, its own timeout, or the stale timer of an earlier play of that
  turn as its reason, and none follows `close`; every queued audio is played.
* `OneInstanceInTurn`, `StartsDecided`, `NoLeftoverRefuses`: the three ways to a
  second instance (overlapping starts, a failed write, a runner that releases a live
  lock) are the only ones; `acquire`, which calls itself, comes to an end; a leftover
  file never refuses an instance that is alone.
* `NothingLeftBehind`, `OneChatIngress`, `EverybodyStops`: when the runner has returned
  no child runs, the stack can be started again and a failure is in the exit code,
  wherever a signal hit it; EventSub and IRC never both read the chat and nothing else
  starts before one of them does; a signal, a failure or the runner's death ends all.
* `NothingLost`: an acknowledged message is in the store, unless it is a QA pair whose
  claim a dead process holds; a record marked as summarised is covered by a summary
  that still exists, unless a repair runs, was cut short or met a batch in hand. Both
  exceptions are what the code does.
* `RepeatsOnlyAfterFault`, `NoRequestSleeps`, `RecordsSummarized`: a record is
  summarised again only after a failure or a repair; the session last asked for has its
  event set until the worker takes it (a request overwrites the session of one that was not
  taken yet); all records of the session the worker is on are summarised again and again. A
  session that is left is never looked at again, which is why the last property speaks of
  `WorkerSession` only.
* `AnsweredOnce`, `SilenceExplained`, `ClaimsExplained`: one reply per message and per
  content and window, unless a publish raised after the broker had it; without a failure
  every question gets an answer, had none worth sending or was a repetition; every claim -
  of a question's content, of its message, of the start - belongs to the instance at work on
  it, is that of a reply that went out, or was left by a process that was killed, whose
  greeting raised or to which the table itself failed; no instance loses a claim it counts on.
* `IndexComplete`: a source whose fingerprint is current is whole in the collection,
  unless two syncs have overlapped or an edit has brought a source back to the text of its
  fingerprint (a sync of the text in between may have been cut short, and nothing would
  ever undo what it wrote).
* `StatusOncePerExit`, `ContextCurrent`: one announcement, and one more for each exit in
  good order; nothing within window and limit is forgotten, and when sub-llm has caught up
  its prompts have the stream's title and game, if neither the stream changed nor anything
  failed since the minute began in which Twitch looked for the last good poll. It says when
  Twitch looked, not when the answer came: the code stamps a snapshot on arrival, so one up
  to ten seconds old may claim the next minute, and until the next poll the prompts are as
  old as it is.
* `ChatArrives`, `SpeechAccounted`, `SessionOwnsReads`: Twitch messages are published once
  and the first viewer is welcomed once a stream; YouTube items come in order, only the
  oldest of a full queue are lost; each chunk of sound is transcribed once, lost to a full
  queue or still waiting, and positions are exact as long as none was put back out of its
  order; a lens session hears only the read it started, unless a join gave up.
* `ScreensCurrent`, `SpokenThrough`: a burst costs the overlay its oldest
  lines and never the newest, and a page that remembers the revision shows its lines; no
  subtitle is shown that every version of the rules since the message was said forbids;
  speech is serial, in order, and a process that ends by itself has spoken all it
  acknowledged and did not replace.
* `BoardCurrent`: a page that believes itself current shows what the board lists of its
  session, unless its revision is that of a list of sessions whose summaries never came or of
  an earlier process. What the board lists are the oldest 100 summaries: of a longer session
  the page never shows the newest ones. Nor does it follow the active session, and when two
  clicks cross, the summaries shown may be those of the session clicked first.
* `TokensWork`, `AnswersBelongTogether`: a token taken for fresh has not expired at Twitch
  however late its answer came (within httpx's timeout, which the margin exceeds); the
  refresh token a role would post was not rotated away by this process, in either role, with
  one exception: where both roles were given one token (a single account, or the legacy
  variable) the role that has not refreshed yet holds what the other rotated away. The next
  start reads what an authorization brought. Audio, expression and reply of a turn are of one
  text, and the brain remembers published answers only.

Fairness. A process that is up executes its next step (weak fairness of the
handler's or thread's steps): Python threads and the broker's delivery give that much.
Nothing is assumed of operators, of producers or of faults: no start is fair, and
liveness is stated "while a process stays up". `WF_vars(Handle(c))` is for the whole
loop of a consumer: at each place in it exactly one kind of step is possible. Timers
elapse (`WF` on the timer threads). `StartsDecided` and `NoLeftoverRefuses` need only
that each process goes on; how long an instance runs is its own business. In Runner the
main thread goes on (`WF` of `RunnerNext`), the deadline of the supervised start, a
reading of the clock in every round of its loop, passes although other steps of the loop are
possible all the time (`SF` of `StartupTimeout`), and the kernel delivers the
parent-death signal. In StreamMemory each process goes on, the worker is started again
after it failed (the deployment restarts it; without that nothing would be summarised),
and a repair once begun runs to its end or is cut short; no message, request or day is
fair, and faults are bounded. The runs `llm`, `edges` and `throttle_board` check safety only.

## 4. What the runs show about the documentation

Each run that expects a violation checks a sentence of the documentation or a test
against what the code does; "findings" in `PROJECT.json` quotes both.

* `rule_bot_events`: replies to EventSub events carry the broadcaster id as
  correlation id, so the connector drops every such reply after the first of a
  channel as a duplicate, for a day.
* `lock_two_starts`: a reader takes a file that has been created but not yet written for a
  leftover and unlinks it; both instances run. With `Managed` not empty, `OneInstance` also
  fails when the runner releases by name the lock of the instance that refused its child
  (`app/processes/runner.py:259`), and with `MaxFaults > 0` when the pid cannot be written
  and the instance runs without a lock (`process_lock.py:164`). `OneInstanceInTurn` says,
  and section 5 proves, that there is no fourth way.

## 5. Proofs

Eight modules hold proofs, checked by tlapm from nothing; all assumptions are the
named ASSUMEs on constants in the specifications: bounds are natural numbers or not
restricted at all, a queue has room for one item, a model value is not a number, a time
of waiting is within the margin the code leaves for it. Hardly a property is inductive as
it stands; each proof strengthens it to an invariant that is, shows that every action
keeps each conjunct the action can disturb, and derives the property from it. The
invariants were checked by TLC on the instances of the runs before they were proved.

| Module | Proves about |
|---|---|
| TwitchConnector_proofs | ReplyConnector, MessageThrottle |
| RuleBot_proofs, ConfigReload_proofs | RuleBot; ConfigReload |
| Processes_proofs | ProcessLock, Runner |
| TurnCoordinator_proofs | TurnCoordinator |
| StreamMemory_proofs | StreamMemory |
| Llm_proofs | LlmSubscriber, KnowledgeIndex, LiveContext, StreamInfo, LiveStatus |
| Edges_proofs | the specifications of MCEdges, and MemoryBoard |

### TwitchConnector_proofs

ReplyConnector: `Typing`, `Posts`, `OneWorker`, `Accounted` and `Implements`, for any number
of processes, payloads, keys and faults. `IInv` adds: whoever is past the dedup check holds
the claim of its key (`ClaimHeld`), an unclaimed key has no history (`UnclaimedIsFresh`),
the POSTs of a key were made in earlier attempts of the handling under way (`BudgetLeft`),
no handling goes on after a POST it knows was accepted (`OnlyUnsure`), and a claimed key is
being worked on or shows what became of it (`ClaimedIsAccounted`). The steps are sorted into
a few kinds by what they do to claims and history (`Frame`, `Work`, …), one lemma each.
`Implements` needs `MaxRetries > 0` and follows from the invariant by showing that each step
moves `StatusOf` of at most one key along one edge of AtMostOnce.

MessageThrottle: `ThrottleTyping`, `Limits` and `ThrottleTight` (NoOversleep). The
deque forgets; the invariant relates it to the history: it is the tail of everything
sent and what it dropped has left the window (`DequeIsTail`), the per-channel time is
the latest send (`LastIsLatest`), and who holds the lock after its decision may still go
ahead although the clock moved (`GrantIsSafe`).

### Processes_proofs

ProcessLock: `LockTyping` and `TurnSafe` (OneInstanceInTurn). While starts are
in turn: each instance that runs or leaves still finds its own file
(`HoldersLocked`), a writer owns the empty file (`WritersOwn`), who has read a pid has read
the holder's, if there is one left (`ReadersInformed`), who is about to
clear has seen a file of nobody alive (`ClearersAreAlone`), at most one instance is
starting (`OneStarting`), and no retry is under way (`OnlyFirstLook`). Holders agree
on one file, hence are one.

Runner: `Typing`, `Stopped` (NothingLeftBehind) and `OneIngress`, for any set
of processes and of stacks. `RInv`: every living child is in the list that shutdown goes
through (`Watched`), after the return none lives (`Gone`), a failure is in the exit code
(`Reported`), the status line and the exit code of EventSub tell of its subscription
(`Honest`), once the plan is made nobody but the supervised start starts EventSub or,
after it, IRC (`OutOfReach`), and the supervised start leaves one of the two reading the
chat (`Supervision`).

### TurnCoordinator_proofs

`Typing`, `Unstuck` (NeverStuck) and `Justified`
(PlaysJustified). `TInv` relates `_pending`, `_timers` and the threads: a registered timer
is a thread of its turn that can still go off (`TimersLive`), a turn has one exactly
while its audio waits (`TimedIsPending`), a closed coordinator is empty
(`ClosedIsEmpty`), and a thread that can go off and is no longer registered lost its place
to a play of its turn (`OrphansPlayed`).

### RuleBot_proofs

`Typing`, `OneReply` and `Cooldowns`. `BInv`: a reply that is in
chat is claimed (`ChatIsClaimed`), and `last_at` of a process is the newest of its replies
to the keyword (`LastIsNewest`).

### ConfigReload_proofs

`Typing`, `Fresh` (SettledIsFresh) and `NotOlder`
(NoOlderRules). `CInv`: the file is torn or has what was written last (`FileIsLast`,
`Written`), a process that is down has no rules (`DownIsDefault`), a settled subscriber
agrees with the file also before its queue is bound (`Settled`), the rules are as new as
the last announced save or a notice is on its way (`NoticeAhead`), ahead of every chat
message that needs it (`ReloadAhead`).

### StreamMemory_proofs

`Typing`, `Lossless` (NothingLost), `Repeats` (RepeatsOnlyAfterFault) and `Prompt`
(NoRequestSleeps), for any tables, batch limit, days, requests, repairs and crashes.
`MInv` is `TypeOK` with two parts. `Keeping`: what a writer has in its hand and is about
to acknowledge is stored, blank or not its own (`RecorderKeeps`, `QaKeeps`), and a claim
or an acknowledged message is in the store or an orphan (`ClaimsKept`, `AckedKept`).
`Covering`: a summary's ids are records of its source (`SummarySources`), the sources of
the batch in the worker's hand that are done are covered (`BatchCovered`), a
repair has moved or holds in its hand every foreign record of its session
(`RepairOrder`), and what is marked is covered or about to be unmarked by the repair
(`MarkedCovered`). Each action is shown to keep the parts separately.

`Repeats` keeps an account of each record (`RepeatInv`): the summaries it is in, the one
that is still to come (`Opened`: it is unmarked, or in the batch with its source to do)
and the one a repair under way may ask for again (`Owed`) are together at most one more
than the faults and the repairs so far (`Paid`). Saving a summary spends what was to
come; a fault reopens the batch in hand and pays for it; a repair pays when it starts for
what it unmarks later, and what it relocates is never what its last step resets
(`RepairPaid`). That the number of a record's summaries grows by one at a time is a fact
about finite sets, so no induction over the history is needed.

### Llm_proofs

* `ToldOncePerExit` (StatusOncePerExit): the announcements made and the processes about
  to make one are together at most the exits, plus one while a claim is held
  (`SaidOrClaimed`); that needs the processes to be finitely many.
* `IndexWhole` (IndexComplete): while syncs do not overlap at most one reader is between
  its comparison and its write (`OneSync`), and what it is about to write as the
  fingerprint of a source is in the collection whole (`SyncSound`).
* `PromptsCurrent` (ContextCurrent), for both specifications together. The buffer: the
  window and the limit were never below `narrowest` and `tightest` (`BoundsNarrow`), and
  an entry is dropped only if the window does not reach back to it or `limit` entries are
  newer (`PrunedKeeps`). The metadata: polls and snapshots are not ahead of the clock, an
  answer does not arrive before Twitch looked, and no claim is of a later minute than the last
  snapshot (`InOrder`); a snapshot of a look since the stream last changed is true
  (`SnapshotTrue`); and once a minute without change or fault is claimed, what sub-llm will
  know when it has caught up is the stream's state, unless the claimant is still to publish
  it (`LatestTrue`).
* `AskAnsweredOnce`, `AskSilenceExplained`, `AskClaimsExplained`, from one invariant
  `AskInv`: a claim is held by one handler at a time, which is the only one that can
  reply under it (`AskHeld`, `AskOnce`), each claim is somebody's or orphaned (`Accounted`),
  and as long as nothing failed each message is in the queue, in one hand or dealt with (`Smooth`), and each that was passed over has its
  reason in the claims (`Reasoned`).

### Edges_proofs

Begins with lemmas on queues (what pushing, popping and shifting do to the elements, the
order and the distinctness of a sequence), then one invariant per component:

* `TtsInv` (SpokenThrough): what is spoken, in the mouth and queued ascends, in this order,
  and with what was refused or replaced they are all that was said (`InTurn`); the thread
  ends only after the stop, with the queue empty (`EndsLast`).
* `AudioInv` (SpeechAccounted): each chunk is in one place (`ChunksPlaced`), their number
  adds up with the chunks lost (`ChunksCounted`), and while none was put back behind a
  newer one the places follow the capture (`ChunksInOrder`, `SegmentsTimed`).
* `BoardInv` (BoardCurrent): only what is saved is counted (`CountedSaved`), and a load whose
  revision is still current has read a list with all that was counted, also while other loads
  are under way (`ReadBehind`). A new summary does not change which of the earlier ones are
  the oldest (`OldestKept`), nor does the limit ever take one away again (`OldestGrows`).
* `OAuthInv` (TokensWork): an expiry is counted from the issue of the token up to the
  latency (`ExpiryClose`); refresh tokens are numbered as they are issued, and none in a
  process or a file is ahead of that (`NoneFromAhead`); a role holds no token it has spent
  itself, and one in an answer on its way is newer than all that either role had
  (`NewerOnItsWay`); a role holds a token the other has, or has spent, only while that is the
  one both started with (`SharedAtStart`); what was authorized last is what a process would
  read now (`AuthorizedRead`).
* `OverlayInv`, `SubtitleInv` (ScreensCurrent): while put() drains the full queue the newest
  message is in its hand (`NewestInHand`) and what it refills has room (`RoomKept`), and a
  page is never ahead of the process it asked (`PageBehind`) and shows what it last read
  (`PageShowsRevision`); a saved version of the rules has its notice in the queue or has
  been read (`NoticesAhead`).
* `TubeInv`, `ChatInv` (ChatArrives): polled, queued and sent ascend and have each item
  but the ones dropped (`PolledNewer`, `QueueNewer`, `SentInOrder`, `TubeCovered`); what is
  published is claimed, by one handler only (`ClaimedOnce`), and the welcomes given, under
  way and still to claim for a stream are not more than its starts (`WelcomesAllowed`).
* `CharacterInv` (AnswersBelongTogether): each item of each queue has the text of its turn
  (`TurnsTold`), the brain's hand that of the turn published last (`AnswerAtHand`), and its
  memory the newest of this run (`Remembered`).
* `LensInv` (SessionOwnsReads): a read that is not the current one was stopped and joined,
  or the join gave up (`ServedInTurn`, `ThreadsEnd`), and a read's lines pass queue, outbox
  and wire in order (`LinesLeave`).

Only model-checked: all liveness (`QueueDrains`, `Converges`, `CommandsSettled`,
`TurnsPlayed`, `StartsDecided`, `NoLeftoverRefuses`, `EverybodyStops`,
`RecordsSummarized`), which the prover does not reach (fairness and ENABLED).

## 6. What is left out, and why

* Contents of messages, templates, prompts, formatting, logging, rate-limit headers:
  no property depends on them.
* The services behind HTTP, OBS, Twitch, YouTube, Chroma, the language models and
  RabbitMQ: external, by their contract.
* `QueueDrains` and `CommandsSettled` say nothing about a process that keeps dying on
  a poisonous message; the code requeues such a message for ever.
* An expression without audio stays in `_pending` of the coordinator for ever; a
  `play_turn` that raises loses the turn; an exception of the YouTube chat ends the
  reader and leaves the loop waiting: the code promises nothing about them.
* `window_limit <= 0` (IndexError) and claims outlived by their handling are excluded
  by assumptions of the models.
* `ingress-discord` and the capture of `ingress-local-audio`: relays of what a library
  gives them, with the queueing that ChatIngress and AudioIngress have.
* The server of tubechat-lens, the interactive menu of the runner, the schema migration
  and the read-only queries of the store, the static site and bootstrap of the GUI.
* Emotes, game information, safety filters and the offline voice tools: helper libraries
  without state shared between processes. The cache of game information keeps a failed
  lookup for an hour; it is listed as a hazard.

## 7. What could come next

* An abstract specification of the idempotency store that both sub-llm and the
  ingress processes are shown to use as AtMostOnce, as the connector does.
* Proofs of action properties behind the liveness ones: that a step of a consumer never
  moves its message away from being settled, say, which a proof with fairness would use.
* Pure algorithms (deduplication keys, chunking of long replies) as functions against
  reference definitions.

---------------------------- MODULE StreamMemory ----------------------------
(***************************************************************************)
(* The long-term memory of a stream: sub-stream-record writes chat and     *)
(* speech records to SQLite, the QA writers add the bot's own answers, and *)
(* sub-memory-worker turns batches of unsummarized records into summaries, *)
(* on a timer or on memory.summarize.request.  repair_session_channel_     *)
(* isolation, run by hand, undoes sessions in which an older version mixed *)
(* channels.                                                               *)
(*                                                                         *)
(* Each SQLite commit is a step of its own: the processes share the file,  *)
(* and a crash can fall between any two commits.  A record's id stands for *)
(* its timestamp, a message for its whole payload; a queue keeps its head  *)
(* until the consumer acknowledges it (module Broker, prefetch 1).         *)
(***************************************************************************)
EXTENDS Integers, Sequences, FiniteSets, FiniteSetsExt

CONSTANTS Channel,      \* normalized channel names
          Legacy,       \* tables an older version may have left: sequences of records
          Nothing,      \* no session, no channel
          Configs,      \* environments: [mode, channel, explicit, qa,
                        \* run (the worker's command line), heard (channels read)]
          BatchLimit,   \* MEMORY_BATCH_LIMIT
          MaxDay,       \* bound: UTC days
          MaxMessages,  \* bound: messages of all kinds
          MaxRepairs,   \* bound: runs of the repair
          MaxFaults,    \* bound: crashes and failed calls
          MaxTotal      \* bound: messages, repairs and faults together

Session == Channel \X (1 .. MaxDay)
Stored  == [chan : Channel, sess : Session, src : {"chat", "stt"}, msg : Nat, marked : BOOLEAN]

ASSUME MemoryAssumption ==
    /\ Nothing \notin Channel \cup Session
    /\ BatchLimit \in Nat \ {0}
    /\ MaxDay \in Nat \ {0}
    /\ {MaxMessages, MaxRepairs, MaxFaults, MaxTotal} \subseteq Nat
    /\ Legacy \subseteq Seq(Stored)
    /\ Configs \subseteq [mode : {"chat", "stt", "both"}, channel : Channel \cup {Nothing},
                          explicit : Session \cup {Nothing}, qa : {"none", "batch", "structured"},
                          run : {"once", "until_empty", "scheduled"}, heard : SUBSET Channel]

VARIABLES
    config,      \* the environment, read once
    day,         \* today
    records,     \* text_records: id -> [chan, sess, src, msg, marked]
    summaries,   \* id -> [sess, src, period, ids, kept]; ids is history
    checkpoint,  \* memory_checkpoints: channel -> session or Nothing
    inbox, recorder,    \* sub-stream-record: its queue; "idle", "stored", "done"
    replies, qa,        \* the QA writer: its queue; "idle", "claimed", "stored",
                        \* "activated", "written", "skip"
    filed,              \* the session the answer in hand is filed under
    claims,             \* its keys in the idempotency store
    requests,           \* the queue of memory.summarize.request
    event, pending,     \* MemoryTriggerHandle
    worker,      \* "down", "start", "fetch", "save", "mark", "wait", "woken", "clear"
    session,     \* the session of the cycle
    batch, todo, \* the records fetched, the sources still to summarize
    repair,      \* "idle", "migrate", "unmark", "delete", "reset"
    subject,     \* [sess, doomed, moving]: what the repair works on
    sent, acked, orphans,      \* history: messages, acknowledged, claims of the dead
    disturbed,   \* history: a repair was cut short or met a cycle
    repairs, faults  \* so far

environment == << config, day, sent, repairs, faults >>
store    == << records, summaries, checkpoint >>
recording == << inbox, recorder, acked >>
answering == << replies, qa, filed, claims, orphans >>
handle   == << event, pending >>
cycle    == << worker, session, batch, todo >>
repairer == << repair, subject, disturbed >>
vars == << environment, store, recording, answering, requests, handle, cycle, repairer >>

Known   == config.heard \X (1 .. day)
Ids     == DOMAIN records
NoRepair == [sess |-> Nothing, doomed |-> {}, moving |-> {}]

Sources(m) == IF m = "both" THEN {"chat", "stt"} ELSE {m}

\* resolve_session_id: the explicit id counts only if it is of this channel.
WriterSession(c) ==
    IF config.explicit # Nothing /\ config.explicit[1] = c
    THEN config.explicit ELSE << c, day >>

LatestOf(S) == IF S = {} THEN Nothing
               ELSE records[CHOOSE i \in S : \A j \in S : j <= i].sess

\* resolve_session_for_channel and _resolve_session_id of the worker.
WorkerSession ==
    LET c   == config.channel
        own == {i \in Ids : records[i].chan = c \/ records[i].sess[1] = c}
    IN IF config.explicit # Nothing /\ (c = Nothing \/ config.explicit[1] = c)
       THEN config.explicit
       ELSE IF c = Nothing THEN LatestOf(Ids)
       ELSE IF checkpoint[c] # Nothing THEN checkpoint[c]
       ELSE IF own = {} THEN << c, day >> ELSE LatestOf(own)

\* Where a cycle goes when it is over; `found` is run_once() > 0.
AfterCycle(found) ==
    CASE config.run = "scheduled" -> "wait"
      [] config.run = "until_empty" /\ found -> "start"
      [] OTHER -> "down"

\* fetch_unsummarized_chat / _stt / _merged: the oldest BatchLimit of them.
Unsummarized(s) ==
    LET S == {i \in Ids : /\ records[i].sess = s
                          /\ records[i].src \in Sources(config.mode)
                          /\ ~records[i].marked
                          /\ config.channel \in {Nothing, records[i].chan}}
    IN {i \in S : Cardinality({j \in S : j < i}) < BatchLimit}

\* append_chat, append_stt (with ensure_session); one commit.
AppendRecord(c, s, src, m) ==
    records' = Append(records,
                 [chan |-> c, sess |-> s, src |-> src, msg |-> m, marked |-> FALSE])

SetMarked(S, value) ==
    records' = [i \in Ids |-> IF i \in S THEN [records[i] EXCEPT !.marked = value]
                                         ELSE records[i]]

Fault == /\ faults < MaxFaults /\ sent + repairs + faults < MaxTotal
         /\ faults' = faults + 1
         /\ UNCHANGED << config, day, sent, repairs >>

\* A message is published: the next number is its payload.
Send == /\ sent < MaxMessages /\ sent + repairs + faults < MaxTotal
        /\ sent' = sent + 1
        /\ UNCHANGED << config, day, repairs, faults >>

Init ==
    /\ config \in Configs
    /\ day = 1
    /\ records \in Legacy
    /\ summaries = [i \in Ids |->       \* one for each record that is marked
                      [sess |-> records[i].sess, src |-> records[i].src, period |-> << i, i >>,
                       ids |-> {j \in {i} : records[j].marked}, kept |-> records[i].marked]]
    /\ checkpoint = [c \in Channel |-> Nothing]
    /\ inbox = << >> /\ recorder = "idle"
    /\ replies = << >> /\ qa = "idle" /\ filed = Nothing /\ claims = {}
    /\ requests = << >> /\ event = FALSE /\ pending = Nothing
    /\ worker = "down" /\ session = Nothing
    /\ batch = {} /\ todo = {}
    /\ repair = "idle" /\ subject = NoRepair /\ disturbed = FALSE
    /\ sent = 0 /\ acked = {} /\ orphans = {}
    /\ repairs = 0 /\ faults = 0

-----------------------------------------------------------------------------
(* Messages arrive; the day turns. *)

NextDay ==
    /\ day < MaxDay
    /\ day' = day + 1
    /\ UNCHANGED << config, sent, repairs, faults, store, recording, answering, requests,
                    handle, cycle,
                    repairer >>

\* A chat.message or stt.segment the queue is bound to; blank ones hold no text.
Speak(c, src, blank) ==
    /\ Send
    /\ src \in Sources(config.mode)
    /\ inbox' = Append(inbox, [msg |-> sent + 1, chan |-> c, src |-> src, blank |-> blank])
    /\ UNCHANGED << store, recorder, acked, answering, requests, handle,
                    cycle, repairer >>

\* chat.reply (batch) or memory.qa.record (structured); `ours` is the source
\* logic-llm, `sess` the session the record names, if any.
Reply(c, ours, sess) ==
    /\ Send
    /\ \/ config.qa = "batch" /\ sess = Nothing
       \/ config.qa = "structured" /\ ours
    /\ replies' = Append(replies, [msg |-> sent + 1, chan |-> c,
                                   ours |-> ours, sess |-> sess])
    /\ UNCHANGED << store, recording, qa, filed, claims, orphans, requests, handle,
                    cycle, repairer >>

\* publish_memory_summarize_trigger (the worker's --trigger).
Request(s) ==
    /\ Send
    /\ requests' = Append(requests, s)
    /\ UNCHANGED << store, recording, answering, handle, cycle, repairer >>

-----------------------------------------------------------------------------
(* sub-stream-record: StreamRecordWriter.handle *)

\* The first commit: the row.  A blank text is acknowledged at once.
Record ==
    /\ recorder = "idle" /\ inbox # << >>
    /\ LET m == Head(inbox)
       IN IF m.blank
          THEN /\ recorder' = "done"
               /\ UNCHANGED records
          ELSE /\ AppendRecord(m.chan, WriterSession(m.chan), m.src, m.msg)
               /\ recorder' = "stored"
    /\ UNCHANGED << environment, summaries, checkpoint, inbox, acked, answering, requests, handle,
                    cycle, repairer >>

\* set_active_session_for_channel, with the session computed for the row.
Activate ==
    /\ recorder = "stored"
    /\ checkpoint' = [checkpoint EXCEPT ![Head(inbox).chan] =
                         records[Max({i \in Ids : records[i].msg = Head(inbox).msg})].sess]
    /\ recorder' = "done"
    /\ UNCHANGED << environment, records, summaries, inbox, acked, answering, requests, handle,
                    cycle, repairer >>

RecordAck ==
    /\ recorder = "done"
    /\ inbox' = Tail(inbox)
    /\ acked' = IF Head(inbox).blank THEN acked ELSE acked \cup {Head(inbox).msg}
    /\ recorder' = "idle"
    /\ UNCHANGED << environment, store, answering, requests, handle, cycle, repairer >>

\* The process dies and is started again: the message is delivered again.
RecorderCrash ==
    /\ recorder # "idle"
    /\ Fault
    /\ recorder' = "idle"
    /\ UNCHANGED << store, inbox, acked, answering, requests, handle, cycle,
                    repairer >>

-----------------------------------------------------------------------------
(* sub-qa-memory-batch and sub-qa-memory-structured *)

\* handle: claim the correlation id; a repeat is skipped and acknowledged.
QaClaim ==
    /\ qa = "idle" /\ replies # << >>
    /\ qa' = IF Head(replies).msg \in claims THEN "skip" ELSE "claimed"
    /\ claims' = claims \cup {Head(replies).msg}
    /\ UNCHANGED << environment, store, recording, replies, filed, orphans, requests, handle,
                    cycle, repairer >>

\* BatchQaMemoryWriter.handle: answers of others are not ours to keep; the first commit
\* is the record ...
QaBatchWrite ==
    /\ qa = "claimed" /\ config.qa = "batch"
    /\ LET m == Head(replies)
       IN IF m.ours
          THEN /\ AppendRecord(m.chan, WriterSession(m.chan), "chat", m.msg)
               /\ filed' = WriterSession(m.chan) /\ qa' = "stored"
               /\ UNCHANGED claims
          ELSE /\ claims' = claims \ {m.msg} /\ qa' = "skip"
               /\ UNCHANGED << records, filed >>
    /\ UNCHANGED << environment, summaries, checkpoint, recording, replies, orphans, requests,
                    handle, cycle, repairer >>

\* ... and the second its session becoming the active one.
QaBatchActivate ==
    /\ qa = "stored" /\ qa' = "written"
    /\ checkpoint' = [checkpoint EXCEPT ![Head(replies).chan] = filed]
    /\ filed' = Nothing
    /\ UNCHANGED << environment, records, summaries, recording, replies, claims, orphans,
                    requests, handle, cycle, repairer >>

\* StructuredQaMemoryWriter.handle: the session becomes the active one ...
QaStructuredActivate ==
    /\ qa = "claimed" /\ config.qa = "structured" /\ qa' = "activated"
    /\ LET m == Head(replies)
       IN filed' = IF m.sess = Nothing THEN WriterSession(m.chan) ELSE m.sess
    /\ checkpoint' = [checkpoint EXCEPT ![Head(replies).chan] = filed']
    /\ UNCHANGED << environment, records, summaries, recording, replies, claims, orphans,
                    requests, handle, cycle, repairer >>

\* ... before the summary is saved, which is then announced.
QaStructuredWrite ==
    /\ qa = "activated" /\ qa' = "written"
    /\ summaries' = Append(summaries, [sess |-> filed, src |-> "qa", period |-> << 0, 0 >>,
                                       ids |-> {Head(replies).msg}, kept |-> TRUE])
    /\ filed' = Nothing
    /\ UNCHANGED << environment, records, checkpoint, recording, replies, claims, orphans,
                    requests, handle, cycle, repairer >>

QaAck ==
    /\ qa \in {"skip", "written"}
    /\ replies' = Tail(replies)
    /\ acked' = IF Head(replies).ours THEN acked \cup {Head(replies).msg} ELSE acked
    /\ qa' = "idle"
    /\ UNCHANGED << environment, store, inbox, recorder, filed, claims, orphans, requests, handle,
                    cycle, repairer >>

\* The handler raises (the store, or the announcement): release the claim, nack,
\* and the process ends.
QaFails ==
    /\ qa \in {"claimed", "stored", "activated", "written"}
    /\ Fault
    /\ claims' = claims \ {Head(replies).msg}
    /\ qa' = "idle" /\ filed' = Nothing
    /\ UNCHANGED << store, recording, replies, orphans, requests, handle,
                    cycle, repairer >>

\* The process dies: the claim it holds stays.
QaCrash ==
    /\ qa # "idle"
    /\ Fault
    /\ orphans' = IF qa \in {"claimed", "activated"} THEN orphans \cup {Head(replies).msg}
                                                    ELSE orphans
    /\ qa' = "idle" /\ filed' = Nothing
    /\ UNCHANGED << store, recording, replies, claims, requests, handle,
                    cycle, repairer >>

-----------------------------------------------------------------------------
(* sub-memory-worker: workers/__main__, MemoryTriggerHandle, MemoryWorker *)

\* main: the process lock makes it the only one; the scheduled loop opens with
\* a cycle of its own.
WorkerStart ==
    /\ worker = "down"
    /\ worker' = "start"
    /\ session' = Nothing /\ batch' = {} /\ todo' = {}
    /\ event' = FALSE /\ pending' = Nothing
    /\ UNCHANGED << environment, store, recording, answering, requests, repairer >>

\* Mutant: the event is set only when the request names no session.
Signal_NotSet ==
    /\ worker # "down" /\ config.run = "scheduled" /\ requests # << >>
    /\ event' = (event \/ Head(requests) = Nothing)
    /\ pending' = IF Head(requests) = Nothing THEN pending ELSE Head(requests)
    /\ requests' = Tail(requests)
    /\ UNCHANGED << environment, store, recording, answering, cycle, repairer >>

\* MemoryTriggerListener.on_message, on its own thread: MemoryTriggerHandle.signal.
\* An unset session leaves a pending one alone.
Signal ==
    /\ worker # "down" /\ config.run = "scheduled" /\ requests # << >>
    /\ event' = TRUE
    /\ pending' = IF Head(requests) = Nothing THEN pending ELSE Head(requests)
    /\ requests' = Tail(requests)
    /\ UNCHANGED << environment, store, recording, answering, cycle, repairer >>

\* Mutant: the worker stays with the session of its first day.
RunOnce_FirstDay ==
    /\ worker = "start"
    /\ LET now == WorkerSession
           s == IF session # Nothing \/ now = Nothing THEN session ELSE << now[1], 1 >>
       IN /\ session' = s
          /\ worker' = IF s = Nothing THEN AfterCycle(FALSE) ELSE "fetch"
    /\ UNCHANGED << environment, store, recording, answering, requests, handle, batch,
                    todo, repairer >>

\* run_once: the session of this cycle, or nothing to do yet.
RunOnce ==
    /\ worker = "start"
    /\ LET s == IF session # Nothing THEN session ELSE WorkerSession
       IN /\ session' = s
          /\ worker' = IF s = Nothing THEN AfterCycle(FALSE) ELSE "fetch"
    /\ UNCHANGED << environment, store, recording, answering, requests, handle, batch,
                    todo, repairer >>

\* The batch: in mode "both" one batch over the merged timeline.
Fetch ==
    /\ worker = "fetch"
    /\ batch' = Unsummarized(session)
    /\ todo' = {records[i].src : i \in batch'}
    /\ worker' = IF batch' = {} THEN AfterCycle(FALSE) ELSE "save"
    /\ session' = IF batch' = {} THEN Nothing ELSE session
    /\ disturbed' = (disturbed \/ (batch' # {} /\ repair # "idle"))
    /\ UNCHANGED << environment, store, recording, answering, requests, handle, repair,
                    subject >>

\* _save_summary for the next source, chat before stt: the summarizer's text is
\* saved and announced; both sources share the period of the batch.
SaveSummary ==
    /\ worker = "save"
    /\ LET src == IF "chat" \in todo THEN "chat" ELSE "stt"
       IN /\ summaries' = Append(summaries,
                [sess |-> session, src |-> src, period |-> << Min(batch), Max(batch) >>,
                 ids |-> {i \in batch : records[i].src = src}, kept |-> TRUE])
          /\ todo' = todo \ {src}
    /\ worker' = IF todo' = {} THEN "mark" ELSE "save"
    /\ UNCHANGED << environment, records, checkpoint, recording, answering, requests, handle,
                    session, batch, repairer >>

\* Mutant: everything recorded for the session is marked, not the batch.
Mark_Session ==
    /\ worker = "mark"
    /\ SetMarked({i \in Ids : records[i].sess = session}, TRUE)
    /\ worker' = AfterCycle(TRUE)
    /\ batch' = {} /\ session' = Nothing
    /\ UNCHANGED << environment, summaries, checkpoint, recording, answering, requests, handle,
                    todo, repairer >>

\* Mutant: only one source of an aligned batch is marked.
Mark_OneSource ==
    /\ worker = "mark"
    /\ SetMarked({i \in batch : records[i].src = records[Min(batch)].src}, TRUE)
    /\ worker' = AfterCycle(TRUE)
    /\ batch' = {} /\ session' = Nothing
    /\ UNCHANGED << environment, summaries, checkpoint, recording, answering, requests, handle,
                    todo, repairer >>

\* mark_summarized for the whole batch, after its summaries.
Mark ==
    /\ worker = "mark"
    /\ SetMarked(batch, TRUE)
    /\ worker' = AfterCycle(TRUE)
    /\ batch' = {} /\ session' = Nothing
    /\ UNCHANGED << environment, summaries, checkpoint, recording, answering, requests, handle,
                    todo, repairer >>

\* wait_for_interval_or_trigger returns: the interval is over, or the event is set.
Wake ==
    /\ worker = "wait"
    /\ worker' \in IF event THEN {"woken", "clear"} ELSE {"woken"}
    /\ UNCHANGED << environment, store, recording, answering, requests, handle, session,
                    batch, todo, repairer >>

Clear ==
    /\ worker = "clear"
    /\ event' = FALSE
    /\ worker' = "woken"
    /\ UNCHANGED << environment, store, recording, answering, requests, pending, session,
                    batch, todo, repairer >>

\* consume_session_id, then run_once(session_id=...).
Consume ==
    /\ worker = "woken"
    /\ session' = pending
    /\ pending' = Nothing
    /\ worker' = "start"
    /\ UNCHANGED << environment, store, recording, answering, requests, event, batch,
                    todo, repairer >>

\* The summarizer or the publisher raises, or the process is killed: nothing
\* catches it, the worker ends where it is.
WorkerFails ==
    /\ worker # "down"
    /\ Fault
    /\ worker' = "down"
    /\ batch' = {} /\ todo' = {} /\ session' = Nothing
    /\ event' = FALSE /\ pending' = Nothing
    /\ UNCHANGED << store, recording, answering, requests, repairer >>

-----------------------------------------------------------------------------
(* repair_session_channel_isolation *)

Foreign(s) == {i \in Ids : records[i].sess = s /\ records[i].chan # s[1]}

\* find_contaminated_chat_summary_ids: a foreign chat record in the period.
Contaminated(s) ==
    {k \in DOMAIN summaries :
        /\ summaries[k].kept /\ summaries[k].sess = s /\ summaries[k].src = "chat"
        /\ \E i \in Foreign(s) : /\ records[i].src = "chat"
                                 /\ summaries[k].period[1] <= i
                                 /\ i <= summaries[k].period[2]}

RepairStart(s) ==
    /\ repair = "idle" /\ repairs < MaxRepairs /\ sent + repairs + faults < MaxTotal
    /\ \E i \in Ids : records[i].sess = s
    /\ repairs' = repairs + 1
    /\ repair' = "migrate"
    /\ subject' = [sess |-> s, doomed |-> Contaminated(s), moving |-> Foreign(s)]
    /\ disturbed' = (disturbed \/ batch # {})
    /\ UNCHANGED << config, day, sent, faults, store, recording, answering, requests, handle,
                    cycle >>

\* relocate_records, then unmark_summarized: two commits for each record.
Relocate ==
    /\ repair = "migrate"
    /\ IF subject.moving = {}
       THEN /\ repair' = "delete"
            /\ UNCHANGED records
       ELSE LET i == Min(subject.moving)
            IN /\ records' = [records EXCEPT ![i].sess = << records[i].chan, records[i].sess[2] >>]
               /\ repair' = "unmark"
    /\ UNCHANGED << environment, summaries, checkpoint, recording, answering, requests, handle,
                    cycle, subject, disturbed >>

Unmark ==
    /\ repair = "unmark"
    /\ SetMarked({Min(subject.moving)}, FALSE)
    /\ subject' = [subject EXCEPT !.moving = @ \ {Min(subject.moving)}]
    /\ repair' = "migrate"
    /\ UNCHANGED << environment, summaries, checkpoint, recording, answering, requests, handle,
                    cycle, disturbed >>

\* delete_summary, one commit each.
Delete ==
    /\ repair = "delete"
    /\ IF subject.doomed = {}
       THEN /\ repair' = "reset"
            /\ UNCHANGED << summaries, subject >>
       ELSE /\ summaries' = [summaries EXCEPT ![Min(subject.doomed)].kept = FALSE]
            /\ subject' = [subject EXCEPT !.doomed = @ \ {Min(subject.doomed)}]
            /\ UNCHANGED repair
    /\ UNCHANGED << environment, records, checkpoint, recording, answering, requests, handle,
                    cycle, disturbed >>

\* Every summarized chat record of the channel is to be summarized again.
Reset ==
    /\ repair = "reset"
    /\ SetMarked({i \in Ids : /\ records[i].sess = subject.sess /\ records[i].src = "chat"
                              /\ records[i].chan = subject.sess[1]}, FALSE)
    /\ repair' = "idle" /\ subject' = NoRepair
    /\ UNCHANGED << environment, summaries, checkpoint, recording, answering, requests, handle,
                    cycle, disturbed >>

RepairCrash ==
    /\ repair # "idle"
    /\ Fault
    /\ repair' = "idle" /\ subject' = NoRepair /\ disturbed' = TRUE
    /\ UNCHANGED << store, recording, answering, requests, handle, cycle >>

-----------------------------------------------------------------------------
RecorderNext == Record \/ Activate \/ RecordAck
QaNext       == \/ QaClaim \/ QaBatchWrite \/ QaBatchActivate \/ QaStructuredActivate
                \/ QaStructuredWrite \/ QaAck
WorkerNext   == RunOnce \/ Fetch \/ SaveSummary \/ Mark \/ Wake \/ Clear \/ Consume
RepairNext   == Relocate \/ Unmark \/ Delete \/ Reset

Next ==
    \/ NextDay
    \/ \E c \in config.heard, src \in {"chat", "stt"}, blank \in BOOLEAN : Speak(c, src, blank)
    \/ \E c \in config.heard, ours \in BOOLEAN, s \in Known \cup {Nothing} : Reply(c, ours, s)
    \/ \E s \in Known \cup {Nothing} : Request(s)
    \/ RecorderNext \/ RecorderCrash
    \/ QaNext \/ QaFails \/ QaCrash
    \/ WorkerStart \/ Signal \/ WorkerNext \/ WorkerFails
    \/ \E s \in Session : RepairStart(s)
    \/ RepairNext \/ RepairCrash

\* Messages are delivered, the processes run and a dead one is started again;
\* the repair and the requests are people's doing, except that a repair once
\* started runs on.
Fairness ==
    /\ WF_vars(RecorderNext) /\ WF_vars(QaNext)
    /\ WF_vars(WorkerNext) /\ WF_vars(Signal) /\ WF_vars(WorkerStart)
    /\ WF_vars(RepairNext)

Spec == Init /\ [][Next]_vars /\ Fairness

-----------------------------------------------------------------------------
Spoken  == [msg : Nat, chan : Channel, src : {"chat", "stt"}, blank : BOOLEAN]
Answer  == [msg : Nat, chan : Channel, ours : BOOLEAN, sess : Session \cup {Nothing}]
Summary == [sess : Session, src : {"chat", "stt", "qa"}, period : Nat \X Nat,
            ids : SUBSET Nat, kept : BOOLEAN]

EnvironmentOK ==
    /\ config \in Configs /\ day \in 1 .. MaxDay
    /\ sent \in Nat /\ repairs \in Nat /\ faults \in Nat

StoreOK ==
    /\ records \in Seq(Stored) /\ summaries \in Seq(Summary)
    /\ checkpoint \in [Channel -> Session \cup {Nothing}]

RecordingOK ==
    /\ inbox \in Seq(Spoken) /\ recorder \in {"idle", "stored", "done"} /\ acked \subseteq Nat
    /\ recorder # "idle" => inbox # << >>

AnsweringOK ==
    /\ replies \in Seq(Answer) /\ claims \subseteq Nat /\ orphans \subseteq Nat
    /\ qa \in {"idle", "claimed", "stored", "activated", "written", "skip"}
    /\ filed \in Session \cup {Nothing} /\ (qa \in {"stored", "activated"} <=> filed # Nothing)
    /\ qa # "idle" => replies # << >>

\* What the worker holds fits the place it is at.
WorkerOK ==
    /\ requests \in Seq(Session \cup {Nothing})
    /\ event \in BOOLEAN /\ pending \in Session \cup {Nothing}
    /\ worker \in {"down", "start", "fetch", "save", "mark", "wait", "woken", "clear"}
    /\ session \in Session \cup {Nothing}
    /\ worker \in {"fetch", "save", "mark"} => session # Nothing
    /\ batch \subseteq Ids /\ (batch # {} <=> worker \in {"save", "mark"})
    /\ todo \subseteq {"chat", "stt"} /\ (todo # {} <=> worker = "save")

RepairOK ==
    /\ repair \in {"idle", "migrate", "unmark", "delete", "reset"} /\ disturbed \in BOOLEAN
    /\ subject \in [sess : Session \cup {Nothing}, doomed : SUBSET Nat, moving : SUBSET Nat]
    /\ subject.doomed \subseteq DOMAIN summaries /\ subject.moving \subseteq Ids
    /\ repair # "idle" => subject.sess # Nothing
    /\ repair = "unmark" => subject.moving # {}

TypeOK == EnvironmentOK /\ StoreOK /\ RecordingOK /\ AnsweringOK /\ WorkerOK /\ RepairOK

\* The process keeps an acknowledged message: a spoken one is a record whatever
\* crashes; an answer of the bot is a record or a summary unless a process died
\* with its claim.  And a record marked summarized is covered by a summary that
\* still exists in its session, so that no text falls between the commits of the
\* worker; only a repair cut short, or run while a batch was in hand, breaks that
\* (StreamRecordWriter, BatchQaMemoryWriter, MemoryWorker._summarize_both_aligned).
Recorded(m) == \/ \E i \in Ids : records[i].msg = m
               \/ \E k \in DOMAIN summaries : summaries[k].src = "qa" /\ m \in summaries[k].ids
Covered(i)  == \E k \in DOMAIN summaries :
                  /\ summaries[k].kept /\ i \in summaries[k].ids /\ summaries[k].src # "qa"
                  /\ summaries[k].sess = records[i].sess
NothingLost ==
    /\ \A m \in acked : Recorded(m) \/ m \in orphans
    /\ disturbed \/ repair # "idle" \/ \A i \in Ids : records[i].marked => Covered(i)

\* A record is summarized again only after a failure or a repair, however the
\* timer and the requests interleave (MemoryWorker, MemoryTriggerHandle).
RepeatsOnlyAfterFault ==
    \A i \in Ids :
        Cardinality({k \in DOMAIN summaries : summaries[k].src # "qa" /\ i \in summaries[k].ids})
            <= 1 + faults + repairs

\* A requested session is not forgotten: while it is pending the event is set, or
\* the worker is between the end of its wait and consuming it; a request that
\* arrives while the worker clears the event is not slept through
\* (MemoryTriggerHandle.signal, wait, consume_session_id).
NoRequestSleeps ==
    pending # Nothing => event \/ worker \in {"clear", "woken"}

Due(i) == /\ records[i].sess = WorkerSession
          /\ records[i].src \in Sources(config.mode)
          /\ config.channel \in {Nothing, records[i].chan}

\* The records of the worker's session are all summarized again and again,
\* whatever crashes or repairs came between; the session moves on with the day
\* (run_scheduled_worker, MemoryWorker.run_once).
RecordsSummarized == []<>(\A i \in Ids : Due(i) => records[i].marked)
=============================================================================

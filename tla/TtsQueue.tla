-------------------------------- MODULE TtsQueue --------------------------------
\* sub-tts reads chat aloud: the RabbitMQ thread filters messages into a bounded
\* queue that gives up its oldest item when it is full, one playback thread speaks
\* them, and an interrupted process speaks what is left before it ends.
EXTENDS Naturals, Sequences, SequencesExt

CONSTANTS
    MaxSaid,   \* bound: messages 1 .. MaxSaid, in the order of the chat
    MaxQueue,  \* max_queue_size
    Unspoken   \* messages the filter refuses (commands, links, blacklist, length)

ASSUME TtsAssumption == MaxQueue \in Nat \ {0} /\ Unspoken \subseteq 1..MaxSaid

VARIABLES
    said,      \* messages handled
    speech,    \* _items
    mouth,     \* the message the playback thread speaks, 0 if none
    player,    \* the playback thread: "wait", "speak", "rest", "ended"
    stopping,  \* _stop is set
    spoken,    \* messages given to the engine, in order
    replaced,  \* messages given up because the queue was full
    process    \* the process: "consume", "join", "ended", "killed"

ttsVars == <<said, speech, mouth, player, stopping, spoken, replaced, process>>

TtsInit ==
    /\ said = 0 /\ speech = <<>> /\ mouth = 0 /\ player = "wait"
    /\ stopping = FALSE /\ spoken = <<>> /\ replaced = {} /\ process = "consume"

\* ChatTtsSubscriber.handle and enqueue: one critical section of the lock, after
\* which the message is acknowledged.
Enqueue ==
    /\ process = "consume" /\ said < MaxSaid /\ said' = said + 1
    /\ IF said' \in Unspoken
       THEN UNCHANGED <<speech, replaced>>
       ELSE IF Len(speech) >= MaxQueue
       THEN /\ speech' = Append(Tail(speech), said')
            /\ replaced' = replaced \cup {Head(speech)}
       ELSE speech' = Append(speech, said') /\ UNCHANGED replaced
    /\ UNCHANGED <<mouth, player, stopping, spoken, process>>

\* Mutant: the playback thread leaves as soon as the stop is set.
PlayNext_LeavesAtStop ==
    /\ player = "wait" /\ speech # <<>> /\ process # "killed"
    /\ IF stopping
       THEN player' = "ended" /\ UNCHANGED <<speech, mouth>>
       ELSE mouth' = Head(speech) /\ speech' = Tail(speech) /\ player' = "speak"
    /\ UNCHANGED <<said, stopping, spoken, replaced, process>>

\* _run: the next item is taken under the lock, also while stopping.
PlayNext ==
    /\ player = "wait" /\ speech # <<>> /\ process # "killed"
    /\ mouth' = Head(speech) /\ speech' = Tail(speech) /\ player' = "speak"
    /\ UNCHANGED <<said, stopping, spoken, replaced, process>>

\* engine.speak, whose exceptions are swallowed; then the cooldown, which a
\* process that is stopping does not wait for.
Spoken ==
    /\ player = "speak" /\ process # "killed"
    /\ spoken' = Append(spoken, mouth) /\ mouth' = 0
    /\ player' = IF stopping THEN "wait" ELSE "rest"
    /\ UNCHANGED <<said, speech, stopping, replaced, process>>

CooledDown ==
    /\ player = "rest" /\ process # "killed"
    /\ player' = "wait"
    /\ UNCHANGED <<said, speech, mouth, stopping, spoken, replaced, process>>

PlayerEnds ==
    /\ player = "wait" /\ speech = <<>> /\ stopping /\ process # "killed"
    /\ player' = "ended"
    /\ UNCHANGED <<said, speech, mouth, stopping, spoken, replaced, process>>

\* Ctrl+C leaves consume_messages; shutdown sets the stop and joins the thread.
Shutdown ==
    /\ process = "consume"
    /\ process' = "join" /\ stopping' = TRUE
    /\ UNCHANGED <<said, speech, mouth, player, spoken, replaced>>

Joined ==
    /\ process = "join" /\ player = "ended"
    /\ process' = "ended"
    /\ UNCHANGED <<said, speech, mouth, player, stopping, spoken, replaced>>

\* SIGTERM has no handler, and the runner kills whatever has not ended in time.
Killed ==
    /\ process \in {"consume", "join"}
    /\ process' = "killed"
    /\ UNCHANGED <<said, speech, mouth, player, stopping, spoken, replaced>>

TtsNext ==
    \/ Enqueue \/ PlayNext \/ Spoken \/ CooledDown \/ PlayerEnds
    \/ Shutdown \/ Joined \/ Killed

TtsSpec == TtsInit /\ [][TtsNext]_ttsVars

-------------------------------------------------------------------------------
\* The playback is serial and in the order of the chat, and a process that ends
\* by itself has spoken every message it acknowledged, save those the filter
\* refused and those a newer one replaced (queue_worker.shutdown, _run).
SpokenThrough ==
    /\ \A i, j \in DOMAIN spoken: i < j => spoken[i] < spoken[j]
    /\ process = "ended" => (1..said) \ Unspoken = ToSet(spoken) \cup replaced

===============================================================================

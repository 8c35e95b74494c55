---------------------------- MODULE AudioIngress ----------------------------
(***************************************************************************)
(* Speech into the bus: a capture thread (streamlink and ffmpeg, or the    *)
(* microphone) cuts the sound into chunks, the event loop keeps them in a  *)
(* bounded queue, Whisper turns each into text, and a segment is published *)
(* with the position the worker counted (ingress_twitch_audio,             *)
(* ingress_local_audio).  The model loads in a thread of its own: a chunk  *)
(* taken before it is ready goes back to the END of the queue.  With       *)
(* `on_chunk` set the end of the capture is not announced.                 *)
(*                                                                         *)
(* A chunk is the number of its place in the sound; the unit of time is    *)
(* chunk_seconds.                                                          *)
(***************************************************************************)
EXTENDS Integers, Sequences, FiniteSets

CONSTANTS MaxChunks,   \* bound: chunks captured
          ChunkQueue   \* chunk_queue's maxsize

ASSUME AudioAssumption == ChunkQueue \in Nat \ {0}

VARIABLES
    capture,    \* "running" or "ended"
    cut,        \* chunks captured
    callbacks,  \* chunks handed to call_soon_threadsafe, in order
    chunks,     \* chunk_queue
    hand,       \* the chunk the loop took, 0 if none
    model,      \* "loading", "ready", "failed"
    step,       \* where the loop stands with it: "get", "sleep", "transcribe", "publish"
    position,   \* _stream_offset
    segments,   \* published: << chunk, start >>, in order
    lost,       \* history: chunks a full queue dropped
    shuffled    \* history: a chunk went back behind a later one

audioVars == << capture, cut, callbacks, chunks, hand, model, step, position, segments,
                lost, shuffled >>

AudioInit ==
    /\ capture = "running" /\ cut = 0 /\ callbacks = << >> /\ chunks = << >> /\ hand = 0
    /\ model = "loading" /\ step = "get" /\ position = 0 /\ segments = << >>
    /\ lost = {} /\ shuffled = FALSE

\* LiveAudioCapture._run, MicAudioCapture._run: one chunk more.
CaptureChunk ==
    /\ capture = "running" /\ cut < MaxChunks
    /\ cut' = cut + 1 /\ callbacks' = Append(callbacks, cut + 1)
    /\ UNCHANGED << capture, chunks, hand, model, step, position, segments, lost, shuffled >>

\* The stream or the device ends, or reading fails: no None is queued.
CaptureEnds ==
    /\ capture = "running" /\ capture' = "ended"
    /\ UNCHANGED << cut, callbacks, chunks, hand, model, step, position, segments, lost,
                    shuffled >>

\* preload_in_background
LoadModel(ok) ==
    /\ model = "loading" /\ model' = IF ok THEN "ready" ELSE "failed"
    /\ UNCHANGED << capture, cut, callbacks, chunks, hand, step, position, segments, lost,
                    shuffled >>

\* _enqueue_chunk, run by the loop at an await: a full queue loses its oldest chunk.
EnqueueChunk ==
    /\ callbacks # << >>
    /\ callbacks' = Tail(callbacks)
    /\ IF Len(chunks) = ChunkQueue
       THEN /\ lost' = lost \cup {Head(chunks)}
            /\ chunks' = Append(Tail(chunks), Head(callbacks))
       ELSE /\ chunks' = Append(chunks, Head(callbacks)) /\ UNCHANGED lost
    /\ UNCHANGED << capture, cut, hand, model, step, position, segments, shuffled >>

GetChunk ==
    /\ step = "get" /\ chunks # << >>
    /\ hand' = Head(chunks) /\ chunks' = Tail(chunks)
    /\ step' = IF model = "ready" THEN "transcribe" ELSE "sleep"
    /\ UNCHANGED << capture, cut, callbacks, model, position, segments, lost, shuffled >>

\* _requeue_chunk after 0.2 s: behind what came meanwhile, or dropped if that fills it.
RequeueChunk ==
    /\ step = "sleep" /\ step' = "get" /\ hand' = 0
    /\ IF Len(chunks) = ChunkQueue
       THEN lost' = lost \cup {hand} /\ UNCHANGED << chunks, shuffled >>
       ELSE /\ chunks' = Append(chunks, hand)
            /\ shuffled' = (shuffled \/ chunks # << >>)
            /\ UNCHANGED lost
    /\ UNCHANGED << capture, cut, callbacks, model, position, segments >>

\* Mutant: a silent chunk does not move the offset.
Transcribe_SilenceStands(says) ==
    /\ step = "transcribe"
    /\ position' = IF says THEN position + 1 ELSE position
    /\ IF says THEN step' = "publish" /\ UNCHANGED hand
               ELSE step' = "get" /\ hand' = 0
    /\ UNCHANGED << capture, cut, callbacks, chunks, model, segments, lost, shuffled >>

\* transcribe_chunk: the offset moves on one chunk whatever comes of it, silence,
\* nothing said, an error, or text (kept in `step`); text that the filter rejects as a
\* whole is not published either.  The captures deliver whole chunks only and the ingresses
\* pass no on_segment, so neither an empty one, which would leave the offset, nor an error
\* after the offset has moved, which would move it twice, can come.
Transcribe(says) ==
    /\ step = "transcribe"
    /\ position' = position + 1
    /\ IF says THEN step' = "publish" /\ UNCHANGED hand
               ELSE step' = "get" /\ hand' = 0
    /\ UNCHANGED << capture, cut, callbacks, chunks, model, segments, lost, shuffled >>

PublishSegment ==
    /\ step = "publish"
    /\ segments' = Append(segments, << hand, position - 1 >>)
    /\ step' = "get" /\ hand' = 0
    /\ UNCHANGED << capture, cut, callbacks, chunks, model, position, lost, shuffled >>

\* A publish that raises ends the process through `finally: capture.stop()`.
AudioFails ==
    /\ step = "publish" /\ step' = "failed" /\ capture' = "ended"
    /\ UNCHANGED << cut, callbacks, chunks, hand, model, position, segments, lost, shuffled >>

AudioNext ==
    \/ CaptureChunk \/ CaptureEnds \/ EnqueueChunk \/ GetChunk \/ RequeueChunk
    \/ \E ok \in BOOLEAN : LoadModel(ok)
    \/ \E says \in BOOLEAN : Transcribe(says)
    \/ PublishSegment \/ AudioFails

AudioSpec == AudioInit /\ [][AudioNext]_audioVars

\* The clock of the segments never runs ahead of the sound it stands for; it is exact,
\* and the segments in order, as long as no chunk was dropped or put back behind another.
PositionExact ==
    /\ ~shuffled => \A k \in DOMAIN segments :
          /\ segments[k][2] < segments[k][1]
          /\ lost = {} => segments[k][2] = segments[k][1] - 1
    /\ \A j, k \in DOMAIN segments : j < k => segments[j][2] < segments[k][2]

\* No chunk is transcribed twice, and none vanishes but by a full queue.
EveryChunkOnce ==
    /\ \A j, k \in DOMAIN segments : segments[j][1] = segments[k][1] => j = k
    /\ position + Len(chunks) + Len(callbacks) + Cardinality(lost)
          + (IF step \in {"sleep", "transcribe"} THEN 1 ELSE 0) = cut

\* The sound is accounted for: chunk by chunk, and in the time of its segments
\* (live_audio._enqueue_chunk, _requeue_chunk, stt_worker.transcribe_chunk).
SpeechAccounted == PositionExact /\ EveryChunkOnce
=============================================================================

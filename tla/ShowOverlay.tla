------------------------------ MODULE ShowOverlay ------------------------------
\* The chat overlay of sub-show-overlay: the thread that consumes RabbitMQ puts
\* each message into a bounded queue, a render thread takes them in batches into
\* the snapshot of lines, and a browser page polls that snapshot over HTTP.
\* A full queue is emptied item by item, loses its oldest item and is filled
\* again, while the render thread may go on taking.
EXTENDS Naturals, Sequences, SequencesExt, FiniteSets

CONSTANTS
    OverlayChat,    \* bound: messages 1 .. OverlayChat, in the order of the chat
    OverlayQueue,  \* maxsize of OverlayMessageQueue
    BatchSize,  \* max_items of drain_batch (32)
    ShownLines,   \* maxlen of the deque of lines
    OverlayRuns     \* bound: starts of the process

\* max(1, maxsize)
ASSUME OverlayAssumption == OverlayQueue \in Nat \ {0}

VARIABLES
    heard,    \* messages put() has received
    fill,     \* what put() is doing: "idle", "drain", "refill"
    fresh,    \* the message put() has in hand, 0 if none
    drained,  \* items put() has taken out of the queue
    queue,    \* _queue
    batch,    \* items the render thread has taken
    render,   \* the render thread: "wait", "batch", "apply", "count", "dead"
    lines,    \* _lines of the first writer
    drawn,    \* _content_revision
    dropped,  \* messages this process gave up because the queue was full
    runs,     \* starts of the process
    page      \* the browser: its request, what it shows, at which revision, of which run

overlayVars == <<heard, fill, fresh, drained, queue, batch, render, lines,
                 drawn, dropped, runs, page>>
putVars     == <<fill, fresh, drained>>
renderVars  == <<batch, render, lines, drawn>>

NoRevision == 99   \* lastRevision before the first answer (-1 in the page)

OverlayInit ==
    /\ heard = 0 /\ fill = "idle" /\ fresh = 0 /\ drained = <<>>
    /\ queue = <<>> /\ batch = <<>> /\ render = "wait"
    /\ lines = <<>> /\ drawn = 0
    /\ dropped = {} /\ runs = 1
    /\ page = [state |-> "idle", read |-> 0, shown |-> <<>>,
                last |-> NoRevision, run |-> 0]

\* put: put_nowait succeeds, or the message waits for room. RabbitMQ's message
\* is acknowledged when put returns.
Put ==
    /\ fill = "idle" /\ heard < OverlayChat
    /\ heard' = heard + 1
    /\ IF Len(queue) < OverlayQueue
       THEN queue' = Append(queue, heard') /\ UNCHANGED putVars
       ELSE /\ fill' = "drain" /\ fresh' = heard'
            /\ UNCHANGED <<drained, queue>>
    /\ UNCHANGED <<renderVars, dropped, runs, page>>

\* get_nowait, one item at a time.
DrainOne ==
    /\ fill = "drain" /\ queue # <<>>
    /\ drained' = Append(drained, Head(queue))
    /\ queue' = Tail(queue)
    /\ UNCHANGED <<heard, fill, fresh, renderVars, dropped, runs, page>>

\* Mutant: the newest item is given up instead of the oldest.
DrainEnd_Newest ==
    /\ fill = "drain" /\ queue = <<>>
    /\ fill' = "refill" /\ fresh' = 0
    /\ dropped' = dropped \cup {fresh}
    /\ UNCHANGED <<heard, drained, queue, renderVars, runs, page>>

\* queue.Empty: the oldest drained item is given up, the new one comes last.
DrainEnd ==
    /\ fill = "drain" /\ queue = <<>>
    /\ fill' = "refill" /\ fresh' = 0
    /\ drained' = Append(IF drained = <<>> THEN <<>> ELSE Tail(drained), fresh)
    /\ dropped' = dropped \cup (IF drained = <<>> THEN {} ELSE {Head(drained)})
    /\ UNCHANGED <<heard, queue, renderVars, runs, page>>

\* The items are put back one by one. queue.Full would count one item and give up
\* all that is left.
Refill ==
    /\ fill = "refill"
    /\ CASE drained = <<>> ->
               fill' = "idle" /\ UNCHANGED <<drained, queue, dropped>>
         [] drained # <<>> /\ Len(queue) < OverlayQueue ->
               /\ queue' = Append(queue, Head(drained))
               /\ drained' = Tail(drained)
               /\ UNCHANGED <<fill, dropped>>
         [] OTHER ->
               /\ fill' = "idle" /\ drained' = <<>>
               /\ dropped' = dropped \cup {Head(drained)}
               /\ UNCHANGED queue
    /\ UNCHANGED <<heard, fresh, renderVars, runs, page>>

\* drain_batch: a blocking get, then get_nowait up to the size of a batch.
TakeLine ==
    /\ \/ render = "wait"
       \/ render = "batch" /\ Len(batch) < BatchSize
    /\ queue # <<>>
    /\ batch' = Append(batch, Head(queue)) /\ queue' = Tail(queue)
    /\ render' = "batch"
    /\ UNCHANGED <<heard, putVars, lines, drawn, dropped, runs, page>>

BatchReady ==
    /\ render = "batch" /\ (queue = <<>> \/ Len(batch) = BatchSize)
    /\ render' = "apply"
    /\ UNCHANGED <<heard, putVars, queue, batch, lines, drawn, dropped,
                   runs, page>>

\* append_entry: the line first, the revision after it; a page may read between.
AppendLine ==
    /\ render = "apply" /\ batch # <<>>
    /\ lines' = (LET all == Append(lines, Head(batch))
                 IN  IF Len(all) > ShownLines THEN Tail(all) ELSE all)
    /\ batch' = Tail(batch) /\ render' = "count"
    /\ UNCHANGED <<heard, putVars, queue, drawn, dropped, runs, page>>

\* _content_revision += 1 and write_snapshot. A file that cannot be replaced six
\* times raises OSError out of the render thread, which then ends unnoticed.
CountLine(written) ==
    /\ render = "count"
    /\ drawn' = drawn + 1
    /\ render' = IF ~written THEN "dead" ELSE IF batch = <<>> THEN "wait" ELSE "apply"
    /\ UNCHANGED <<heard, putVars, queue, batch, lines, dropped, runs, page>>

\* snapshot_dict in an HTTP thread: the revision is read before the lines.
ReadDrawn ==
    /\ page.state = "idle"
    /\ page' = [page EXCEPT !.state = "read", !.read = drawn]
    /\ UNCHANGED <<heard, putVars, queue, renderVars, dropped, runs>>

\* renderSnapshot: nothing is drawn only when the revision and every line are
\* what they were, so the page shows exactly the lines it was sent.
RenderSnapshot ==
    /\ page.state = "read"
    /\ page' = [page EXCEPT !.state = "idle", !.last = page.read,
                            !.run = runs, !.shown = lines]
    /\ UNCHANGED <<heard, putVars, queue, renderVars, dropped, runs>>

\* The request fails: the process is away, or the deque changed under the copy.
PollFails ==
    /\ page.state = "read"
    /\ page' = [page EXCEPT !.state = "idle"]
    /\ UNCHANGED <<heard, putVars, queue, renderVars, dropped, runs>>

\* The process ends and is started again: what was acknowledged and not rendered
\* is gone, a message still inside put is redelivered, and the new process counts
\* its revisions from 0.
Restart ==
    /\ runs < OverlayRuns /\ runs' = runs + 1
    /\ heard' = IF fill = "idle" THEN heard ELSE heard - 1
    /\ fill' = "idle" /\ fresh' = 0 /\ drained' = <<>>
    /\ queue' = <<>> /\ batch' = <<>> /\ render' = "wait"
    /\ lines' = <<>> /\ drawn' = 0
    /\ page' = [page EXCEPT !.state = "idle"]
    /\ dropped' = {}

OverlayNext ==
    \/ Put \/ DrainOne \/ DrainEnd \/ Refill
    \/ TakeLine \/ BatchReady \/ AppendLine
    \/ \E written \in BOOLEAN: CountLine(written)
    \/ ReadDrawn \/ RenderSnapshot \/ PollFails
    \/ Restart

OverlaySpec == OverlayInit /\ [][OverlayNext]_overlayVars

-------------------------------------------------------------------------------
\* A chat burst costs the oldest lines: whatever the render thread does while a
\* full queue is emptied and filled again, the last message is never given up
\* to make room (queue.put).
NewestSurvives == heard \notin dropped \/ heard = 0

\* A page that asked the running process and remembers its revision shows its
\* lines, also when the process restarted and its count came back to the number
\* the page had from the old one (overlay.html renderSnapshot, ipc.append_entry).
PageShowsRevision ==
    page.run = runs /\ page.last = drawn /\ render # "count"
        => page.shown = lines

\* The overlay shows the end of the chat (queue.put, worker._run, overlay.html).
OverlayFollows == NewestSurvives /\ PageShowsRevision

===============================================================================

---------------------------- MODULE YouTubeChat ----------------------------
(***************************************************************************)
(* ingress-yt-read: a thread polls the live chat (tubechat_lens over       *)
(* pytchat) and hands its items to a bounded queue that makes room by      *)
(* losing its oldest; the loop of the process takes them out and publishes *)
(* them.  None at the end of the queue tells the loop to leave.            *)
(*                                                                         *)
(* pytchat is external: a poll gives what was said since the last, and the *)
(* chat may end or an exception come out of it.  Items count what was      *)
(* said.  Nothing outlives the process, so one run of it is the model.     *)
(***************************************************************************)
EXTENDS Integers, Sequences

CONSTANTS MaxItems,     \* bound: items said
          ItemQueue     \* out_queue's maxsize

End == 0                \* None in the queue

VARIABLES
    tube,       \* items said, and whether the chat goes on
    fetched,    \* how many the thread has fetched
    polled,     \* those of the last poll not yet dispatched
    thread,     \* "create", "poll", "dispatch", "full", "close", "over" or "died"
    outQueue,   \* out_queue
    loop,       \* the loop: "get", "publish", "leave" or "gone"
    item,       \* the item it has taken
    sent,       \* what was published, in order
    lostItems   \* history: items taken out to make room

tubeVars == << tube, fetched, polled, thread, outQueue, loop, item, sent, lostItems >>
loopVars == << loop, item, sent >>

TubeInit ==
    /\ tube = [said |-> 0, live |-> TRUE] /\ fetched = 0 /\ polled = << >>
    /\ thread = "create" /\ outQueue = << >> /\ loop = "get" /\ item = End
    /\ sent = << >> /\ lostItems = {}

-----------------------------------------------------------------------------
(* YouTube *)

Said ==
    /\ tube.live /\ tube.said < MaxItems /\ tube' = [tube EXCEPT !.said = @ + 1]
    /\ UNCHANGED << fetched, polled, thread, outQueue, loopVars, lostItems >>

ChatOver ==
    /\ tube.live /\ tube' = [tube EXCEPT !.live = FALSE]
    /\ UNCHANGED << fetched, polled, thread, outQueue, loopVars, lostItems >>

-----------------------------------------------------------------------------
(* The thread: _reader_worker, LiveChatReader *)

Create ==
    /\ thread = "create" /\ thread' = "poll"
    /\ UNCHANGED << tube, fetched, polled, outQueue, loopVars, lostItems >>

\* iter_messages: items, or none and a pause; the end of the chat ends the loop, and
\* what was said after the last poll is not fetched any more.
Fetch ==
    /\ thread = "poll"
    /\ IF tube.live
       THEN /\ fetched' = tube.said
            /\ polled' = [k \in 1..(tube.said - fetched) |-> fetched + k]
            /\ thread' = IF polled' = << >> THEN "poll" ELSE "dispatch"
       ELSE thread' = "close" /\ UNCHANGED << fetched, polled >>
    /\ UNCHANGED << tube, outQueue, loopVars, lostItems >>

\* An exception of pytchat passes start and _reader_worker, and the thread dies without
\* a word to the loop.
ReaderRaises ==
    /\ thread \in {"create", "poll"} /\ thread' = "died"
    /\ UNCHANGED << tube, fetched, polled, outQueue, loopVars, lostItems >>

Room == Len(outQueue) < ItemQueue
Dispatched ==
    /\ polled' = Tail(polled) /\ thread' = IF Len(polled) > 1 THEN "dispatch" ELSE "poll"

\* _enqueue: put_nowait
PutItem ==
    /\ thread = "dispatch" /\ Room
    /\ outQueue' = Append(outQueue, Head(polled)) /\ Dispatched
    /\ UNCHANGED << tube, fetched, loopVars, lostItems >>

QueueFull ==
    /\ thread = "dispatch" /\ ~Room /\ thread' = "full"
    /\ UNCHANGED << tube, fetched, polled, outQueue, loopVars, lostItems >>

\* get_nowait, and put_nowait again.  The loop may have taken an item since the queue
\* was full: the oldest goes all the same, if there is one.
MakeRoom ==
    /\ thread = "full"
    /\ IF outQueue = << >>
       THEN outQueue' = << Head(polled) >> /\ UNCHANGED lostItems
       ELSE /\ outQueue' = Append(Tail(outQueue), Head(polled))
            /\ lostItems' = lostItems \cup {Head(outQueue)}
    /\ Dispatched
    /\ UNCHANGED << tube, fetched, loopVars >>

\* out_queue.put(None) waits for room.
PutEnd ==
    /\ thread = "close" /\ Room
    /\ outQueue' = Append(outQueue, End) /\ thread' = "over"
    /\ UNCHANGED << tube, fetched, polled, loopVars, lostItems >>

-----------------------------------------------------------------------------
(* The loop: run_publisher *)

GetItem ==
    /\ loop = "get" /\ outQueue # << >>
    /\ item' = Head(outQueue) /\ outQueue' = Tail(outQueue)
    /\ loop' = IF item' = End THEN "leave" ELSE "publish"
    /\ UNCHANGED << tube, fetched, polled, thread, sent, lostItems >>

PublishItem ==
    /\ loop = "publish" /\ loop' = "get"
    /\ sent' = Append(sent, item) /\ item' = End
    /\ UNCHANGED << tube, fetched, polled, thread, outQueue, lostItems >>

PublishRaises ==
    /\ loop = "publish" /\ loop' = "leave"
    /\ UNCHANGED << tube, fetched, polled, thread, outQueue, item, sent, lostItems >>

\* finally: the thread, which never looks at stop_event, is given 5 seconds.
Leave ==
    /\ loop = "leave" /\ loop' = "gone"
    /\ UNCHANGED << tube, fetched, polled, thread, outQueue, item, sent, lostItems >>

TubeNext ==
    \/ loop # "gone" /\ (Said \/ ChatOver)
    \/ loop # "gone" /\ (Create \/ Fetch \/ ReaderRaises \/ PutItem \/ QueueFull
                         \/ MakeRoom \/ PutEnd)
    \/ GetItem \/ PublishItem \/ PublishRaises \/ Leave

TubeSpec == TubeInit /\ [][TubeNext]_tubeVars

-----------------------------------------------------------------------------
SetOf(s) == {s[k] : k \in DOMAIN s}

\* The chat of YouTube passes in order.  Every item fetched is on its way, published or
\* was taken out of the full queue; it is published once and in order; an item never
\* goes before an older one still in the queue (_enqueue); and the loop that leaves at
\* the None has published all of them, unless a publish raised (run_publisher).
TubeInOrder ==
    /\ \A j, k \in DOMAIN sent : j < k => sent[j] < sent[k]
    /\ 1..fetched \subseteq SetOf(polled) \cup SetOf(outQueue) \cup {item} \cup SetOf(sent)
                               \cup lostItems
    /\ \A d \in lostItems, q \in SetOf(outQueue) : q # End => d < q
    /\ SetOf(sent) \cap lostItems = {}
    /\ loop = "gone" /\ item = End => 1..fetched \subseteq SetOf(sent) \cup lostItems
=============================================================================

----------------------------- MODULE LensReader -----------------------------
(***************************************************************************)
(* ttvchat-lens: a WebSocket session starts and stops a chat reader        *)
(* (server.ChatSession), the reader runs an asyncio loop in a thread that  *)
(* fills a bounded queue, and a second thread drains it and schedules the  *)
(* sends on the server's loop (reader.LiveChatReader).                     *)
(*                                                                         *)
(* stop_reading blocks the server's loop in two joins of 5 seconds: a join *)
(* ends when the thread has, or at any time (`late` keeps whose).  Only a  *)
(* thread that never got to run in 5 seconds is left out.                  *)
(***************************************************************************)
EXTENDS Integers, Sequences, FiniteSets

CONSTANTS MaxReads,    \* bound: start commands
          MaxLines,    \* bound: chat lines of one reader
          LineQueue    \* the reader's queue_size

\* 1024; a Queue of size 0 would have no bound.
ASSUME LensAssumption == MaxReads \in Nat /\ LineQueue \in Nat \ {0}

Read == 1..MaxReads

VARIABLES
    serving,  \* the session: "idle", or where start_reading / stop_reading stands
    next,     \* what stop_reading is part of: "start" or "stop"
    current,  \* self.reader, 0 for None; the reads are numbered
    flag,     \* self._stop_event
    reader,   \* [Read -> the reader's fields and its IRC thread]
    worker,   \* [Read -> the draining thread]
    outbox,   \* coroutines scheduled on the loop and not run yet
    wire,     \* what the client received, in order
    late,     \* history: reads some join gave up on
    strays    \* history: reads whose line was scheduled when they were not current

lensVars == << serving, next, current, flag, reader, worker, outbox, wire, late, strays >>

Fresh == [loop |-> FALSE, event |-> FALSE, signal |-> FALSE, stopped |-> FALSE,
          irc |-> "none", queue |-> << >>, lines |-> 0]

LensInit ==
    /\ serving = "idle" /\ next = "stop" /\ current = 0 /\ flag = FALSE
    /\ reader = [r \in Read |-> Fresh] /\ worker = [r \in Read |-> "none"]
    /\ outbox = << >> /\ wire = << >> /\ late = {} /\ strays = {}

Started == {r \in Read : worker[r] # "none"}

-----------------------------------------------------------------------------
(* ChatSession, on the server's loop *)

\* A command; both begin with stop_reading, whose first step raises the flag.  A stop
\* with nothing to stop is left out.
LensCommand(what) ==
    /\ serving = "idle"
    /\ IF what = "start" THEN Started # Read ELSE current # 0
    /\ next' = what /\ flag' = TRUE
    /\ serving' = IF current = 0 THEN "stopped" ELSE "stop"
    /\ UNCHANGED << current, reader, worker, outbox, wire, late, strays >>

\* reader.stop(): the event is set only if the loop thread has made it by now.
ReaderStop ==
    /\ serving = "stop" /\ serving' = "close"
    /\ reader' = [reader EXCEPT ![current].stopped = TRUE,
                                ![current].signal = @ \/ (reader[current].loop /\ reader[current].event)]
    /\ UNCHANGED << next, current, flag, worker, outbox, wire, late, strays >>

\* close(): join the loop thread, forget loop, thread and event.
Forgotten(r) == [reader EXCEPT ![r].stopped = TRUE, ![r].loop = FALSE, ![r].event = FALSE]
LoopOver(r) == reader[r].irc \in {"none", "ended"} \/ ~reader[r].loop

ReaderClose(gaveUp) ==
    /\ serving = "close" /\ gaveUp # LoopOver(current)
    /\ reader' = Forgotten(current)
    /\ late' = IF gaveUp THEN late \cup {current} ELSE late
    /\ serving' = "join"
    /\ UNCHANGED << next, current, flag, worker, outbox, wire, strays >>

\* Mutant: the draining thread is not awaited.
JoinWorker_Skipped(gaveUp) ==
    /\ serving = "join" /\ ~gaveUp
    /\ current' = 0 /\ serving' = "stopped"
    /\ UNCHANGED << next, flag, reader, worker, outbox, wire, late, strays >>

JoinWorker(gaveUp) ==
    /\ serving = "join" /\ worker[current] # "begin"
    /\ gaveUp # (worker[current] = "ended")
    /\ late' = IF gaveUp THEN late \cup {current} ELSE late
    /\ current' = 0 /\ serving' = "stopped"
    /\ UNCHANGED << next, flag, reader, worker, outbox, wire, strays >>

SayStopped ==
    /\ serving = "stopped" /\ next = "stop"
    /\ wire' = Append(wire, << "stopped", 0, 0 >>)
    /\ serving' = "idle"
    /\ UNCHANGED << next, current, flag, reader, worker, outbox, late, strays >>

\* The rest of start_reading: the flag goes down, the thread starts.
StartReading ==
    /\ serving = "stopped" /\ next = "start"
    /\ LET r == CHOOSE k \in Read \ Started : \A j \in Read \ Started : k <= j
       IN  /\ current' = r
           /\ worker' = [worker EXCEPT ![r] = "begin"]
           /\ wire' = Append(wire, << "connected", r, 0 >>)
    /\ flag' = FALSE /\ serving' = "idle"
    /\ UNCHANGED << next, reader, outbox, late, strays >>

\* A scheduled send runs when the loop is free.
Send ==
    /\ serving = "idle" /\ outbox # << >>
    /\ wire' = Append(wire, Head(outbox)) /\ outbox' = Tail(outbox)
    /\ UNCHANGED << serving, next, current, flag, reader, worker, late, strays >>

-----------------------------------------------------------------------------
(* _run_reader: the draining thread *)

\* iter_messages: _start_loop takes back an earlier stop.
WorkerBegin(r) ==
    /\ worker[r] = "begin"
    /\ worker' = [worker EXCEPT ![r] = "drain"]
    /\ reader' = [reader EXCEPT ![r].stopped = FALSE, ![r].loop = TRUE, ![r].irc = "starting"]
    /\ UNCHANGED << serving, next, current, flag, outbox, wire, late, strays >>

WorkerTake(r) ==
    /\ worker[r] = "drain" /\ reader[r].queue # << >>
    /\ LET item == Head(reader[r].queue)
       IN  /\ reader' = [reader EXCEPT ![r].queue = Tail(@)]
           /\ IF item = 0 \/ flag
              THEN /\ worker' = [worker EXCEPT ![r] = "close"]
                   /\ UNCHANGED << outbox, strays >>
              ELSE /\ outbox' = Append(outbox, << "chat", r, item >>)
                   /\ strays' = IF current # r THEN strays \cup {r} ELSE strays
                   /\ UNCHANGED worker
    /\ UNCHANGED << serving, next, current, flag, wire, late >>

\* Half a second without a line: a stopped reader's generator ends.
WorkerIdle(r) ==
    /\ worker[r] = "drain" /\ reader[r].queue = << >> /\ reader[r].stopped
    /\ worker' = [worker EXCEPT ![r] = "close"]
    /\ UNCHANGED << serving, next, current, flag, reader, outbox, wire, late, strays >>

\* The generator's close(), then "the stream ended" unless stopping.
WorkerClose(r, gaveUp) ==
    /\ worker[r] = "close" /\ gaveUp # LoopOver(r)
    /\ reader' = Forgotten(r)
    /\ late' = IF gaveUp THEN late \cup {r} ELSE late
    /\ worker' = [worker EXCEPT ![r] = "ended"]
    /\ outbox' = IF flag THEN outbox ELSE Append(outbox, << "over", r, 0 >>)
    /\ UNCHANGED << serving, next, current, flag, wire, strays >>

-----------------------------------------------------------------------------
(* _runner and _run_async: the IRC thread *)

\* The event is made in the thread; a stop before this found none to set.
IrcLoop(r) ==
    /\ reader[r].irc = "starting"
    /\ reader' = [reader EXCEPT ![r].irc = "connecting", ![r].event = TRUE]
    /\ UNCHANGED << serving, next, current, flag, worker, outbox, wire, late, strays >>

\* Connected, it waits on self._stop_event: None after a close(), an error.
IrcJoin(r) ==
    /\ reader[r].irc = "connecting"
    /\ reader' = [reader EXCEPT ![r].irc = IF reader[r].event THEN "reading" ELSE "ending"]
    /\ UNCHANGED << serving, next, current, flag, worker, outbox, wire, late, strays >>

IrcLine(r) ==
    /\ reader[r].irc = "reading" /\ ~reader[r].signal /\ reader[r].lines < MaxLines
    /\ LET n == reader[r].lines + 1
           q == reader[r].queue
       IN  reader' = [reader EXCEPT
              ![r].lines = n,
              ![r].queue = CASE reader[r].stopped -> q
                             [] ~reader[r].stopped /\ Len(q) = LineQueue -> Append(Tail(q), n)
                             [] OTHER -> Append(q, n)]
    /\ UNCHANGED << serving, next, current, flag, worker, outbox, wire, late, strays >>

\* The stop event, the end of the connection, or an error.
IrcEnds(r) ==
    /\ reader[r].irc \in {"connecting", "reading"}
    /\ reader' = [reader EXCEPT ![r].irc = "ending"]
    /\ UNCHANGED << serving, next, current, flag, worker, outbox, wire, late, strays >>

\* finally: the sentinel (0) needs room in the queue, it waits for it.
IrcSentinel(r) ==
    /\ reader[r].irc = "ending" /\ Len(reader[r].queue) < LineQueue
    /\ reader' = [reader EXCEPT ![r].irc = "ended", ![r].queue = Append(@, 0)]
    /\ UNCHANGED << serving, next, current, flag, worker, outbox, wire, late, strays >>

LensNext ==
    \/ \E what \in {"start", "stop"} : LensCommand(what)
    \/ ReaderStop \/ SayStopped \/ StartReading \/ Send
    \/ \E gaveUp \in BOOLEAN : ReaderClose(gaveUp) \/ JoinWorker(gaveUp)
    \/ \E r \in Read :
          \/ WorkerBegin(r) \/ WorkerTake(r) \/ WorkerIdle(r)
          \/ \E gaveUp \in BOOLEAN : WorkerClose(r, gaveUp)
          \/ IrcLoop(r) \/ IrcJoin(r) \/ IrcLine(r) \/ IrcEnds(r) \/ IrcSentinel(r)

LensSpec == LensInit /\ [][LensNext]_lensVars

\* A read the session has let go is over, both its threads, and sends nothing new,
\* unless a join gave up on it: else its connection would live on unseen, and its lines
\* reach the client of the next channel.
LetGoIsOver ==
    /\ strays \subseteq late
    /\ \A r \in Started \ ({current} \cup late) :
          worker[r] = "ended" /\ reader[r].irc \in {"none", "ended"}

\* The client receives each line at most once and in order, "over" after a read's last.
LinesInOrder ==
    \A j, k \in DOMAIN wire :
       j < k /\ wire[j][1] \in {"chat", "over"} /\ wire[k][1] = "chat" /\ wire[j][2] = wire[k][2]
         => wire[j][1] = "chat" /\ wire[j][3] < wire[k][3]

\* A session is the only owner of what it reads (server.ChatSession,
\* reader.LiveChatReader).
SessionOwnsReads == LetGoIsOver /\ LinesInOrder
=============================================================================

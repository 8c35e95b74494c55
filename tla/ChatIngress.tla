---------------------------- MODULE ChatIngress ----------------------------
(***************************************************************************)
(* Twitch chat into the bus: ingress-twitch-eventsub handles each          *)
(* notification in a task of its own (bot.py), ingress-ttv-read passes the *)
(* lines of an IRC thread through a bounded queue to one loop (publisher.  *)
(* py).  Both claim a message before publishing it.  The first viewer to   *)
(* chat after the stream starts is announced once (first_chat.py).         *)
(*                                                                         *)
(* Twitch is external: a notification may come twice, and the handler      *)
(* tasks interleave at their awaits.  Message ids count the chat.          *)
(***************************************************************************)
EXTENDS Integers, Sequences, FiniteSets

CONSTANTS MaxChat,      \* bound: chat messages said
          MaxCopies,    \* bound: notifications repeated
          MaxStreams,   \* bound: times the stream starts
          MaxTroubles,  \* bound: publishes that raise, restarts, IRC gaps
          QueueSize     \* out_queue's maxsize

\* 2048
ASSUME ChatAssumption == QueueSize \in Nat \ {0}

VARIABLES
    chatters,   \* chatters[id]: "viewer", or one never welcomed ("other")
    live,       \* the stream: [number, on]
    notices,    \* notifications not yet delivered
    tasks,      \* handler tasks of eventsub in flight
    session,    \* FirstChatTracker: [stream, claimed], or none
    rows,       \* claims of ingress.chat.message
    published,  \* chat.message events, in order
    welcomes,   \* eventsub.first_chat events: << stream, id >>, in order
    armed,      \* history: the stream.online notices handled, in order
    irc,        \* the IRC reader: [on, queue, current]
    troubles,   \* failures so far
    copies

chatVars == << chatters, live, notices, tasks, session, rows, published, welcomes, armed,
               irc, troubles, copies >>

NoSession == [stream |-> 0, claimed |-> TRUE]
ChatIds == DOMAIN chatters

ChatInit ==
    /\ chatters = << >> /\ live = [number |-> 0, on |-> FALSE]
    /\ notices = {} /\ tasks = {} /\ session = NoSession /\ rows = {}
    /\ published = << >> /\ welcomes = << >> /\ armed = << >>
    /\ irc = [on |-> FALSE, queue |-> << >>, current |-> 0]
    /\ troubles = 0 /\ copies = 0

Trouble == troubles < MaxTroubles /\ troubles' = troubles + 1

-----------------------------------------------------------------------------
(* Twitch *)

\* _enqueue of the publisher: a full queue loses its oldest line.
Enqueued(queue, id) ==
    IF Len(queue) = QueueSize THEN Append(Tail(queue), id) ELSE Append(queue, id)

ChatSaid(who) ==
    /\ Len(chatters) < MaxChat
    /\ LET id == Len(chatters) + 1
       IN  /\ chatters' = Append(chatters, who)
           /\ notices' = notices \cup {[kind |-> "chat", id |-> id]}
           /\ irc' = IF irc.on THEN [irc EXCEPT !.queue = Enqueued(@, id)] ELSE irc
    /\ UNCHANGED << live, tasks, session, rows, published, welcomes, armed, troubles, copies >>

GoLive ==
    /\ ~live.on /\ live.number < MaxStreams
    /\ live' = [number |-> live.number + 1, on |-> TRUE]
    /\ notices' = notices \cup {[kind |-> "online", id |-> live.number + 1]}
    /\ UNCHANGED << chatters, tasks, session, rows, published, welcomes, armed, irc, troubles,
                    copies >>

GoOffline ==
    /\ live.on /\ live' = [live EXCEPT !.on = FALSE]
    /\ notices' = notices \cup {[kind |-> "offline", id |-> live.number]}
    /\ UNCHANGED << chatters, tasks, session, rows, published, welcomes, armed, irc, troubles,
                    copies >>

\* The start of a handler task; a repeated notification stays to be delivered again.
Delivered(n, again) ==
    /\ n \in notices
    /\ IF again THEN /\ copies < MaxCopies /\ copies' = copies + 1 /\ UNCHANGED notices
                ELSE /\ notices' = notices \ {n} /\ UNCHANGED copies

-----------------------------------------------------------------------------
(* EventSubIngressBot *)

Task(id, pc, stream) == [id |-> id, pc |-> pc, stream |-> stream]
Becomes(t, S) == tasks' = (tasks \ {t}) \cup S

\* try_claim, in the same step as the end of publish_chat.
Claimable(id) == chatters[id] = "viewer" /\ ~session.claimed

\* Mutant: the session is claimed only when the welcome is out.
AfterChat_ClaimsLate(t, id) ==
    IF Claimable(id)
    THEN Becomes(t, {Task(id, "welcome", session.stream)}) /\ UNCHANGED session
    ELSE Becomes(t, {}) /\ UNCHANGED session

AfterChat(t, id) ==
    IF Claimable(id)
    THEN /\ session' = [session EXCEPT !.claimed = TRUE]
         /\ Becomes(t, {Task(id, "welcome", session.stream)})
    ELSE /\ Becomes(t, {}) /\ UNCHANGED session

\* event_message up to its first await.  A duplicate is not published, and is looked
\* at as a first chat all the same.
EventMessage(n, again) ==
    /\ n.kind = "chat" /\ Delivered(n, again)
    /\ IF n.id \in rows
       THEN AfterChat(Task(n.id, "none", 0), n.id) /\ UNCHANGED rows
       ELSE /\ rows' = rows \cup {n.id}
            /\ tasks' = tasks \cup {Task(n.id, "publish", 0)}
            /\ UNCHANGED session
    /\ UNCHANGED << chatters, live, published, welcomes, armed, irc, troubles >>

ChatPublished(t) ==
    /\ t \in tasks /\ t.pc = "publish"
    /\ published' = Append(published, t.id)
    /\ AfterChat(t, t.id)
    /\ UNCHANGED << chatters, live, notices, rows, welcomes, armed, irc, troubles, copies >>

Welcome(t) ==
    /\ t \in tasks /\ t.pc = "welcome"
    /\ welcomes' = Append(welcomes, << t.stream, t.id >>)
    /\ Becomes(t, {})
    /\ UNCHANGED << chatters, live, notices, session, rows, published, armed, irc, troubles,
                    copies >>

\* A publish raises: the task ends, what it claimed stays claimed.
TaskFails(t) ==
    /\ t \in tasks /\ Trouble /\ Becomes(t, {})
    /\ UNCHANGED << chatters, live, notices, session, rows, published, welcomes, armed, irc,
                    copies >>

\* event_stream_online: arm_session forgets whatever was claimed before.
EventOnline(n, again) ==
    /\ n.kind = "online" /\ Delivered(n, again)
    /\ session' = [stream |-> n.id, claimed |-> FALSE]
    /\ armed' = Append(armed, n.id)
    /\ UNCHANGED << chatters, live, tasks, rows, published, welcomes, irc, troubles >>

EventOffline(n, again) ==
    /\ n.kind = "offline" /\ Delivered(n, again)
    /\ session' = NoSession
    /\ UNCHANGED << chatters, live, tasks, rows, published, welcomes, armed, irc, troubles >>

\* The process ends and starts again: tasks and tracker are gone, claims stay, and what
\* was said meanwhile is not delivered any more.
EventSubRestart ==
    /\ Trouble /\ tasks' = {} /\ session' = NoSession /\ notices' = {}
    /\ UNCHANGED << chatters, live, rows, published, welcomes, armed, irc, copies >>

-----------------------------------------------------------------------------
(* ingress-ttv-read: run_publisher *)

IrcConnect ==
    /\ ~irc.on /\ irc' = [irc EXCEPT !.on = TRUE]
    /\ UNCHANGED << chatters, live, notices, tasks, session, rows, published, welcomes, armed,
                    troubles, copies >>

\* The connection drops; the thread tries again after reconnect_delay.
IrcDrop ==
    /\ irc.on /\ Trouble /\ irc' = [irc EXCEPT !.on = FALSE]
    /\ UNCHANGED << chatters, live, notices, tasks, session, rows, published, welcomes, armed,
                    copies >>

\* A line is mapped and claimed; a duplicate is dropped.
IrcTake ==
    /\ irc.current = 0 /\ irc.queue # << >>
    /\ LET id == Head(irc.queue)
       IN  /\ irc' = [irc EXCEPT !.queue = Tail(@), !.current = IF id \in rows THEN 0 ELSE id]
           /\ rows' = rows \cup {id}
    /\ UNCHANGED << chatters, live, notices, tasks, session, published, welcomes, armed,
                    troubles, copies >>

IrcPublish ==
    /\ irc.current # 0
    /\ published' = Append(published, irc.current)
    /\ irc' = [irc EXCEPT !.current = 0]
    /\ UNCHANGED << chatters, live, notices, tasks, session, rows, welcomes, armed, troubles,
                    copies >>

\* A publish that raises ends the process: its queue is lost, its claims stay.
IrcFails ==
    /\ irc.current # 0 /\ Trouble
    /\ irc' = [on |-> FALSE, queue |-> << >>, current |-> 0]
    /\ UNCHANGED << chatters, live, notices, tasks, session, rows, published, welcomes, armed,
                    copies >>

ChatNext ==
    \/ \E who \in {"viewer", "other"} : ChatSaid(who)
    \/ GoLive \/ GoOffline
    \/ \E n \in notices, again \in BOOLEAN :
          EventMessage(n, again) \/ EventOnline(n, again) \/ EventOffline(n, again)
    \/ \E t \in tasks : ChatPublished(t) \/ Welcome(t) \/ TaskFails(t)
    \/ EventSubRestart
    \/ IrcConnect \/ IrcDrop \/ IrcTake \/ IrcPublish \/ IrcFails

ChatSpec == ChatInit /\ [][ChatNext]_chatVars

-----------------------------------------------------------------------------
InHand == {t.id : t \in {u \in tasks : u.pc = "publish"}} \cup {irc.current}
Out == {published[k] : k \in DOMAIN published}

\* Chat comes in once.  Through two readers and repeated notifications a chat message
\* is published at most once (the claim of _is_duplicate), and unless something failed
\* one that was claimed is on its way or out.  One viewer is welcomed for each start of
\* the stream that was notified, never a bot or the broadcaster, and nobody to a stream
\* that never started (FirstChatTracker.try_claim).
IngressOnce ==
    /\ \A j, k \in DOMAIN published : published[j] = published[k] => j = k
    /\ troubles = 0 => rows \subseteq Out \cup InHand
    /\ \A s \in 1..MaxStreams : Cardinality({k \in DOMAIN welcomes : welcomes[k][1] = s})
                                   <= Cardinality({k \in DOMAIN armed : armed[k] = s})
    /\ \A k \in DOMAIN welcomes : chatters[welcomes[k][2]] = "viewer"
=============================================================================

--------------------------- MODULE LlmSubscriber ---------------------------
(***************************************************************************)
(* sub-llm: instances of the process share the durable queue q.sub-llm and *)
(* the idempotency table.  A question is claimed twice (its content for a  *)
(* window of 120 seconds, its message for a day), the language model is    *)
(* asked, the reply is published, and the claims are given back when no    *)
(* reply went out (LlmSubscriber._handle_chat_message, __main__.main).     *)
(*                                                                         *)
(* The consumer runs one callback at a time, so `_busy` is never found     *)
(* taken and BUSY_REPLY is not modelled.  While the model is asked no      *)
(* heartbeat is served: the broker may drop the connection and hand the    *)
(* question to the other instance.  Claims outlive the model (24 hours).   *)
(***************************************************************************)
EXTENDS Integers, Sequences, FiniteSets

CONSTANTS Instance,     \* the sub-llm processes
          Question,     \* what the viewer can ask
          NoMessage,
          MaxMessages,  \* bound: chat messages said
          MaxWindow,    \* bound: windows of 120 seconds
          MaxFaults     \* bound: failures and kills

Other == "no question"   \* no trigger, a bot's own trigger, a blocked word

ASSUME AskAssumption == Other \notin Question /\ NoMessage \notin Nat \ {0}

VARIABLES
    text,      \* text[id]: what message id says
    askQueue,  \* ids ready in q.sub-llm, head first
    window,    \* int(time.time()) // 120
    claims,    \* rows of idempotency_keys
    llm,       \* [Instance -> what the process is doing]
    answers,   \* history: <<id, content key>> of each reply published
    blank,     \* history: questions whose reply was empty or filtered
    dropped,   \* history: <<id, content key>> skipped as duplicate content
    qaRecords, \* history: questions recorded for the QA memory
    unsure,    \* history: publishes that raised after the broker had the reply
    lonely,    \* history: a start was told of a duplicate with no other instance up
    orphans,   \* history: claims of a process that ended without giving them back
    askFaults

askVars == << text, askQueue, window, claims, llm, answers, blank, dropped, qaRecords,
              unsure, lonely, orphans, askFaults >>
askHistory == << blank, dropped, qaRecords, unsure, lonely, orphans >>

Down == [pc |-> "down", msg |-> NoMessage, key |-> << >>, hello |-> FALSE,
         linked |-> FALSE, raised |-> FALSE]

AskInit ==
    /\ text = << >> /\ askQueue = << >> /\ window = 0 /\ claims = {}
    /\ llm = [i \in Instance |-> Down]
    /\ answers = << >> /\ blank = {} /\ dropped = {} /\ qaRecords = {}
    /\ unsure = 0 /\ lonely = FALSE /\ orphans = {} /\ askFaults = 0

Startup == << "startup" >>
Trigger(id) == << "trigger", id >>

\* Mutant: the question is left out of the key.
Content_NoQuestion(id) == << "content", window >>

\* _ask_content_dedup_key: the window, and who asked what.
Content(id) == << "content", window, text[id] >>

At(i, pc) == llm[i].pc = pc
Goto(i, pc) == llm' = [llm EXCEPT ![i].pc = pc]

\* The claims instance i has made and is still to give back or to answer under.
Owned(i) ==
    {c \in claims :
        \/ c = Startup /\ llm[i].hello
        \/ /\ c = llm[i].key
           /\ llm[i].pc \in {"trigger", "ask", "fallback", "publish", "record", "free"}
        \/ /\ llm[i].msg # NoMessage /\ c = Trigger(llm[i].msg)
           /\ llm[i].pc \in {"ask", "fallback", "publish", "record", "free", "freeTrigger"}}

Fault == askFaults < MaxFaults /\ askFaults' = askFaults + 1

\* Unacknowledged, the broker puts the message back at the head of the queue.
Returned(i) == IF llm[i].linked /\ llm[i].msg # NoMessage
               THEN << llm[i].msg >> \o askQueue ELSE askQueue

-----------------------------------------------------------------------------
(* The chat, the clock *)

Say(what) ==
    /\ Len(text) < MaxMessages
    /\ text' = Append(text, what)
    /\ askQueue' = Append(askQueue, Len(text) + 1)
    /\ UNCHANGED << window, claims, llm, answers, askHistory, askFaults >>

NextWindow ==
    /\ window < MaxWindow /\ window' = window + 1
    /\ UNCHANGED << text, askQueue, claims, llm, answers, askHistory, askFaults >>

-----------------------------------------------------------------------------
(* main: the greeting before, the end after *)

\* The startup claim decides who greets; whoever finds it taken says "duplicate".
Start(i) ==
    /\ At(i, "down")
    /\ LET first == Startup \notin claims
       IN  /\ llm' = [llm EXCEPT ![i] = [Down EXCEPT !.pc = IF first THEN "greet" ELSE "idle",
                                                     !.hello = first, !.linked = TRUE]]
           /\ claims' = claims \cup {Startup}
           /\ lonely' = (lonely \/ (~first /\ \A j \in Instance \ {i} : At(j, "down")))
    /\ UNCHANGED << text, askQueue, window, answers, blank, dropped, qaRecords, unsure, orphans,
                    askFaults >>

\* publish_startup_announcement: the model's failure has a canned greeting.
Greet(i) ==
    /\ At(i, "greet") /\ Goto(i, "idle")
    /\ UNCHANGED << text, askQueue, window, claims, answers, askHistory, askFaults >>

\* It is called outside the try block: a publish that raises keeps the claim.
GreetFails(i) ==
    /\ At(i, "greet") /\ Fault
    /\ llm' = [llm EXCEPT ![i] = Down] /\ orphans' = orphans \cup Owned(i)
    /\ UNCHANGED << text, askQueue, window, claims, answers, blank, dropped, qaRecords, unsure,
                    lonely >>

\* Mutant: whoever leaves releases the startup claim (as sub_live_status does).
Leave_Anyone(i) ==
    /\ llm' = [llm EXCEPT ![i] = Down]
    /\ askQueue' = Returned(i)
    /\ claims' = claims \ {Startup}

\* The end of main through its finally: the connection closes, the startup claim is
\* released by the instance that made it.
Leave(i) ==
    /\ llm' = [llm EXCEPT ![i] = Down]
    /\ askQueue' = Returned(i)
    /\ claims' = IF llm[i].hello THEN claims \ {Startup} ELSE claims

\* Ctrl+C while waiting for a message.
Interrupt(i) ==
    /\ At(i, "idle") /\ Leave(i)
    /\ UNCHANGED << text, window, answers, askHistory, askFaults >>

\* SIGTERM from the runner, SIGKILL, power: no finally runs, every claim stays.
KillAsk(i) ==
    /\ ~At(i, "down") /\ Fault
    /\ llm' = [llm EXCEPT ![i] = Down]
    /\ askQueue' = Returned(i) /\ orphans' = orphans \cup Owned(i)
    /\ UNCHANGED << text, window, claims, answers, blank, dropped, qaRecords, unsure, lonely >>

-----------------------------------------------------------------------------
(* _handle_chat_message *)

\* What needs no answer is acknowledged at once.
Hear(i) ==
    /\ At(i, "idle") /\ askQueue # << >> /\ text[Head(askQueue)] = Other
    /\ askQueue' = Tail(askQueue)
    /\ UNCHANGED << text, window, claims, llm, answers, askHistory, askFaults >>

Take(i) ==
    /\ At(i, "idle") /\ askQueue # << >> /\ text[Head(askQueue)] \in Question
    /\ llm' = [llm EXCEPT ![i].pc = "content", ![i].msg = Head(askQueue)]
    /\ askQueue' = Tail(askQueue)
    /\ UNCHANGED << text, window, claims, answers, askHistory, askFaults >>

\* Mutant: the content is never claimed.
ClaimContent_Never(i) ==
    /\ At(i, "content")
    /\ llm' = [llm EXCEPT ![i].pc = "trigger", ![i].key = Content(llm[i].msg)]
    /\ UNCHANGED << text, askQueue, window, claims, answers, askHistory, askFaults >>

ClaimContent(i) ==
    /\ At(i, "content")
    /\ LET key == Content(llm[i].msg)
       IN  IF key \in claims
           THEN /\ dropped' = dropped \cup {<< llm[i].msg, key >>}
                /\ Goto(i, "settle") /\ UNCHANGED claims
           ELSE /\ claims' = claims \cup {key}
                /\ llm' = [llm EXCEPT ![i].pc = "trigger", ![i].key = key]
                /\ UNCHANGED dropped
    /\ UNCHANGED << text, askQueue, window, answers, blank, qaRecords, unsure, lonely, orphans,
                    askFaults >>

\* A message handled before gives its content claim back.
ClaimTrigger(i) ==
    /\ At(i, "trigger")
    /\ IF Trigger(llm[i].msg) \in claims
       THEN claims' = claims \ {llm[i].key} /\ Goto(i, "settle")
       ELSE claims' = claims \cup {Trigger(llm[i].msg)} /\ Goto(i, "ask")
    /\ UNCHANGED << text, askQueue, window, answers, askHistory, askFaults >>

\* The table is locked: a claim raises before the try block, or a release in the finally
\* clause does.  The process ends and what it claimed for the question stays.
TableFails(i) ==
    /\ llm[i].pc \in {"content", "trigger", "free", "freeTrigger"} /\ Fault
    /\ Leave(i) /\ orphans' = orphans \cup (Owned(i) \ {Startup})
    /\ UNCHANGED << text, window, answers, blank, dropped, qaRecords, unsure, lonely >>

\* _generate_with_google_search: an LlmApiError falls back to the chat endpoint.
Grounding(i) ==
    /\ At(i, "ask") /\ Goto(i, "fallback")
    /\ UNCHANGED << text, askQueue, window, claims, answers, askHistory, askFaults >>

\* A reply that filter_output, plain_text_for_chat or the caps leave empty.
Reply(i, empty) ==
    /\ llm[i].pc \in {"ask", "fallback"}
    /\ Goto(i, IF empty THEN "free" ELSE "publish")
    /\ blank' = IF empty THEN blank \cup {llm[i].msg} ELSE blank
    /\ UNCHANGED << text, askQueue, window, claims, answers, dropped, qaRecords, unsure, lonely,
                    orphans, askFaults >>

\* A timeout while reading, a body that is no JSON, a memory_value that is no
\* integer, an LlmApiError of the chat endpoint; a closed channel at the publish.
AskFails(i) ==
    /\ llm[i].pc \in {"ask", "fallback", "publish"} /\ Fault
    /\ llm' = [llm EXCEPT ![i].pc = "free", ![i].raised = TRUE]
    /\ UNCHANGED << text, askQueue, window, claims, answers, askHistory >>

\* No heartbeat during the call: the broker closes the connection and requeues.
HeartbeatLost(i) ==
    /\ llm[i].pc \in {"ask", "fallback"} /\ llm[i].linked /\ Fault
    /\ askQueue' = Returned(i)
    /\ llm' = [llm EXCEPT ![i].linked = FALSE]
    /\ UNCHANGED << text, window, claims, answers, askHistory >>

PublishReply(i) ==
    /\ At(i, "publish")
    /\ IF llm[i].linked
       THEN /\ answers' = Append(answers, << llm[i].msg, llm[i].key >>)
            /\ Goto(i, "record")
       ELSE /\ UNCHANGED answers
            /\ llm' = [llm EXCEPT ![i].pc = "free", ![i].raised = TRUE]
    /\ UNCHANGED << text, askQueue, window, claims, askHistory, askFaults >>

\* The reply reached the broker and the publish raised all the same.
PublishUnsure(i) ==
    /\ At(i, "publish") /\ llm[i].linked /\ Fault
    /\ answers' = Append(answers, << llm[i].msg, llm[i].key >>)
    /\ unsure' = unsure + 1
    /\ llm' = [llm EXCEPT ![i].pc = "free", ![i].raised = TRUE]
    /\ UNCHANGED << text, askQueue, window, claims, blank, dropped, qaRecords, lonely, orphans >>

\* should_persist_qa_memory decides; a publish that raises now keeps the claims.
PublishRecord(i, worthy) ==
    /\ At(i, "record")
    /\ qaRecords' = IF worthy THEN qaRecords \cup {llm[i].msg} ELSE qaRecords
    /\ Goto(i, "settle")
    /\ UNCHANGED << text, askQueue, window, claims, answers, blank, dropped, unsure, lonely,
                    orphans, askFaults >>

RecordFails(i) ==
    /\ At(i, "record") /\ Fault
    /\ llm' = [llm EXCEPT ![i].pc = "settle", ![i].raised = TRUE]
    /\ UNCHANGED << text, askQueue, window, claims, answers, askHistory >>

\* finally, not published: the content claim first, then the message's.
FreeContent(i) ==
    /\ At(i, "free")
    /\ claims' = claims \ {llm[i].key} /\ Goto(i, "freeTrigger")
    /\ UNCHANGED << text, askQueue, window, answers, askHistory, askFaults >>

FreeTrigger(i) ==
    /\ At(i, "freeTrigger")
    /\ claims' = claims \ {Trigger(llm[i].msg)} /\ Goto(i, "settle")
    /\ UNCHANGED << text, askQueue, window, answers, askHistory, askFaults >>

\* consume_messages: acknowledge, or nack and let the exception end the process.  An
\* acknowledgement on a lost connection raises too.
Settle(i) ==
    /\ At(i, "settle")
    /\ IF llm[i].raised \/ ~llm[i].linked
       THEN Leave(i)
       ELSE /\ llm' = [llm EXCEPT ![i].pc = "idle", ![i].msg = NoMessage, ![i].key = << >>]
            /\ UNCHANGED << askQueue, claims >>
    /\ UNCHANGED << text, window, answers, askHistory, askFaults >>

Instances(i) ==
    \/ Start(i) \/ Greet(i) \/ GreetFails(i) \/ Interrupt(i) \/ KillAsk(i)
    \/ Hear(i) \/ Take(i) \/ ClaimContent(i) \/ ClaimTrigger(i) \/ TableFails(i)
    \/ Grounding(i) \/ (\E empty \in BOOLEAN : Reply(i, empty)) \/ AskFails(i)
    \/ HeartbeatLost(i) \/ PublishReply(i) \/ PublishUnsure(i)
    \/ (\E worthy \in BOOLEAN : PublishRecord(i, worthy)) \/ RecordFails(i)
    \/ FreeContent(i) \/ FreeTrigger(i) \/ Settle(i)

AskNext ==
    \/ \E what \in Question \cup {Other} : Say(what)
    \/ NextWindow
    \/ \E i \in Instance : Instances(i)

AskSpec == AskInit /\ [][AskNext]_askVars

-----------------------------------------------------------------------------
Replies(S) == Cardinality({k \in DOMAIN answers : answers[k] \in S})
Pending == {askQueue[k] : k \in DOMAIN askQueue} \cup {llm[i].msg : i \in Instance}
Answered == {answers[k][1] : k \in DOMAIN answers}

\* One reply per message and one per content and window, whatever crashes or is
\* redelivered, unless a publish raised after the broker had the reply.
AnsweredOnce ==
    /\ \A id \in DOMAIN text : Replies({id} \X {answers[k][2] : k \in DOMAIN answers}) <= 1 + unsure
    /\ \A k \in DOMAIN answers : Replies(Answered \X {answers[k][2]}) <= 1 + unsure

\* Without a failure no question is passed over in silence: it is answered, the model
\* gave nothing fit to send, or the same question was dealt with in the same window.
SilenceExplained ==
    \A id \in DOMAIN text :
       text[id] \in Question /\ id \notin Pending /\ askFaults = 0
          => \/ id \in Answered \cup blank
             \/ \E d \in dropped : /\ d[1] = id
                                   /\ \E other \in DOMAIN text \ {id} :
                                         /\ text[other] = text[id]
                                         /\ other \in Answered \cup blank \cup Pending

\* A question asked again after an outage is not lost to old claims: each claim, of a
\* question's content, of its message or of the start, belongs to the instance at work on
\* it, is that of a reply that went out, or was left by a process that was killed, whose
\* greeting raised or to which the table itself failed; and no instance loses a claim it
\* still counts on.
ClaimsOwned ==
    /\ claims \subseteq orphans \cup (UNION {Owned(i) : i \in Instance})
                 \cup (UNION {{Trigger(answers[k][1]), answers[k][2]} : k \in DOMAIN answers})
    /\ \A i \in Instance : llm[i].hello => Startup \in claims
    /\ \A i \in Instance :
          /\ llm[i].pc \in {"trigger", "ask", "fallback", "publish", "record", "free"}
                => llm[i].key \in claims
          /\ llm[i].pc \in {"ask", "fallback", "publish", "record", "free", "freeTrigger"}
                => Trigger(llm[i].msg) \in claims

\* Told that another instance runs, a start finds one, or the claim is that of a start
\* that ended without releasing it.
DuplicateExplained == lonely => Startup \in orphans

\* Every claim is somebody's: no end of a process in order or by an exception of the
\* model or the broker leaves one behind, and none takes away another's
\* (__main__.main, _handle_chat_message's finally).
ClaimsExplained == ClaimsOwned /\ DuplicateExplained
=============================================================================

---------------------------- MODULE ConfigReload ----------------------------
(***************************************************************************)
(* Hot reload of a module's configuration (`config.changed`, L1): the      *)
(* requests of streamer-config-gui write a file in place and announce it;  *)
(* the subscriber (sub-bot-logic) reloads from the file when the           *)
(* announcement reaches the head of its queue.  Chat messages travel in    *)
(* the same queue, and each is answered with the rules loaded at that      *)
(* moment.                                                                 *)
(*                                                                         *)
(* Path.write_text truncates the file and writes it later, PUT handlers    *)
(* run in a thread pool, and nothing locks the file: the subscriber can    *)
(* read it empty, and two writers can leave the tail of the longer text    *)
(* behind the shorter.  Either way BotResponseMap.reload falls back to     *)
(* the built-in defaults.                                                  *)
(***************************************************************************)
EXTENDS Integers, Sequences

CONSTANTS Saver,        \* requests of the config GUI that may run together
          Bot,          \* the subscriber process (one: its process lock)
          Nothing,      \* no message
          QueueExists,  \* the durable queue was bound by an earlier start
          MaxSaves,     \* bound: PUTs
          MaxChats,     \* bound: chat messages
          MaxFaults     \* bound: crashes of either process, failed publishes

Empty    == -1
Mixed    == -2
Defaults == 0
Versions == Nat \ {0}

\* config.changed for this module or for another one; a chat message, with the
\* newest version whose PUT had returned when it was published.
Notice == [kind : {"mine", "other"}]
Chat   == [kind : {"chat"}, floor : Versions]
Item   == Notice \cup Chat

ASSUME ReloadAssumption ==
    /\ Nothing \notin Item
    /\ QueueExists \in BOOLEAN
    /\ MaxSaves \in Nat
    /\ MaxChats \in Nat
    /\ MaxFaults \in Nat

VARIABLES
    queue, unacked,  \* the subscriber's inbox (module Broker)
    bound,           \* the queue exists and is bound
    disk,            \* the file: version written last, Empty or Mixed
    writes,          \* versions written so far (version 1 is the initial one)
    saving,          \* [Saver -> "idle" | "open" | "written" | "other"]
    version,         \* [Saver -> the version its request wrote]
    returned,        \* history: newest version whose PUT has returned
    missed,          \* history: saves that were never announced
    pc,              \* the subscriber: Down, "loading", Idle, "handle", "ack"
    rules,           \* version it has loaded; Defaults after a bad read
    saves, chats, faults

inbox  == << queue, unacked, bound >>
file   == << disk, writes >>
gui    == << saving, version, returned, missed >>
bot    == << pc, rules >>
bounds == << saves, chats, faults >>
vars   == << inbox, file, gui, bot, bounds >>

Inbox == INSTANCE Broker
           WITH Consumer <- {Bot}, Message <- Item, NoMessage <- Nothing

Init ==
    /\ Inbox!BrokerInit
    /\ bound = QueueExists
    /\ disk = 1
    /\ writes = 1
    /\ saving = [s \in Saver |-> "idle"]
    /\ version = [s \in Saver |-> 1]
    /\ returned = 1
    /\ missed = 0
    /\ pc = "down"
    /\ rules = Defaults
    /\ saves = 0
    /\ chats = 0
    /\ faults = 0

\* The exchange drops what no queue is bound for.
Route(m) == IF bound THEN Inbox!Publish(m) ELSE UNCHANGED << queue, unacked >>

-----------------------------------------------------------------------------
(* streamer-config-gui *)

\* A PUT passes validation; write_text opens the file and truncates it.  A PUT
\* for a file of another module leaves this one alone.
Open(s) ==
    /\ saving[s] = "idle"
    /\ saves < MaxSaves
    /\ saves' = saves + 1
    /\ \/ /\ saving' = [saving EXCEPT ![s] = "open"]
          /\ disk' = Empty
       \/ /\ saving' = [saving EXCEPT ![s] = "other"]
          /\ UNCHANGED disk
    /\ UNCHANGED << inbox, writes, version, returned, missed, bot, chats, faults >>

\* The text is written from offset 0 when the file is closed.  What another
\* request wrote since the truncation shows behind it when it is longer.
Write(s) ==
    /\ saving[s] = "open"
    /\ writes' = writes + 1
    /\ \E d \in {writes + 1} \cup (IF disk = Empty THEN {} ELSE {Mixed}) : disk' = d
    /\ version' = [version EXCEPT ![s] = writes + 1]
    /\ saving' = [saving EXCEPT ![s] = "written"]
    /\ UNCHANGED << inbox, returned, missed, bot, bounds >>

Newer(x, y) == IF x >= y THEN x ELSE y

\* Mutant: the file is missing from CONFIG_FILE_MODULE_ID, nothing is published.
AnnounceUnmapped(s) ==
    /\ saving[s] \in {"written", "other"}
    /\ saving' = [saving EXCEPT ![s] = "idle"]
    /\ returned' = IF saving[s] = "written" THEN Newer(returned, version[s])
                                            ELSE returned
    /\ UNCHANGED << inbox, file, version, missed, bot, bounds >>

\* try_publish_config_changed, and the response {"reload": "config.changed"}:
\* the response is the same when the publish failed.
Announce(s) ==
    /\ saving[s] \in {"written", "other"}
    /\ saving' = [saving EXCEPT ![s] = "idle"]
    /\ returned' = IF saving[s] = "written" THEN Newer(returned, version[s])
                                            ELSE returned
    /\ \/ /\ Route([kind |-> IF saving[s] = "written" THEN "mine" ELSE "other"])
          /\ missed' = IF saving[s] = "written" /\ ~bound THEN missed + 1 ELSE missed
          /\ UNCHANGED faults
       \/ /\ faults < MaxFaults
          /\ faults' = faults + 1
          /\ missed' = IF saving[s] = "written" THEN missed + 1 ELSE missed
          /\ UNCHANGED << queue, unacked >>
    /\ UNCHANGED << bound, file, version, bot, saves, chats >>

\* The GUI process dies with the requests it was serving.
GuiCrash ==
    /\ faults < MaxFaults
    /\ faults' = faults + 1
    /\ \E s \in Saver : saving[s] # "idle"
    /\ missed' = IF \E s \in Saver : saving[s] \in {"open", "written"}
                 THEN missed + 1 ELSE missed
    /\ saving' = [s \in Saver |-> "idle"]
    /\ UNCHANGED << inbox, file, version, returned, bot, saves, chats >>

-----------------------------------------------------------------------------
(* sub-bot-logic *)

\* BotResponseMap.reload: a file that is not JSON gives the defaults.
Loaded(d) == IF d \in {Empty, Mixed} THEN Defaults ELSE d

\* main: the engine loads its files ...
Start ==
    /\ pc = "down"
    /\ pc' = "loading"
    /\ rules' = Loaded(disk)
    /\ UNCHANGED << inbox, file, gui, bounds >>

\* ... and then the queue is declared, bound and consumed.
Bind ==
    /\ pc = "loading"
    /\ pc' = "idle"
    /\ bound' = TRUE
    /\ UNCHANGED << queue, unacked, file, gui, rules, bounds >>

Receive ==
    /\ pc = "idle"
    /\ Inbox!Deliver(Bot)
    /\ pc' = "handle"
    /\ UNCHANGED << bound, file, gui, rules, bounds >>

\* Mutants: the notice is filtered out for this module; a reload that fails to
\* parse keeps the old rules and forgets about it.
HandleNoticeFiltered ==
    /\ pc = "handle"
    /\ unacked[Bot].kind \in {"mine", "other"}
    /\ rules' = IF unacked[Bot].kind = "other" THEN Loaded(disk) ELSE rules
    /\ pc' = "ack"
    /\ UNCHANGED << inbox, file, gui, bounds >>

HandleNoticeKeepsOld ==
    /\ pc = "handle"
    /\ unacked[Bot].kind \in {"mine", "other"}
    /\ rules' = IF unacked[Bot].kind = "mine" /\ disk \notin {Empty, Mixed}
                THEN disk ELSE rules
    /\ pc' = "ack"
    /\ UNCHANGED << inbox, file, gui, bounds >>

\* _handle_config_changed: reload when the event is for this module (and
\* profile), otherwise nothing.
HandleNotice ==
    /\ pc = "handle"
    /\ unacked[Bot].kind \in {"mine", "other"}
    /\ rules' = IF unacked[Bot].kind = "mine" THEN Loaded(disk) ELSE rules
    /\ pc' = "ack"
    /\ UNCHANGED << inbox, file, gui, bounds >>

\* process_payload: a chat message is answered with the rules in memory.
HandleChat ==
    /\ pc = "handle"
    /\ unacked[Bot].kind = "chat"
    /\ pc' = "ack"
    /\ UNCHANGED << inbox, file, gui, rules, bounds >>

Done ==
    /\ pc = "ack"
    /\ Inbox!Ack(Bot)
    /\ pc' = "idle"
    /\ UNCHANGED << bound, file, gui, rules, bounds >>

Crash ==
    /\ pc # "down"
    /\ faults < MaxFaults
    /\ faults' = faults + 1
    /\ Inbox!Requeue(Bot)
    /\ pc' = "down"
    /\ rules' = Defaults
    /\ UNCHANGED << bound, file, gui, saves, chats >>

-----------------------------------------------------------------------------
\* ingress publishes a chat message.
Say ==
    /\ chats < MaxChats
    /\ chats' = chats + 1
    /\ Route([kind |-> "chat", floor |-> returned])
    /\ UNCHANGED << bound, file, gui, bot, saves, faults >>

Save(s) == Write(s) \/ Announce(s)
Consume == Bind \/ Receive \/ HandleNotice \/ HandleChat \/ Done

Next ==
    \/ \E s \in Saver : Open(s) \/ Save(s)
    \/ Start \/ Consume \/ Crash
    \/ GuiCrash
    \/ Say

Spec == Init /\ [][Next]_vars

\* Requests under way finish and a running subscriber goes on; nobody promises
\* to start one or to save again.
FairSpec == Spec /\ WF_vars(Consume) /\ \A s \in Saver : WF_vars(Save(s))

-----------------------------------------------------------------------------
(* Properties *)

TypeOK ==
    /\ Inbox!BrokerTypeOK
    /\ bound \in BOOLEAN
    /\ disk \in Versions \cup {Empty, Mixed}
    /\ writes \in Versions
    /\ saving \in [Saver -> {"idle", "open", "written", "other"}]
    /\ version \in [Saver -> Versions]
    /\ returned \in Versions
    /\ missed \in Nat
    /\ pc \in {"down", "loading", "idle", "handle", "ack"}
    /\ rules \in Versions \cup {Defaults}
    /\ unacked[Bot] # Nothing <=> pc \in {"handle", "ack"}
    /\ saves \in 0 .. MaxSaves
    /\ chats \in 0 .. MaxChats
    /\ faults \in 0 .. MaxFaults

\* Saves whose notice is still to be handled.
Pending ==
    \/ \E i \in DOMAIN queue : queue[i].kind = "mine"
    \/ pc = "handle" /\ unacked[Bot].kind = "mine"
    \/ \E s \in Saver : saving[s] \in {"open", "written"}

\* When every save was announced and every announcement is dealt with, the
\* running subscriber has what a fresh start would load: no interleaving of
\* writers, reloads, crashes and redeliveries leaves it with older rules.
SettledIsFresh ==
    pc \in {"idle", "handle", "ack"} /\ missed = 0 /\ ~Pending
      => rules = Loaded(disk)

\* A chat message sent after a PUT returned is never answered with rules older
\* than that PUT - except with the defaults, after a read that met a file
\* another save had just truncated.
NoOlderRules ==
    pc = "handle" /\ unacked[Bot].kind = "chat" /\ missed = 0
      => rules >= unacked[Bot].floor \/ rules = Defaults

\* The subscriber, if it stays up, ends with the rules of the file.
Converges ==
    <>[](pc # "down") /\ [](missed = 0) => <>[](rules = Loaded(disk))
=============================================================================

------------------------- MODULE ConfigReload_proofs -------------------------
(***************************************************************************)
(* Proofs about ConfigReload, for any number of requests, saves, chat      *)
(* messages and faults.  Two facts carry them.  The file is the last text  *)
(* written or one that loads as the defaults (FileIsLast), so a reload,    *)
(* whenever it happens, brings the newest rules or the defaults.  And what *)
(* a chat message must be answered with is announced ahead of it in the    *)
(* one queue both travel in (ReloadAhead).                                 *)
(***************************************************************************)
EXTENDS ConfigReload, SequenceTheorems, TLAPS

FileIsLast == disk \in {Empty, Mixed, writes}

\* The versions the requests, the responses and the chat messages know of are written.
Written ==
    /\ returned <= writes
    /\ \A s \in Saver : version[s] <= writes
    /\ \A i \in DOMAIN queue : queue[i].kind = "chat" => queue[i].floor <= returned
    /\ unacked[Bot] # Nothing /\ unacked[Bot].kind = "chat" => unacked[Bot].floor <= returned

\* A process that is down has no rules.
DownIsDefault == pc = "down" => rules = Defaults

\* A notice is in hand and not yet obeyed.
Reloading == pc = "handle" /\ unacked[Bot].kind = "mine"

\* SettledIsFresh, and before the queue is bound.
Settled == pc # "down" /\ missed = 0 /\ ~Pending => rules = Loaded(disk)

\* The rules are as new as the last response, or a notice is on its way.
NoticeAhead ==
    missed = 0 =>
        \/ rules = Defaults \/ rules >= returned \/ Reloading
        \/ \E j \in DOMAIN queue : queue[j].kind = "mine"

\* ... and on its way ahead of every chat message that needs it.
ReloadAhead ==
    missed = 0 =>
      \A i \in DOMAIN queue : queue[i].kind = "chat" =>
          \/ rules = Defaults \/ rules >= queue[i].floor \/ Reloading
          \/ \E j \in DOMAIN queue : j < i /\ queue[j].kind = "mine"

CInv == /\ TypeOK
        /\ FileIsLast /\ Written /\ DownIsDefault
        /\ Settled /\ NoticeAhead /\ ReloadAhead /\ NoOlderRules

USE ReloadAssumption

-----------------------------------------------------------------------------
(* The queue *)

\* Publishing puts a message behind the others.
LEMMA Appended ==
    ASSUME queue \in Seq(Item), NEW m \in Item, Inbox!Publish(m)
    PROVE  /\ queue' \in Seq(Item) /\ unacked' = unacked
           /\ \E n \in Nat : /\ \A i \in DOMAIN queue : i < n /\ queue'[i] = queue[i]
                             /\ DOMAIN queue' = DOMAIN queue \cup {n}
                             /\ queue'[n] = m
<1> DEFINE n == Len(queue) + 1
<1>1. /\ Len(queue) \in Nat /\ DOMAIN queue = 1 .. Len(queue)
      /\ queue' \in Seq(Item) /\ Len(queue') = n
      /\ \A i \in 1 .. Len(queue) : queue'[i] = queue[i]
      /\ queue'[n] = m
  BY AppendProperties, LenProperties DEF Inbox!Publish
<1>2. DOMAIN queue' = 1 .. n
  BY <1>1, LenProperties
<1>3. n \in Nat /\ DOMAIN queue' = DOMAIN queue \cup {n} /\ \A i \in DOMAIN queue : i < n
  BY <1>1, <1>2
<1> QED
  BY <1>1, <1>3 DEF Inbox!Publish

\* A delivery takes the first message.
LEMMA Delivered ==
    ASSUME Inbox!BrokerTypeOK, Inbox!Deliver(Bot)
    PROVE  /\ Inbox!BrokerTypeOK'
           /\ 1 \in DOMAIN queue /\ unacked'[Bot] = queue[1] /\ queue[1] \in Item
           /\ \A i \in DOMAIN queue' : i \in Nat /\ i + 1 \in DOMAIN queue
                                       /\ queue'[i] = queue[i + 1]
           /\ \A i \in DOMAIN queue : i \in Nat /\ (i = 1 \/ i - 1 \in DOMAIN queue')
<1>1. /\ queue \in Seq(Item) /\ queue # << >>
      /\ queue' = Tail(queue) /\ unacked' = [unacked EXCEPT ![Bot] = Head(queue)]
      /\ unacked \in [{Bot} -> Item \cup {Nothing}]
  BY DEF Inbox!BrokerTypeOK, Inbox!Deliver
<1>2. /\ Head(queue) \in Item /\ queue' \in Seq(Item) /\ Len(queue') = Len(queue) - 1
      /\ \A i \in 1 .. Len(queue') : queue'[i] = queue[i + 1]
  BY <1>1, HeadTailProperties
<1>3. /\ Len(queue) \in Nat \ {0} /\ DOMAIN queue = 1 .. Len(queue)
      /\ DOMAIN queue' = 1 .. Len(queue')
  BY <1>1, <1>2, LenProperties, EmptySeq
<1>4. Head(queue) = queue[1]
  BY <1>1
<1> QED
  BY <1>1, <1>2, <1>3, <1>4 DEF Inbox!BrokerTypeOK

\* A requeue puts the message in hand back.
LEMMA Requeued ==
    ASSUME Inbox!BrokerTypeOK, Inbox!Requeue(Bot)
    PROVE  /\ Inbox!BrokerTypeOK' /\ unacked'[Bot] = Nothing
           /\ \A i \in DOMAIN queue' :
                 \/ unacked[Bot] # Nothing /\ queue'[i] = unacked[Bot]
                 \/ \E j \in DOMAIN queue : queue'[i] = queue[j]
<1>1. queue \in Seq(Item) /\ unacked \in [{Bot} -> Item \cup {Nothing}]
  BY DEF Inbox!BrokerTypeOK
<1>2. unacked' \in [{Bot} -> Item \cup {Nothing}] /\ unacked'[Bot] = Nothing
  BY <1>1 DEF Inbox!Requeue
<1>3. CASE unacked[Bot] = Nothing
  BY <1>1, <1>2, <1>3 DEF Inbox!Requeue, Inbox!BrokerTypeOK
<1>4. CASE unacked[Bot] # Nothing
  <2>1. unacked[Bot] \in Item
    BY <1>1, <1>4
  <2>2. << unacked[Bot] >> \in Seq(Item)
    BY <2>1
  <2>3. PICK first \in Seq(Item) : first = << unacked[Bot] >>
    BY <2>2
  <2>4. queue' = first \o queue
    BY <1>4, <2>3 DEF Inbox!Requeue
  <2>5. /\ first \o queue \in Seq(Item) /\ Len(first \o queue) = Len(first) + Len(queue)
        /\ \A i \in 1 .. Len(first) + Len(queue) :
              (first \o queue)[i] = IF i <= Len(first) THEN first[i] ELSE queue[i - Len(first)]
    BY <1>1, ConcatProperties
  <2>6. /\ Len(queue) \in Nat /\ DOMAIN queue = 1 .. Len(queue)
        /\ DOMAIN queue' = 1 .. Len(queue')
    BY <1>1, <2>4, <2>5, LenProperties
  <2>7. Len(first) = 1 /\ first[1] = unacked[Bot]
    BY <2>3
  <2>8. ASSUME NEW i \in DOMAIN queue'
        PROVE  \/ queue'[i] = unacked[Bot]
               \/ \E j \in DOMAIN queue : queue'[i] = queue[j]
    <3>1. CASE i = 1
      BY <2>4, <2>5, <2>6, <2>7, <3>1
    <3>2. CASE i # 1
      <4>1. i - 1 \in DOMAIN queue /\ queue'[i] = queue[i - 1]
        BY <2>4, <2>5, <2>6, <2>7, <3>2
      <4> QED
        BY <4>1
    <3> QED
      BY <3>1, <3>2
  <2> QED
    BY <1>2, <1>4, <2>4, <2>5, <2>8 DEF Inbox!BrokerTypeOK
<1> QED
  BY <1>3, <1>4

-----------------------------------------------------------------------------
(* The inductive invariant *)

LEMMA CInit == Init => CInv
<1> SUFFICES ASSUME Init
             PROVE  CInv
  OBVIOUS
<1>1. TypeOK
  BY EmptySeq DEF Init, TypeOK, Inbox!BrokerInit, Inbox!BrokerTypeOK, Versions, Defaults
<1> QED
  BY <1>1 DEF Init, CInv, FileIsLast, Written, DownIsDefault, Settled, NoticeAhead,
              ReloadAhead, NoOlderRules, Inbox!BrokerInit

\* The requests of the GUI, before they answer: a save is pending from its
\* truncation on.
LEMMA WriterStep ==
    ASSUME CInv, NEW s \in Saver, Open(s) \/ Write(s)
    PROVE  CInv'
<1> USE DEF CInv
<1>1. CASE Open(s)
  <2>1. TypeOK'
    BY <1>1 DEF Open, inbox, bot, TypeOK, Inbox!BrokerTypeOK
  <2>2. FileIsLast' /\ Written' /\ DownIsDefault' /\ NoticeAhead' /\ ReloadAhead'
        /\ NoOlderRules'
    BY <1>1 DEF Open, inbox, bot, TypeOK, FileIsLast, Written, DownIsDefault, NoticeAhead,
                ReloadAhead, NoOlderRules, Reloading
  <2>3. Settled'
    BY <1>1 DEF Open, inbox, bot, TypeOK, Settled, Pending
  <2> QED
    BY <2>1, <2>2, <2>3
<1>2. CASE Write(s)
  <2>1. /\ writes' = writes + 1 /\ writes \in Nat \ {0}
        /\ disk' \in {writes', Mixed}
        /\ version' = [version EXCEPT ![s] = writes']
        /\ saving' = [saving EXCEPT ![s] = "written"]
        /\ UNCHANGED << queue, unacked, bound, returned, missed, pc, rules, saves, chats,
                       faults >>
    BY <1>2 DEF Write, inbox, bot, bounds, TypeOK, Versions
  <2>2. TypeOK'
    BY <2>1 DEF TypeOK, Inbox!BrokerTypeOK, Versions
  <2>3. Written'
    BY <2>1 DEF Written, TypeOK, Versions
  <2>4. FileIsLast' /\ DownIsDefault' /\ NoticeAhead' /\ ReloadAhead' /\ NoOlderRules'
    BY <2>1 DEF FileIsLast, DownIsDefault, NoticeAhead, ReloadAhead, NoOlderRules, Reloading
  <2>5. Settled'
    BY <2>1 DEF TypeOK, Settled, Pending
  <2> QED
    BY <2>2, <2>3, <2>4, <2>5
<1> QED
  BY <1>1, <1>2

\* The answer of a PUT, with or without its notice.
LEMMA AnnounceStep ==
    ASSUME CInv, NEW s \in Saver, Announce(s)
    PROVE  CInv'
<1> USE DEF CInv
<1>1. /\ saving' = [saving EXCEPT ![s] = "idle"]
      /\ returned' = IF saving[s] = "written" THEN Newer(returned, version[s]) ELSE returned
      /\ UNCHANGED << bound, disk, writes, version, pc, rules, saves, chats >>
      /\ saving[s] \in {"written", "other"}
  BY DEF Announce, file, bot
<1>2. returned' \in Versions /\ returned <= returned' /\ returned' <= writes
  BY <1>1 DEF TypeOK, Newer, Versions, Written
<1>3. CASE missed' = missed + 1 /\ UNCHANGED << queue, unacked >> /\ faults' \in 0 .. MaxFaults
  <2>1. TypeOK' /\ missed' # 0
    BY <1>1, <1>2, <1>3 DEF TypeOK, Inbox!BrokerTypeOK
  <2>2. Written'
    BY <1>1, <1>2, <1>3 DEF Written, TypeOK, Inbox!BrokerTypeOK, Item, Notice, Chat, Versions
  <2> QED
    BY <1>1, <1>3, <2>1, <2>2 DEF FileIsLast, DownIsDefault, Settled, NoticeAhead, ReloadAhead,
                                  NoOlderRules
<1>4. CASE missed' = missed /\ UNCHANGED << queue, unacked >> /\ faults' \in 0 .. MaxFaults
           /\ saving[s] = "other"
  <2>1. TypeOK' /\ returned' = returned
    BY <1>1, <1>2, <1>4 DEF TypeOK, Inbox!BrokerTypeOK
  <2>2. Settled'
    BY <1>1, <1>4 DEF Settled, Pending, TypeOK
  <2> QED
    BY <1>1, <1>4, <2>1, <2>2 DEF FileIsLast, Written, DownIsDefault, NoticeAhead, ReloadAhead,
                                  NoOlderRules, Reloading
<1>5. CASE /\ bound /\ missed' = missed /\ faults' = faults
           /\ Inbox!Publish([kind |-> IF saving[s] = "written" THEN "mine" ELSE "other"])
  <2>1. PICK m \in Notice : /\ m.kind = IF saving[s] = "written" THEN "mine" ELSE "other"
                            /\ Inbox!Publish(m)
    BY <1>1, <1>5 DEF Notice
  <2>2. PICK n \in Nat : /\ queue' \in Seq(Item) /\ unacked' = unacked
                         /\ \A i \in DOMAIN queue : i < n /\ queue'[i] = queue[i]
                         /\ DOMAIN queue' = DOMAIN queue \cup {n}
                         /\ queue'[n] = m
    BY <2>1, Appended DEF TypeOK, Inbox!BrokerTypeOK, Item
  <2>3. m.kind # "chat" /\ (saving[s] = "written" => m.kind = "mine")
    BY <2>1
  <2>4. \A i \in DOMAIN queue : queue[i].kind = "chat" => queue[i].floor \in Nat
    BY LenProperties DEF TypeOK, Inbox!BrokerTypeOK, Item, Notice, Chat, Versions
  <2>5. TypeOK'
    BY <1>1, <1>2, <1>5, <2>2 DEF TypeOK, Inbox!BrokerTypeOK
  <2>6. Written'
    BY <1>1, <1>2, <2>2, <2>3, <2>4
       DEF Written, TypeOK, Inbox!BrokerTypeOK, Item, Notice, Chat, Versions
  <2>7. Settled'
    <3>1. CASE saving[s] = "written"
      BY <2>2, <2>3, <3>1 DEF Settled, Pending
    <3>2. CASE saving[s] # "written"
      BY <1>1, <1>5, <2>2, <3>2 DEF Settled, Pending, TypeOK
    <3> QED
      BY <3>1, <3>2
  <2>8. NoticeAhead'
    <3>1. CASE saving[s] = "written"
      BY <2>2, <2>3, <3>1 DEF NoticeAhead
    <3>2. CASE saving[s] # "written"
      BY <1>1, <1>5, <2>2, <3>2 DEF NoticeAhead, Reloading
    <3> QED
      BY <3>1, <3>2
  <2>9. ReloadAhead'
    BY <1>1, <1>5, <2>2, <2>3 DEF ReloadAhead, Reloading
  <2> QED
    BY <1>1, <1>5, <2>2, <2>5, <2>6, <2>7, <2>8, <2>9
       DEF FileIsLast, DownIsDefault, NoOlderRules
<1> QED
  BY <1>3, <1>4, <1>5 DEF Announce, Route, TypeOK

\* The GUI dies: whatever was under way is never announced.
LEMMA GuiCrashStep == ASSUME CInv, GuiCrash PROVE CInv'
<1> USE DEF CInv
<1>1. /\ saving' = [s \in Saver |-> "idle"]
      /\ missed' \in Nat /\ (missed' = 0 => missed = 0)
      /\ missed' = 0 => \A s \in Saver : saving[s] \notin {"open", "written"}
      /\ UNCHANGED << queue, unacked, bound, disk, writes, version, returned, pc, rules,
                     saves, chats >>
      /\ faults' \in 0 .. MaxFaults
  BY DEF GuiCrash, inbox, file, bot, TypeOK
<1>2. TypeOK'
  BY <1>1 DEF TypeOK, Inbox!BrokerTypeOK
<1>3. Settled'
  BY <1>1 DEF Settled, Pending
<1> QED
  BY <1>1, <1>2, <1>3 DEF FileIsLast, Written, DownIsDefault, NoticeAhead, ReloadAhead,
                          NoOlderRules, Reloading

\* Whenever the file is loaded, the rules are the defaults or at least as new as
\* every version known anywhere.
LEMMA LoadIsNewest ==
    ASSUME CInv
    PROVE  /\ Loaded(disk) \in Versions \cup {Defaults}
           /\ Loaded(disk) = Defaults \/ Loaded(disk) >= returned
           /\ \A i \in DOMAIN queue : queue[i].kind = "chat" =>
                 Loaded(disk) = Defaults \/ Loaded(disk) >= queue[i].floor
<1>1. returned \in Nat /\ writes \in Nat \ {0} /\ returned <= writes
  BY DEF CInv, TypeOK, Versions, Written
<1>2. Loaded(disk) \in {Defaults, writes}
  BY <1>1 DEF CInv, FileIsLast, Loaded, Empty, Mixed
<1>3. \A i \in DOMAIN queue : queue[i].kind = "chat" =>
          queue[i].floor \in Nat /\ queue[i].floor <= returned
  BY LenProperties DEF CInv, TypeOK, Inbox!BrokerTypeOK, Item, Notice, Chat, Versions, Written
<1> QED
  BY <1>1, <1>2, <1>3 DEF Versions

\* The subscriber starts with the file.
LEMMA StartStep == ASSUME CInv, Start \/ Bind PROVE CInv'
<1> USE DEF CInv
<1>1. CASE Start
  <2>1. /\ pc = "down" /\ pc' = "loading" /\ rules' = Loaded(disk)
        /\ UNCHANGED << queue, unacked, bound, disk, writes, saving, version, returned,
                       missed, saves, chats, faults >>
    BY <1>1 DEF Start, inbox, file, gui, bounds
  <2>2. TypeOK'
    BY <2>1, LoadIsNewest DEF TypeOK, Inbox!BrokerTypeOK
  <2>3. NoticeAhead' /\ ReloadAhead'
    BY <2>1, LoadIsNewest DEF NoticeAhead, ReloadAhead
  <2> QED
    BY <2>1, <2>2, <2>3 DEF FileIsLast, Written, DownIsDefault, Settled, NoOlderRules
<1>2. CASE Bind
  <2>1. /\ pc = "loading" /\ pc' = "idle" /\ bound' = TRUE
        /\ UNCHANGED << queue, unacked, disk, writes, saving, version, returned, missed,
                       rules, saves, chats, faults >>
    BY <1>2 DEF Bind, file, gui, bounds
  <2>2. TypeOK'
    BY <2>1 DEF TypeOK, Inbox!BrokerTypeOK
  <2>3. Settled'
    BY <2>1 DEF Settled, Pending
  <2> QED
    BY <2>1, <2>2, <2>3 DEF FileIsLast, Written, DownIsDefault, NoticeAhead, ReloadAhead,
                            NoOlderRules, Reloading
<1> QED
  BY <1>1, <1>2

\* A delivery: what was ahead in the queue is now in hand.
LEMMA ReceiveStep == ASSUME CInv, Receive PROVE CInv'
<1> USE DEF CInv
<1>1. /\ pc = "idle" /\ pc' = "handle"
      /\ UNCHANGED << bound, disk, writes, saving, version, returned, missed, rules, saves,
                     chats, faults >>
      /\ Inbox!Deliver(Bot)
  BY DEF Receive, file, gui, bounds
<1>2. /\ Inbox!BrokerTypeOK'
      /\ 1 \in DOMAIN queue /\ unacked'[Bot] = queue[1] /\ queue[1] \in Item
      /\ \A i \in DOMAIN queue' : i \in Nat /\ i + 1 \in DOMAIN queue
                                  /\ queue'[i] = queue[i + 1]
      /\ \A i \in DOMAIN queue : i \in Nat /\ (i = 1 \/ i - 1 \in DOMAIN queue')
  BY <1>1, Delivered DEF TypeOK
<1>3. \A i \in DOMAIN queue : i = 1 \/ queue'[i - 1] = queue[i]
  <2> SUFFICES ASSUME NEW i \in DOMAIN queue, i # 1
               PROVE  queue'[i - 1] = queue[i]
    OBVIOUS
  <2>1. i \in Nat /\ i - 1 \in DOMAIN queue'
    BY <1>2
  <2>2. queue'[i - 1] = queue[(i - 1) + 1]
    BY <1>2, <2>1
  <2> QED
    BY <2>1, <2>2
<1>4. TypeOK'
  BY <1>1, <1>2 DEF TypeOK
<1>5. Written'
  BY <1>1, <1>2 DEF Written
<1>6. (\E j \in DOMAIN queue : queue[j].kind = "mine") =>
        Reloading' \/ \E j \in DOMAIN queue' : queue'[j].kind = "mine"
  BY <1>1, <1>2, <1>3 DEF Reloading
<1>7. Settled'
  BY <1>1, <1>6 DEF Settled, Pending, Reloading
<1>8. NoticeAhead'
  BY <1>1, <1>6 DEF NoticeAhead, Reloading
<1>9. ReloadAhead'
  <2> SUFFICES ASSUME missed = 0, NEW i \in DOMAIN queue', queue'[i].kind = "chat",
                      rules # Defaults, ~ (rules >= queue'[i].floor)
               PROVE  Reloading' \/ \E j \in DOMAIN queue' : j < i /\ queue'[j].kind = "mine"
    BY <1>1 DEF ReloadAhead
  <2>1. i \in Nat /\ i + 1 \in DOMAIN queue /\ queue'[i] = queue[i + 1]
    BY <1>2
  <2>2. PICK j \in DOMAIN queue : j < i + 1 /\ queue[j].kind = "mine"
    BY <1>1, <2>1 DEF ReloadAhead, Reloading
  <2>3. CASE j = 1
    BY <1>1, <1>2, <2>2, <2>3 DEF Reloading
  <2>4. CASE j # 1
    <3>1. j \in Nat /\ j - 1 \in DOMAIN queue' /\ j - 1 < i /\ queue'[j - 1].kind = "mine"
      BY <1>2, <1>3, <2>1, <2>2, <2>4
    <3> QED
      BY <3>1
  <2> QED
    BY <2>3, <2>4
<1>10. NoOlderRules'
  <2> SUFFICES ASSUME queue[1].kind = "chat", missed = 0
               PROVE  rules >= queue[1].floor \/ rules = Defaults
    BY <1>1, <1>2 DEF NoOlderRules
  <2>1. ~ \E j \in DOMAIN queue : j < 1 /\ queue[j].kind = "mine"
    BY <1>2
  <2> QED
    BY <1>1, <1>2, <2>1 DEF ReloadAhead, Reloading
<1> QED
  BY <1>1, <1>4, <1>5, <1>7, <1>8, <1>9, <1>10 DEF FileIsLast, DownIsDefault

\* A notice for this module reloads the file; what else is in hand changes nothing.
LEMMA HandleStep == ASSUME CInv, HandleNotice \/ HandleChat \/ Done PROVE CInv'
<1> USE DEF CInv
<1>1. CASE HandleNotice /\ unacked[Bot].kind = "mine"
  <2>1. /\ pc = "handle" /\ pc' = "ack" /\ rules' = Loaded(disk)
        /\ UNCHANGED << queue, unacked, bound, disk, writes, saving, version, returned,
                       missed, saves, chats, faults >>
    BY <1>1 DEF HandleNotice, inbox, file, gui, bounds
  <2>2. TypeOK'
    BY <2>1, LoadIsNewest DEF TypeOK, Inbox!BrokerTypeOK
  <2>3. NoticeAhead' /\ ReloadAhead'
    BY <2>1, LoadIsNewest DEF NoticeAhead, ReloadAhead
  <2> QED
    BY <2>1, <2>2, <2>3 DEF FileIsLast, Written, DownIsDefault, Settled, NoOlderRules
<1>2. CASE (HandleNotice /\ unacked[Bot].kind # "mine") \/ HandleChat
  <2>1. /\ pc = "handle" /\ pc' = "ack" /\ unacked[Bot].kind # "mine"
        /\ UNCHANGED << queue, unacked, bound, disk, writes, saving, version, returned,
                       missed, rules, saves, chats, faults >>
    BY <1>2 DEF HandleNotice, HandleChat, inbox, file, gui, bounds
  <2>2. TypeOK'
    BY <2>1 DEF TypeOK, Inbox!BrokerTypeOK
  <2>3. Settled'
    BY <2>1 DEF Settled, Pending
  <2> QED
    BY <2>1, <2>2, <2>3 DEF FileIsLast, Written, DownIsDefault, NoticeAhead, ReloadAhead,
                            NoOlderRules, Reloading
<1>3. CASE Done
  <2>1. /\ pc = "ack" /\ pc' = "idle" /\ Inbox!Ack(Bot)
        /\ UNCHANGED << queue, bound, disk, writes, saving, version, returned, missed, rules,
                       saves, chats, faults >>
    BY <1>3 DEF Done, Inbox!Ack, file, gui, bounds
  <2>2. unacked' = [unacked EXCEPT ![Bot] = Nothing] /\ unacked'[Bot] = Nothing
    BY <2>1 DEF Inbox!Ack, TypeOK, Inbox!BrokerTypeOK
  <2>3. TypeOK'
    BY <2>1, <2>2 DEF TypeOK, Inbox!BrokerTypeOK
  <2>4. Settled'
    BY <2>1 DEF Settled, Pending
  <2> QED
    BY <2>1, <2>2, <2>3, <2>4 DEF FileIsLast, Written, DownIsDefault, NoticeAhead,
                                  ReloadAhead, NoOlderRules, Reloading
<1> QED
  BY <1>1, <1>2, <1>3

\* The subscriber dies with its rules; the message in hand is queued again.
LEMMA CrashStep == ASSUME CInv, Crash PROVE CInv'
<1> USE DEF CInv
<1>1. /\ pc' = "down" /\ rules' = Defaults /\ faults' \in 0 .. MaxFaults
      /\ UNCHANGED << bound, disk, writes, saving, version, returned, missed, saves, chats >>
      /\ Inbox!Requeue(Bot)
  BY DEF Crash, file, gui, TypeOK
<1>2. /\ Inbox!BrokerTypeOK' /\ unacked'[Bot] = Nothing
      /\ \A i \in DOMAIN queue' :
            \/ unacked[Bot] # Nothing /\ queue'[i] = unacked[Bot]
            \/ \E j \in DOMAIN queue : queue'[i] = queue[j]
  BY <1>1, Requeued DEF TypeOK
<1>3. TypeOK'
  BY <1>1, <1>2 DEF TypeOK
<1>4. Written'
  BY <1>1, <1>2 DEF Written
<1> QED
  BY <1>1, <1>3, <1>4 DEF FileIsLast, DownIsDefault, Settled, NoticeAhead, ReloadAhead,
                          NoOlderRules

\* A chat message is queued behind the notices of all the PUTs that returned.
LEMMA SayStep == ASSUME CInv, Say PROVE CInv'
<1> USE DEF CInv
<1>1. /\ UNCHANGED << bound, disk, writes, saving, version, returned, missed, pc, rules, saves,
                     faults >>
      /\ chats' \in 0 .. MaxChats
  BY DEF Say, file, gui, bot, TypeOK
<1>2. CASE UNCHANGED << queue, unacked >>
  BY <1>1, <1>2 DEF TypeOK, Inbox!BrokerTypeOK, FileIsLast, Written, DownIsDefault, Settled,
                    Pending, NoticeAhead, ReloadAhead, NoOlderRules, Reloading
<1>3. CASE Inbox!Publish([kind |-> "chat", floor |-> returned])
  <2>1. PICK m \in Chat : m.kind = "chat" /\ m.floor = returned /\ Inbox!Publish(m)
    BY <1>3 DEF Chat, TypeOK
  <2>2. PICK n \in Nat : /\ queue' \in Seq(Item) /\ unacked' = unacked
                         /\ \A i \in DOMAIN queue : i < n /\ queue'[i] = queue[i]
                         /\ DOMAIN queue' = DOMAIN queue \cup {n}
                         /\ queue'[n] = m
    BY <2>1, Appended DEF TypeOK, Inbox!BrokerTypeOK, Item
  <2>3. TypeOK'
    BY <1>1, <2>2 DEF TypeOK, Inbox!BrokerTypeOK
  <2>4. Written'
    BY <1>1, <2>1, <2>2 DEF Written, TypeOK, Versions
  <2>5. Settled'
    BY <1>1, <2>1, <2>2 DEF Settled, Pending
  <2>6. NoticeAhead'
    BY <1>1, <2>1, <2>2 DEF NoticeAhead, Reloading
  <2>7. ReloadAhead'
    BY <1>1, <2>1, <2>2 DEF NoticeAhead, ReloadAhead, Reloading
  <2> QED
    BY <1>1, <2>2, <2>3, <2>4, <2>5, <2>6, <2>7 DEF FileIsLast, DownIsDefault, NoOlderRules
<1> QED
  BY <1>2, <1>3 DEF Say, Route

LEMMA CStep == CInv /\ [Next]_vars => CInv'
<1> SUFFICES ASSUME CInv, [Next]_vars
             PROVE  CInv'
  OBVIOUS
<1>1. CASE UNCHANGED vars
  BY <1>1 DEF vars, inbox, file, gui, bot, bounds, CInv, TypeOK, Inbox!BrokerTypeOK,
              FileIsLast, Written, DownIsDefault, Settled, Pending, NoticeAhead, ReloadAhead,
              NoOlderRules, Reloading
<1> QED
  BY <1>1, WriterStep, AnnounceStep, GuiCrashStep, StartStep, ReceiveStep, HandleStep,
     CrashStep, SayStep DEF Next, Save, Consume

-----------------------------------------------------------------------------
(* Theorems *)

\* The inductive invariant holds of every reachable state.
LEMMA Invariance == Spec => []CInv
  BY CInit, CStep, PTL DEF Spec

\* Hot reload: every reachable state is well typed.
THEOREM Typing == Spec => []TypeOK
<1>1. CInv => TypeOK
  BY DEF CInv
<1> QED
  BY <1>1, Invariance, PTL

\* _handle_config_changed: with every save announced and every announcement dealt with,
\* the subscriber has what a fresh start would load.
THEOREM Fresh == Spec => []SettledIsFresh
<1>1. CInv => SettledIsFresh
  BY DEF CInv, Settled, SettledIsFresh
<1> QED
  BY <1>1, Invariance, PTL

\* process_payload: no chat message is answered with rules older than the PUTs that
\* had returned when it was sent, the defaults apart.
THEOREM NotOlder == Spec => []NoOlderRules
<1>1. CInv => NoOlderRules
  BY DEF CInv
<1> QED
  BY <1>1, Invariance, PTL
=============================================================================

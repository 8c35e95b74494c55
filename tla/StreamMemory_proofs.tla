------------------------ MODULE StreamMemory_proofs ------------------------
(***************************************************************************)
(* Proofs about StreamMemory, for any channels, tables and environments,   *)
(* and any number of messages, repairs and crashes.                        *)
(*                                                                         *)
(* The half of NothingLost about acknowledged messages needs what each     *)
(* consumer has already stored of the message in its hand (RecorderKeeps,  *)
(* QaKeeps) and what became of every claim (ClaimsKept).  The half about   *)
(* marks needs that a summary is of its records' source (SummarySources),  *)
(* that the sources of the batch that are done are covered (BatchCovered), *)
(* and how far the repair has come (RepairOrder, MarkedCovered): what it   *)
(* uncovers is in its hand, or is going to be unmarked by its last step.   *)
(*                                                                         *)
(* RepeatsOnlyAfterFault needs an account of each record (RepeatInv): its  *)
(* summaries, the one still to come (Opened) and the one a repair under    *)
(* way may ask for again (Owed) are together paid by the faults and the    *)
(* repairs so far.  A fault reopens the batch in hand, a repair pays when  *)
(* it starts for what it unmarks later.                                    *)
(***************************************************************************)
EXTENDS StreamMemory, FiniteSetTheorems, SequenceTheorems, WellFoundedInduction, TLAPS

\* What the recorder has in its hand is a record, unless it is blank.
RecorderKeeps ==
    recorder # "idle" =>
        \/ recorder = "done" /\ Head(inbox).blank
        \/ \E i \in Ids : records[i].msg = Head(inbox).msg

\* What the QA writer is about to acknowledge as its own is kept.
QaKeeps ==
    /\ qa \in {"stored", "written"} => Recorded(Head(replies).msg)
    /\ qa = "skip" /\ Head(replies).ours =>
            Recorded(Head(replies).msg) \/ Head(replies).msg \in orphans

ClaimsKept ==
    \A m \in claims : \/ Recorded(m) \/ m \in orphans
                      \/ qa \in {"claimed", "activated"} /\ m = Head(replies).msg

AckedKept == \A m \in acked : Recorded(m) \/ m \in orphans

SummarySources ==
    \A k \in DOMAIN summaries : summaries[k].src # "qa" =>
        \A i \in summaries[k].ids : i \in Ids /\ records[i].src = summaries[k].src

BatchCovered ==
    ~disturbed /\ batch # {} =>
        /\ repair = "idle"
        /\ \A i \in batch : /\ records[i].sess = session
                            /\ records[i].src \notin todo => Covered(i)

RepairOrder ==
    /\ repair # "idle" =>
         \A k \in subject.doomed : summaries[k].sess = subject.sess /\ summaries[k].src = "chat"
    /\ repair = "migrate" => Foreign(subject.sess) \subseteq subject.moving
    /\ repair = "unmark" => Foreign(subject.sess) \subseteq subject.moving \ {Min(subject.moving)}
    /\ repair \in {"delete", "reset"} => Foreign(subject.sess) = {}

MarkedCovered ==
    ~disturbed => \A i \in Ids : records[i].marked =>
        \/ Covered(i)
        \/ repair = "unmark" /\ i = Min(subject.moving)
        \/ /\ repair \in {"delete", "reset"}
           /\ records[i].sess = subject.sess /\ records[i].src = "chat"
           /\ records[i].chan = subject.sess[1]

Keeping  == RecorderKeeps /\ QaKeeps /\ ClaimsKept /\ AckedKept
Covering == SummarySources /\ BatchCovered /\ RepairOrder /\ MarkedCovered
MInv == TypeOK /\ Keeping /\ Covering

-----------------------------------------------------------------------------
(* Numbers and sequences *)

\* The order of the natural numbers, as the library has it.
LEMMA LessThan ==
    ASSUME NEW x \in Nat, NEW y \in Nat
    PROVE  << y, x >> \notin OpToRel(<, Nat) => x <= y
<1>1. OpToRel(<, Nat) = {ss \in Nat \X Nat : ss[1] < ss[2]}
  BY DEF OpToRel
<1>2. << y, x >> \in Nat \X Nat /\ << y, x >>[1] = y /\ << y, x >>[2] = x
  OBVIOUS
<1>3. ~(y < x) => x <= y
  OBVIOUS
<1> QED
  BY <1>1, <1>2, <1>3

\* A set of natural numbers has its Min among its elements.
LEMMA MinIn ==
    ASSUME NEW S, S \subseteq Nat, S # {}
    PROVE  Min(S) \in S
<1>1. PICK x \in S : \A y \in S : << y, x >> \notin OpToRel(<, Nat)
  BY NatLessThanWellFounded, WFMin
<1>2. \A y \in S : x <= y
  BY <1>1, LessThan
<1> QED
  BY <1>2 DEF Min

\* So has a bounded one its largest.
LEMMA LargestIn ==
    ASSUME NEW S, NEW n \in Nat, S \subseteq 0 .. n, S # {}
    PROVE  \E x \in S : \A y \in S : y <= x
<1> DEFINE T == {n - x : x \in S}
<1>1. \A x \in S : n - x \in T /\ n - x \in Nat
  OBVIOUS
<1>2. T \subseteq Nat /\ T # {}
  BY <1>1
<1>3. Min(T) \in T /\ \A t \in T : Min(T) <= t
  <2> HIDE DEF T
  <2>1. PICK t \in T : \A y \in T : << y, t >> \notin OpToRel(<, Nat)
    BY <1>2, NatLessThanWellFounded, WFMin
  <2>2. \A y \in T : t <= y
    BY <1>2, <2>1, LessThan
  <2> QED
    BY <2>2 DEF Min
<1>4. PICK x \in S : Min(T) = n - x
  <2>1. \A t \in T : \E x \in S : t = n - x
    OBVIOUS
  <2> HIDE DEF T
  <2> QED
    BY <1>3, <2>1
<1>5. \A y \in S : n - x <= n - y
  BY <1>1, <1>3, <1>4
<1> QED
  BY <1>5

LEMMA MaxIn ==
    ASSUME NEW S, NEW n \in Nat, S \subseteq 0 .. n, S # {}
    PROVE  Max(S) \in S
<1>1. \E x \in S : \A y \in S : x >= y
  BY LargestIn
<1> QED
  BY <1>1 DEF Max

LEMMA AppendFacts ==
    ASSUME NEW S, NEW s \in Seq(S), NEW e \in S
    PROVE  /\ Append(s, e) \in Seq(S)
           /\ DOMAIN Append(s, e) = DOMAIN s \cup {Len(s) + 1}
           /\ Len(s) + 1 \notin DOMAIN s
           /\ \A i \in DOMAIN s : Append(s, e)[i] = s[i]
           /\ Append(s, e)[Len(s) + 1] = e
           /\ Append(s, e) # << >>
           /\ s # << >> => Head(Append(s, e)) = Head(s)
<1>1. /\ Append(s, e) \in Seq(S) /\ Len(Append(s, e)) = Len(s) + 1
      /\ \A i \in 1 .. Len(s) : Append(s, e)[i] = s[i]
      /\ Append(s, e)[Len(s) + 1] = e
  BY AppendProperties
<1>2. Len(s) \in Nat /\ DOMAIN s = 1 .. Len(s)
      /\ DOMAIN Append(s, e) = 1 .. Len(s) + 1
  BY <1>1, LenProperties
<1>3. Append(s, e) # << >>
  BY AppendProperties
<1>4. s # << >> => Head(Append(s, e)) = Head(s)
  BY <1>1, <1>2, <1>3, HeadTailProperties, EmptySeq
<1> QED
  BY <1>1, <1>2, <1>3, <1>4

LEMMA HeadFacts ==
    ASSUME NEW S, NEW s \in Seq(S), s # << >>
    PROVE  Head(s) \in S /\ Tail(s) \in Seq(S)
BY HeadTailProperties

\* Ids is an interval, and what has its shape is a sequence again.
LEMMA IdsFacts ==
    ASSUME records \in Seq(Stored)
    PROVE  /\ Len(records) \in Nat /\ Ids = 1 .. Len(records)
           /\ \A i \in Ids : records[i] \in Stored
           /\ \A f \in [Ids -> Stored] : f \in Seq(Stored) /\ DOMAIN f = Ids
BY LenProperties, ElementOfSeq, SeqDef DEF Ids

-----------------------------------------------------------------------------
(* The type invariant *)

\* resolve_session_id answers with a session of the channel.
LEMMA WriterType ==
    ASSUME TypeOK, NEW c \in Channel
    PROVE  WriterSession(c) \in Session /\ WriterSession(c)[1] = c
BY MemoryAssumption DEF TypeOK, EnvironmentOK, WriterSession, Session

LEMMA WorkerType ==
    ASSUME TypeOK
    PROVE  WorkerSession \in Session \cup {Nothing}
<1>1. config.explicit \in Session \cup {Nothing} /\ config.channel \in Channel \cup {Nothing}
  BY MemoryAssumption DEF TypeOK, EnvironmentOK, StoreOK
<1>2. ASSUME NEW S \in SUBSET Ids
      PROVE  LatestOf(S) \in Session \cup {Nothing}
  <2>1. CASE S = {}
    BY <2>1 DEF LatestOf
  <2>2. CASE S # {}
    <3>1. Len(records) \in Nat /\ S \subseteq 0 .. Len(records)
      BY IdsFacts DEF TypeOK, EnvironmentOK, StoreOK
    <3>2. \E i \in S : \A j \in S : j <= i
      BY <2>2, <3>1, LargestIn
    <3>3. LatestOf(S) = records[CHOOSE i \in S : \A j \in S : j <= i].sess
      BY <2>2 DEF LatestOf
    <3>4. (CHOOSE i \in S : \A j \in S : j <= i) \in S
      BY <3>2
    <3> QED
      BY <3>3, <3>4, IdsFacts DEF TypeOK, EnvironmentOK, StoreOK, Stored
  <2> QED
    BY <2>1, <2>2
<1>3. LatestOf(Ids) \in Session \cup {Nothing}
  BY <1>2
<1>4. ASSUME NEW c \in Channel
      PROVE  checkpoint[c] \in Session \cup {Nothing} /\ << c, day >> \in Session
  BY DEF TypeOK, EnvironmentOK, StoreOK, Session
<1>5. ASSUME NEW c \in Channel
      PROVE  LatestOf({i \in Ids : records[i].chan = c \/ records[i].sess[1] = c})
                 \in Session \cup {Nothing}
  BY <1>2
<1>6. CASE config.explicit # Nothing
           /\ (config.channel = Nothing \/ config.explicit[1] = config.channel)
  <2>1. WorkerSession = config.explicit
    BY <1>6 DEF WorkerSession
  <2> QED
    BY <1>1, <2>1
<1>7. CASE /\ ~(/\ config.explicit # Nothing
                /\ config.channel = Nothing \/ config.explicit[1] = config.channel)
           /\ config.channel = Nothing
  <2>1. WorkerSession = LatestOf(Ids)
    BY <1>7 DEF WorkerSession
  <2> QED
    BY <1>3, <2>1
<1>8. CASE /\ ~(/\ config.explicit # Nothing
                /\ config.channel = Nothing \/ config.explicit[1] = config.channel)
           /\ config.channel # Nothing
  <2> DEFINE own == {i \in Ids : records[i].chan = config.channel
                                  \/ records[i].sess[1] = config.channel}
  <2>1. config.channel \in Channel
    BY <1>1, <1>8
  <2>2. WorkerSession = IF checkpoint[config.channel] # Nothing THEN checkpoint[config.channel]
                        ELSE IF own = {} THEN << config.channel, day >> ELSE LatestOf(own)
    BY <1>8 DEF WorkerSession
  <2>3. LatestOf(own) \in Session \cup {Nothing}
    BY <1>5, <2>1
  <2> HIDE DEF own
  <2> QED
    BY <1>4, <2>1, <2>2, <2>3
<1> QED
  BY <1>6, <1>7, <1>8

\* append_chat adds an unmarked row and changes no other.
LEMMA RecordAppended ==
    ASSUME TypeOK, NEW c \in Channel, NEW s \in Session, NEW src \in {"chat", "stt"},
           NEW m \in Nat, AppendRecord(c, s, src, m)
    PROVE  /\ records' \in Seq(Stored)
           /\ Ids' = Ids \cup {Len(records) + 1} /\ Len(records) + 1 \notin Ids
           /\ \A i \in Ids : records'[i] = records[i]
           /\ records'[Len(records) + 1] =
                [chan |-> c, sess |-> s, src |-> src, msg |-> m, marked |-> FALSE]
<1>1. [chan |-> c, sess |-> s, src |-> src, msg |-> m, marked |-> FALSE] \in Stored
  BY DEF Stored
<1> QED
  BY <1>1, AppendFacts DEF AppendRecord, TypeOK, StoreOK, Ids

\* mark_summarized and unmark_summarized change the marks of S only.
LEMMA MarksSet ==
    ASSUME TypeOK, NEW S, NEW value \in BOOLEAN, SetMarked(S, value)
    PROVE  /\ records' \in Seq(Stored) /\ Ids' = Ids
           /\ \A i \in Ids : /\ records'[i].chan = records[i].chan
                             /\ records'[i].sess = records[i].sess
                             /\ records'[i].src = records[i].src
                             /\ records'[i].msg = records[i].msg
                             /\ i \in S => records'[i].marked = value
                             /\ i \notin S => records'[i].marked = records[i].marked
<1>1. \A i \in Ids : records[i] \in Stored
  BY IdsFacts DEF TypeOK, EnvironmentOK, StoreOK
<1>2. \A i \in Ids : (IF i \in S THEN [records[i] EXCEPT !.marked = value] ELSE records[i]) \in Stored
  BY <1>1 DEF Stored
<1>3. records' \in [Ids -> Stored]
  BY <1>2 DEF SetMarked
<1>4. records' \in Seq(Stored) /\ DOMAIN records' = Ids
  BY <1>3, IdsFacts DEF TypeOK, EnvironmentOK, StoreOK
<1>5. ASSUME NEW i \in Ids
      PROVE  /\ records'[i].chan = records[i].chan
             /\ records'[i].sess = records[i].sess
             /\ records'[i].src = records[i].src
             /\ records'[i].msg = records[i].msg
             /\ i \in S => records'[i].marked = value
             /\ i \notin S => records'[i].marked = records[i].marked
  <2>1. records'[i] = IF i \in S THEN [records[i] EXCEPT !.marked = value] ELSE records[i]
    BY DEF SetMarked
  <2> QED
    BY <1>1, <2>1 DEF Stored
<1> QED
  BY <1>4, <1>5 DEF Ids

\* save_summary adds one and changes no other.
LEMMA SummaryAppended ==
    ASSUME TypeOK, NEW e \in Summary, summaries' = Append(summaries, e)
    PROVE  /\ summaries' \in Seq(Summary)
           /\ DOMAIN summaries' = DOMAIN summaries \cup {Len(summaries) + 1}
           /\ Len(summaries) + 1 \notin DOMAIN summaries
           /\ \A k \in DOMAIN summaries : summaries'[k] = summaries[k]
           /\ summaries'[Len(summaries) + 1] = e
BY AppendFacts DEF TypeOK, EnvironmentOK, StoreOK

\* What a step leaves alone, or lets grow, keeps its types.
LEMMA RecordingFrame ==
    RecordingOK /\ UNCHANGED recording => RecordingOK'
BY DEF RecordingOK, recording

LEMMA AnsweringFrame ==
    AnsweringOK /\ UNCHANGED answering => AnsweringOK'
BY DEF AnsweringOK, answering

LEMMA WorkerFrame ==
    WorkerOK /\ UNCHANGED << requests, handle, cycle >> /\ Ids \subseteq Ids' => WorkerOK'
BY DEF WorkerOK, handle, cycle

LEMMA RepairFrame ==
    /\ RepairOK /\ UNCHANGED repairer
    /\ Ids \subseteq Ids' /\ DOMAIN summaries \subseteq DOMAIN summaries'
    => RepairOK'
BY DEF RepairOK, repairer

LEMMA StoreFrame ==
    /\ UNCHANGED records => Ids' = Ids
    /\ UNCHANGED summaries => DOMAIN summaries' = DOMAIN summaries
    /\ UNCHANGED store => UNCHANGED << records, summaries, checkpoint >>
    /\ StoreOK /\ UNCHANGED store => StoreOK'
    /\ EnvironmentOK /\ UNCHANGED environment => EnvironmentOK'
BY DEF Ids, store, StoreOK, environment, EnvironmentOK

LEMMA FaultType ==
    EnvironmentOK /\ (Fault \/ Send) => EnvironmentOK' /\ sent' \in Nat
BY DEF Fault, Send, EnvironmentOK

LEMMA EnvironmentTypes ==
    ASSUME TypeOK,
           \/ NextDay
           \/ \E c \in config.heard, src \in {"chat", "stt"}, blank \in BOOLEAN : Speak(c, src, blank)
           \/ \E c \in config.heard, ours \in BOOLEAN, s \in Known \cup {Nothing} : Reply(c, ours, s)
           \/ \E s \in Known \cup {Nothing} : Request(s)
    PROVE  TypeOK'
<1> USE DEF TypeOK
<1>1. config.heard \subseteq Channel /\ MaxDay \in Nat /\ day \in Nat
  BY MemoryAssumption DEF EnvironmentOK
<1>2. Known \cup {Nothing} \subseteq Session \cup {Nothing}
  BY <1>1 DEF Known, Session, EnvironmentOK
<1>3. CASE NextDay
  <2>1. EnvironmentOK'
    BY <1>1, <1>3 DEF NextDay, EnvironmentOK
  <2> QED
    BY <1>3, <2>1, StoreFrame, RecordingFrame, AnsweringFrame, WorkerFrame, RepairFrame DEF NextDay
<1>4. ASSUME NEW c \in config.heard, NEW src \in {"chat", "stt"}, NEW blank \in BOOLEAN,
             Speak(c, src, blank)
      PROVE  TypeOK'
  <2>1. Send
    BY <1>4 DEF Speak
  <2>2. [msg |-> sent + 1, chan |-> c, src |-> src, blank |-> blank] \in Spoken
    BY <1>1, <2>1, FaultType DEF Spoken, Send
  <2>3. inbox' \in Seq(Spoken) /\ inbox' # << >>
    BY <1>4, <2>2, AppendFacts DEF Speak, RecordingOK
  <2>4. RecordingOK'
    BY <1>4, <2>3 DEF Speak, RecordingOK
  <2> QED
    BY <1>4, <2>1, <2>4, FaultType, StoreFrame, AnsweringFrame, WorkerFrame, RepairFrame DEF Speak
<1>5. ASSUME NEW c \in config.heard, NEW ours \in BOOLEAN, NEW s \in Known \cup {Nothing},
             Reply(c, ours, s)
      PROVE  TypeOK'
  <2>1. Send
    BY <1>5 DEF Reply
  <2>2. [msg |-> sent + 1, chan |-> c, ours |-> ours, sess |-> s] \in Answer
    BY <1>1, <1>2, <2>1, FaultType DEF Answer, Send
  <2>3. replies' \in Seq(Answer) /\ replies' # << >>
    BY <1>5, <2>2, AppendFacts DEF Reply, AnsweringOK
  <2>4. AnsweringOK'
    BY <1>5, <2>3 DEF Reply, AnsweringOK
  <2> QED
    BY <1>5, <2>1, <2>4, FaultType, StoreFrame, RecordingFrame, WorkerFrame, RepairFrame DEF Reply
<1>6. ASSUME NEW s \in Known \cup {Nothing}, Request(s)
      PROVE  TypeOK'
  <2>1. requests' \in Seq(Session \cup {Nothing})
    BY <1>2, <1>6, AppendFacts DEF Request, WorkerOK
  <2>2. WorkerOK'
    BY <1>6, <2>1, StoreFrame DEF Request, WorkerOK, handle, cycle
  <2> QED
    BY <1>6, <2>2, FaultType, StoreFrame, RecordingFrame, AnsweringFrame, RepairFrame DEF Request
<1> QED
  BY <1>3, <1>4, <1>5, <1>6

LEMMA RecorderTypes ==
    ASSUME TypeOK, RecorderKeeps, RecorderNext \/ RecorderCrash
    PROVE  TypeOK'
<1> USE DEF TypeOK
<1>1. inbox # << >> => Head(inbox) \in Spoken /\ Tail(inbox) \in Seq(Spoken)
  BY HeadFacts DEF RecordingOK
<1>2. CASE Record
  <2>1. Head(inbox) \in Spoken /\ inbox # << >>
    BY <1>1, <1>2 DEF Record
  <2>2. RecordingOK' /\ UNCHANGED << summaries, checkpoint >>
    BY <1>2, <2>1 DEF Record, RecordingOK
  <2>3. records' \in Seq(Stored) /\ Ids \subseteq Ids'
    <3>1. CASE Head(inbox).blank
      BY <1>2, <2>1, <3>1, StoreFrame DEF Record, StoreOK
    <3>2. CASE ~Head(inbox).blank
      <4>1. WriterSession(Head(inbox).chan) \in Session
        BY <2>1, WriterType DEF Spoken
      <4> QED
        BY <1>2, <2>1, <3>2, <4>1, RecordAppended DEF Record, Spoken
    <3> QED
      BY <3>1, <3>2
  <2>4. StoreOK'
    BY <2>2, <2>3 DEF StoreOK
  <2> QED
    BY <1>2, <2>2, <2>3, <2>4, StoreFrame, AnsweringFrame, WorkerFrame, RepairFrame DEF Record
<1>3. CASE Activate
  <2> DEFINE S == {i \in Ids : records[i].msg = Head(inbox).msg}
  <2>1. inbox # << >>
    BY <1>3 DEF Activate, RecordingOK
  <2>2. S # {}
    BY <1>3, <2>1 DEF Activate, RecorderKeeps
  <2>3. Len(records) \in Nat /\ S \subseteq 0 .. Len(records)
    BY IdsFacts DEF StoreOK
  <2>4. Max(S) \in S
    <3> HIDE DEF S
    <3> QED BY <2>2, <2>3, MaxIn
  <2>5. records[Max(S)] \in Stored
    BY <2>4, IdsFacts DEF StoreOK
  <2>6. checkpoint' \in [Channel -> Session \cup {Nothing}]
    BY <1>3, <2>5 DEF Activate, StoreOK, Stored
  <2>7. StoreOK' /\ RecordingOK'
    BY <1>3, <2>1, <2>6 DEF Activate, StoreOK, RecordingOK
  <2> QED
    BY <1>3, <2>7, StoreFrame, AnsweringFrame, WorkerFrame, RepairFrame DEF Activate
<1>4. CASE RecordAck
  <2>1. RecordingOK'
    BY <1>1, <1>4 DEF RecordAck, RecordingOK, Spoken
  <2> QED
    BY <1>4, <2>1, StoreFrame, AnsweringFrame, WorkerFrame, RepairFrame DEF RecordAck
<1>5. CASE RecorderCrash
  <2>1. RecordingOK'
    BY <1>5 DEF RecorderCrash, RecordingOK
  <2> QED
    BY <1>5, <2>1, FaultType, StoreFrame, AnsweringFrame, WorkerFrame, RepairFrame DEF RecorderCrash
<1> QED
  BY <1>2, <1>3, <1>4, <1>5 DEF RecorderNext

\* StructuredQaMemoryWriter.handle saves one summary for the answer.
LEMMA QaSummary ==
    ASSUME TypeOK, QaStructuredWrite
    PROVE  \E e \in Summary : /\ summaries' = Append(summaries, e) /\ UNCHANGED records
                              /\ e.src = "qa" /\ e.ids = {Head(replies).msg}
<1> DEFINE e == [sess |-> filed, src |-> "qa", period |-> << 0, 0 >>,
                 ids |-> {Head(replies).msg}, kept |-> TRUE]
<1>1. Head(replies) \in Answer /\ filed \in Session
  BY HeadFacts DEF QaStructuredWrite, TypeOK, AnsweringOK
<1>2. e \in Summary /\ e.src = "qa" /\ e.ids = {Head(replies).msg}
  BY <1>1 DEF Summary, Answer
<1>3. summaries' = Append(summaries, e) /\ UNCHANGED records
  BY DEF QaStructuredWrite
<1> HIDE DEF e
<1> QED
  BY <1>2, <1>3

LEMMA QaTypes ==
    ASSUME TypeOK, QaNext \/ QaFails \/ QaCrash
    PROVE  TypeOK'
<1> USE DEF TypeOK
<1>1. replies # << >> => Head(replies) \in Answer /\ Tail(replies) \in Seq(Answer)
                         /\ Head(replies).msg \in Nat
  <2>1. replies # << >> => Head(replies) \in Answer /\ Tail(replies) \in Seq(Answer)
    BY HeadFacts DEF AnsweringOK
  <2> QED
    BY <2>1 DEF Answer
<1>2. CASE QaClaim
  <2>1. AnsweringOK'
    BY <1>1, <1>2 DEF QaClaim, AnsweringOK
  <2> QED
    BY <1>2, <2>1, StoreFrame, RecordingFrame, WorkerFrame, RepairFrame DEF QaClaim
<1>3. CASE QaBatchWrite
  <2>1. Head(replies) \in Answer /\ replies # << >>
    BY <1>1, <1>3 DEF QaBatchWrite, AnsweringOK
  <2>2. CASE Head(replies).ours
    <3>1. WriterSession(Head(replies).chan) \in Session
      BY <2>1, WriterType DEF Answer
    <3>2. records' \in Seq(Stored) /\ Ids \subseteq Ids'
      BY <1>3, <2>1, <2>2, <3>1, RecordAppended DEF QaBatchWrite, Answer
    <3>3. StoreOK'
      BY <1>3, <2>1, <2>2, <3>1, <3>2 DEF QaBatchWrite, StoreOK, Answer
    <3>4. AnsweringOK'
      <4>1. WriterSession(Head(replies).chan) # Nothing
        BY <3>1, MemoryAssumption
      <4> QED
        BY <1>3, <2>1, <2>2, <3>1, <4>1 DEF QaBatchWrite, AnsweringOK
    <3> QED
      BY <1>3, <3>2, <3>3, <3>4, StoreFrame, RecordingFrame, WorkerFrame, RepairFrame DEF QaBatchWrite
  <2>3. CASE ~Head(replies).ours
    <3>1. AnsweringOK' /\ UNCHANGED << records, checkpoint, summaries >>
      BY <1>3, <2>1, <2>3 DEF QaBatchWrite, AnsweringOK
    <3>2. StoreOK'
      BY <3>1 DEF StoreOK
    <3> QED
      BY <1>3, <3>1, <3>2, StoreFrame, RecordingFrame, WorkerFrame, RepairFrame DEF QaBatchWrite
  <2> QED
    BY <2>2, <2>3
<1>4. CASE QaStructuredWrite
  <2>1. replies # << >> /\ filed # Nothing
    BY <1>4 DEF QaStructuredWrite, AnsweringOK
  <2>2. summaries' \in Seq(Summary) /\ DOMAIN summaries \subseteq DOMAIN summaries'
    BY <1>4, QaSummary, SummaryAppended
  <2>3. StoreOK'
    BY <1>4, <2>2 DEF QaStructuredWrite, StoreOK
  <2>4. AnsweringOK'
    BY <1>4, <2>1 DEF QaStructuredWrite, AnsweringOK
  <2> QED
    BY <1>4, <2>2, <2>3, <2>4, StoreFrame, RecordingFrame, WorkerFrame, RepairFrame
    DEF QaStructuredWrite
<1>8. CASE QaBatchActivate \/ QaStructuredActivate
  <2>1. Head(replies) \in Answer /\ replies # << >>
    BY <1>1, <1>8 DEF QaBatchActivate, QaStructuredActivate, AnsweringOK
  <2>2. \E s \in Session : checkpoint' = [checkpoint EXCEPT ![Head(replies).chan] = s]
    <3>1. CASE QaBatchActivate
      BY <3>1 DEF QaBatchActivate, AnsweringOK
    <3>2. CASE QaStructuredActivate
      <4>1. filed' \in Session
        BY <2>1, <3>2, WriterType DEF QaStructuredActivate, Answer
      <4> QED
        BY <3>2, <4>1 DEF QaStructuredActivate
    <3> QED
      BY <1>8, <3>1, <3>2
  <2>3. checkpoint' \in [Channel -> Session \cup {Nothing}]
    BY <2>1, <2>2 DEF StoreOK, Answer
  <2>4. StoreOK'
    BY <1>8, <2>3 DEF QaBatchActivate, QaStructuredActivate, StoreOK
  <2>5. AnsweringOK'
    <3>1. CASE QaBatchActivate
      BY <2>1, <3>1 DEF QaBatchActivate, AnsweringOK
    <3>2. CASE QaStructuredActivate
      <4>1. filed' \in Session
        BY <2>1, <3>2, WriterType DEF QaStructuredActivate, Answer
      <4>2. filed' # Nothing
        BY <4>1, MemoryAssumption
      <4> QED
        BY <2>1, <3>2, <4>1, <4>2 DEF QaStructuredActivate, AnsweringOK
    <3> QED
      BY <1>8, <3>1, <3>2
  <2> QED
    BY <1>8, <2>4, <2>5, StoreFrame, RecordingFrame, WorkerFrame, RepairFrame
    DEF QaBatchActivate, QaStructuredActivate
<1>5. CASE QaAck
  <2>1. replies # << >>
    BY <1>5 DEF QaAck, AnsweringOK
  <2>2. AnsweringOK' /\ RecordingOK'
    BY <1>1, <1>5, <2>1 DEF QaAck, AnsweringOK, RecordingOK
  <2> QED
    BY <1>5, <2>2, StoreFrame, WorkerFrame, RepairFrame DEF QaAck
<1>6. CASE QaFails
  <2>1. AnsweringOK'
    BY <1>6 DEF QaFails, AnsweringOK
  <2> QED
    BY <1>6, <2>1, FaultType, StoreFrame, RecordingFrame, WorkerFrame, RepairFrame DEF QaFails
<1>7. CASE QaCrash
  <2>1. AnsweringOK'
    BY <1>1, <1>7 DEF QaCrash, AnsweringOK
  <2> QED
    BY <1>7, <2>1, FaultType, StoreFrame, RecordingFrame, WorkerFrame, RepairFrame DEF QaCrash
<1> QED
  BY <1>2, <1>3, <1>4, <1>5, <1>6, <1>7, <1>8 DEF QaNext

\* AfterCycle leads out of the cycle.
LEMMA AfterCycleIn ==
    ASSUME NEW found
    PROVE  AfterCycle(found) \in {"wait", "start", "down"}
<1>1. CASE config.run = "scheduled"
  BY <1>1 DEF AfterCycle
<1>2. CASE config.run # "scheduled" /\ config.run = "until_empty" /\ found
  BY <1>2 DEF AfterCycle
<1>3. CASE config.run # "scheduled" /\ ~(config.run = "until_empty" /\ found)
  BY <1>3 DEF AfterCycle
<1> QED
  BY <1>1, <1>2, <1>3

\* The source of the next summary of the batch.
NextSource == IF "chat" \in todo THEN "chat" ELSE "stt"

NewSummary ==
    [sess |-> session, src |-> NextSource, period |-> << Min(batch), Max(batch) >>,
     ids |-> {i \in batch : records[i].src = NextSource}, kept |-> TRUE]

LEMMA SummarySaved ==
    ASSUME TypeOK, SaveSummary
    PROVE  /\ NewSummary \in Summary /\ NextSource \in todo
           /\ summaries' = Append(summaries, NewSummary) /\ todo' = todo \ {NextSource}
<1>1. worker = "save" /\ batch # {} /\ todo # {} /\ todo \subseteq {"chat", "stt"}
      /\ batch \subseteq Ids /\ session \in Session
  BY DEF SaveSummary, TypeOK, WorkerOK
<1>2. Len(records) \in Nat /\ batch \subseteq 0 .. Len(records) /\ batch \subseteq Nat
  BY <1>1, IdsFacts DEF TypeOK, StoreOK
<1>3. Min(batch) \in Nat /\ Max(batch) \in Nat
  BY <1>1, <1>2, MinIn, MaxIn
<1>4. NextSource \in todo
  BY <1>1 DEF NextSource
<1>5. NewSummary \in Summary
  BY <1>1, <1>2, <1>3, <1>4 DEF NewSummary, Summary
<1>6. summaries' = Append(summaries, NewSummary) /\ todo' = todo \ {NextSource}
  BY DEF SaveSummary, NewSummary, NextSource
<1> QED
  BY <1>4, <1>5, <1>6

LEMMA WorkerTypes ==
    ASSUME TypeOK, WorkerStart \/ Signal \/ WorkerNext \/ WorkerFails
    PROVE  TypeOK'
<1> USE DEF TypeOK
<1> USE StoreFrame, RecordingFrame, AnsweringFrame, RepairFrame
<1>1. CASE WorkerStart
  <2>1. WorkerOK'
    BY <1>1 DEF WorkerStart, WorkerOK
  <2> QED
    BY <1>1, <2>1 DEF WorkerStart
<1>2. CASE Signal
  <2>1. Head(requests) \in Session \cup {Nothing} /\ Tail(requests) \in Seq(Session \cup {Nothing})
    BY <1>2, HeadFacts DEF Signal, WorkerOK
  <2>2. WorkerOK'
    BY <1>2, <2>1 DEF Signal, WorkerOK, cycle
  <2> QED
    BY <1>2, <2>2 DEF Signal
<1>3. CASE RunOnce
  <2>1. session' \in Session \cup {Nothing} /\ batch = {} /\ todo = {}
    BY <1>3, WorkerType DEF RunOnce, WorkerOK
  <2>2. WorkerOK'
    <3>1. CASE session' = Nothing
      BY <1>3, <2>1, <3>1, AfterCycleIn DEF RunOnce, WorkerOK, handle
    <3>2. CASE session' # Nothing
      BY <1>3, <2>1, <3>2 DEF RunOnce, WorkerOK, handle
    <3> QED
      BY <3>1, <3>2
  <2> QED
    BY <1>3, <2>2 DEF RunOnce
<1>4. CASE Fetch
  <2>1. batch' \subseteq Ids /\ Ids' = Ids /\ DOMAIN summaries' = DOMAIN summaries
    BY <1>4 DEF Fetch, Unsummarized
  <2>2. todo' \subseteq {"chat", "stt"} /\ (todo' # {} <=> batch' # {})
    BY <1>4, <2>1, IdsFacts DEF Fetch, StoreOK, Stored
  <2>3. WorkerOK'
    <3>1. CASE batch' = {}
      BY <1>4, <2>1, <2>2, <3>1, AfterCycleIn DEF Fetch, WorkerOK, handle
    <3>2. CASE batch' # {}
      BY <1>4, <2>1, <2>2, <3>2 DEF Fetch, WorkerOK, handle
    <3> QED
      BY <3>1, <3>2
  <2>4. RepairOK'
    BY <1>4, <2>1 DEF Fetch, RepairOK
  <2> QED
    BY <1>4, <2>3, <2>4 DEF Fetch
<1>5. CASE SaveSummary
  <2>1. /\ summaries' \in Seq(Summary) /\ DOMAIN summaries \subseteq DOMAIN summaries'
        /\ todo' \subseteq todo
    BY <1>5, SummarySaved, SummaryAppended
  <2>2. StoreOK' /\ Ids' = Ids
    BY <1>5, <2>1 DEF SaveSummary, StoreOK
  <2>3. WorkerOK'
    BY <1>5, <2>1, <2>2 DEF SaveSummary, WorkerOK, handle
  <2> QED
    BY <1>5, <2>1, <2>2, <2>3 DEF SaveSummary
<1>6. CASE Mark
  <2>1. records' \in Seq(Stored) /\ Ids' = Ids
    BY <1>6, MarksSet DEF Mark
  <2>2. StoreOK'
    BY <1>6, <2>1 DEF Mark, StoreOK
  <2>3. WorkerOK'
    BY <1>6, <2>1, AfterCycleIn DEF Mark, WorkerOK, handle
  <2> QED
    BY <1>6, <2>1, <2>2, <2>3 DEF Mark
<1>7. CASE Wake
  <2>1. WorkerOK'
    BY <1>7 DEF Wake, WorkerOK, handle
  <2> QED
    BY <1>7, <2>1 DEF Wake
<1>8. CASE Clear
  <2>1. WorkerOK'
    BY <1>8 DEF Clear, WorkerOK
  <2> QED
    BY <1>8, <2>1 DEF Clear
<1>9. CASE Consume
  <2>1. WorkerOK'
    BY <1>9 DEF Consume, WorkerOK
  <2> QED
    BY <1>9, <2>1 DEF Consume
<1>10. CASE WorkerFails
  <2>1. WorkerOK'
    BY <1>10 DEF WorkerFails, WorkerOK
  <2> QED
    BY <1>10, <2>1, FaultType DEF WorkerFails
<1> QED
  BY <1>1, <1>2, <1>3, <1>4, <1>5, <1>6, <1>7, <1>8, <1>9, <1>10 DEF WorkerNext

\* relocate_records moves one record to the session of its channel.
LEMMA RecordMoved ==
    ASSUME TypeOK, NEW i \in Ids,
           records' = [records EXCEPT ![i].sess = << records[i].chan, records[i].sess[2] >>]
    PROVE  /\ records' \in Seq(Stored) /\ Ids' = Ids
           /\ \A j \in Ids \ {i} : records'[j] = records[j]
           /\ records'[i].sess[1] = records[i].chan
           /\ \A j \in Ids : /\ records'[j].chan = records[j].chan
                             /\ records'[j].src = records[j].src
                             /\ records'[j].msg = records[j].msg
                             /\ records'[j].marked = records[j].marked
<1>1. \A j \in Ids : records[j] \in Stored
  BY IdsFacts DEF TypeOK, StoreOK
<1>2. << records[i].chan, records[i].sess[2] >> \in Session
  BY <1>1 DEF Stored, Session
<1>3. records' = [j \in Ids |-> IF j = i THEN [records[i] EXCEPT !.sess = << records[i].chan, records[i].sess[2] >>]
                                 ELSE records[j]]
  BY LenProperties DEF TypeOK, StoreOK, Ids
<1>4. [records[i] EXCEPT !.sess = << records[i].chan, records[i].sess[2] >>] \in Stored
  BY <1>1, <1>2 DEF Stored
<1>5. records' \in [Ids -> Stored]
  BY <1>1, <1>3, <1>4
<1>6. records' \in Seq(Stored) /\ Ids' = Ids
  BY <1>5, IdsFacts DEF TypeOK, StoreOK, Ids
<1> QED
  BY <1>1, <1>3, <1>6 DEF Stored

\* delete_summary: the summary is not kept any more.
LEMMA SummaryDropped ==
    ASSUME TypeOK, NEW k \in DOMAIN summaries,
           summaries' = [summaries EXCEPT ![k].kept = FALSE]
    PROVE  /\ summaries' \in Seq(Summary) /\ DOMAIN summaries' = DOMAIN summaries
           /\ \A j \in DOMAIN summaries \ {k} : summaries'[j] = summaries[j]
           /\ \A j \in DOMAIN summaries : /\ summaries'[j].sess = summaries[j].sess
                                          /\ summaries'[j].src = summaries[j].src
                                          /\ summaries'[j].ids = summaries[j].ids
<1>1. /\ Len(summaries) \in Nat /\ DOMAIN summaries = 1 .. Len(summaries)
      /\ summaries \in [DOMAIN summaries -> Summary]
  BY LenProperties DEF TypeOK, StoreOK
<1>2. [summaries[k] EXCEPT !.kept = FALSE] \in Summary
  BY <1>1, ZenonT(30) DEF Summary
<1>3. /\ summaries' \in [DOMAIN summaries -> Summary]
      /\ \A j \in DOMAIN summaries \ {k} : summaries'[j] = summaries[j]
      /\ summaries'[k] = [summaries[k] EXCEPT !.kept = FALSE]
  BY <1>1, <1>2
<1>4. summaries' \in Seq(Summary)
  BY <1>1, <1>3, SeqDef
<1> QED
  BY <1>1, <1>3, <1>4 DEF Summary

LEMMA RepairTypes ==
    ASSUME TypeOK, RepairNext \/ RepairCrash \/ (\E s \in Session : RepairStart(s))
    PROVE  TypeOK'
<1> USE DEF TypeOK
<1> USE StoreFrame, RecordingFrame, AnsweringFrame, WorkerFrame
<1>0. Ids \subseteq Nat /\ DOMAIN summaries \subseteq Nat
  BY IdsFacts, LenProperties DEF StoreOK
<1>1. ASSUME NEW s \in Session, RepairStart(s)
      PROVE  TypeOK'
  <2>1. Contaminated(s) \subseteq DOMAIN summaries /\ Foreign(s) \subseteq Ids
    BY DEF Contaminated, Foreign
  <2>2. s # Nothing
    BY MemoryAssumption
  <2>3. RepairOK'
    BY <1>0, <1>1, <2>1, <2>2 DEF RepairStart, RepairOK
  <2>4. EnvironmentOK'
    BY <1>1 DEF RepairStart, EnvironmentOK
  <2> QED
    BY <1>1, <2>3, <2>4 DEF RepairStart
<1>2. CASE Relocate
  <2>1. CASE subject.moving = {}
    <3>1. RepairOK' /\ UNCHANGED << records, summaries, checkpoint >>
      BY <1>2, <2>1 DEF Relocate, RepairOK
    <3> QED
      BY <1>2, <3>1 DEF Relocate, StoreOK
  <2>2. CASE subject.moving # {}
    <3>1. Min(subject.moving) \in Ids
      BY <1>0, <2>2, MinIn DEF RepairOK
    <3>2. records' \in Seq(Stored) /\ Ids' = Ids
      BY <1>2, <2>2, <3>1, RecordMoved DEF Relocate
    <3>3. StoreOK' /\ RepairOK'
      BY <1>2, <2>2, <3>2 DEF Relocate, StoreOK, RepairOK
    <3> QED
      BY <1>2, <3>2, <3>3 DEF Relocate
  <2> QED
    BY <2>1, <2>2
<1>3. CASE Unmark
  <2>1. records' \in Seq(Stored) /\ Ids' = Ids
    BY <1>3, MarksSet DEF Unmark
  <2>2. StoreOK' /\ RepairOK'
    BY <1>3, <2>1 DEF Unmark, StoreOK, RepairOK
  <2> QED
    BY <1>3, <2>1, <2>2 DEF Unmark
<1>4. CASE Delete
  <2>1. CASE subject.doomed = {}
    <3>1. RepairOK' /\ UNCHANGED << records, summaries, checkpoint >>
      BY <1>4, <2>1 DEF Delete, RepairOK
    <3> QED
      BY <1>4, <3>1 DEF Delete, StoreOK
  <2>2. CASE subject.doomed # {}
    <3>1. Min(subject.doomed) \in DOMAIN summaries
      BY <1>0, <2>2, MinIn DEF RepairOK
    <3>2. summaries' \in Seq(Summary) /\ DOMAIN summaries' = DOMAIN summaries
      BY <1>4, <2>2, <3>1, SummaryDropped DEF Delete
    <3>3. StoreOK' /\ RepairOK' /\ Ids' = Ids
      BY <1>4, <2>2, <3>2, SMTT(30) DEF Delete, StoreOK, RepairOK
    <3> QED
      BY <1>4, <3>2, <3>3 DEF Delete
  <2> QED
    BY <2>1, <2>2
<1>5. CASE Reset
  <2>1. records' \in Seq(Stored) /\ Ids' = Ids
    BY <1>5, MarksSet DEF Reset
  <2>2. StoreOK' /\ RepairOK'
    BY <1>5, <2>1 DEF Reset, NoRepair, StoreOK, RepairOK
  <2> QED
    BY <1>5, <2>1, <2>2 DEF Reset
<1>6. CASE RepairCrash
  <2>1. RepairOK'
    BY <1>6 DEF RepairCrash, NoRepair, RepairOK
  <2> QED
    BY <1>6, <2>1, FaultType DEF RepairCrash
<1> QED
  BY <1>1, <1>2, <1>3, <1>4, <1>5, <1>6 DEF RepairNext

-----------------------------------------------------------------------------
(* The store only grows *)

\* Whatever a step does to records and summaries, who wrote them and what they
\* are about stays.
Grows ==
    /\ Ids \subseteq Ids'
    /\ \A i \in Ids : /\ records'[i].chan = records[i].chan
                      /\ records'[i].src = records[i].src
                      /\ records'[i].msg = records[i].msg
    /\ DOMAIN summaries \subseteq DOMAIN summaries'
    /\ \A k \in DOMAIN summaries : /\ summaries'[k].sess = summaries[k].sess
                                   /\ summaries'[k].src = summaries[k].src
                                   /\ summaries'[k].ids = summaries[k].ids

LEMMA StoreGrows ==
    ASSUME TypeOK, [Next]_vars
    PROVE  Grows
<1>1. CASE UNCHANGED << records, summaries >>
  BY <1>1 DEF Grows, Ids
<1>2. CASE Record
  <2>1. CASE Head(inbox).blank
    BY <1>1, <1>2, <2>1 DEF Record
  <2>2. CASE ~Head(inbox).blank
    <3>1. Head(inbox) \in Spoken
      BY <1>2, HeadFacts DEF Record, TypeOK, RecordingOK
    <3>2. WriterSession(Head(inbox).chan) \in Session
      BY <3>1, WriterType DEF Spoken
    <3> QED
      BY <1>2, <2>2, <3>1, <3>2, RecordAppended DEF Record, Grows, Spoken
  <2> QED
    BY <2>1, <2>2
<1>3. CASE QaBatchWrite
  <2>1. CASE Head(replies).ours
    <3>1. Head(replies) \in Answer
      BY <1>3, HeadFacts DEF QaBatchWrite, TypeOK, AnsweringOK
    <3>2. WriterSession(Head(replies).chan) \in Session
      BY <3>1, WriterType DEF Answer
    <3> QED
      BY <1>3, <2>1, <3>1, <3>2, RecordAppended DEF QaBatchWrite, Grows, Answer
  <2>2. CASE ~Head(replies).ours
    BY <1>1, <1>3, <2>2 DEF QaBatchWrite
  <2> QED
    BY <2>1, <2>2
<1>4. CASE QaStructuredWrite
  <2>1. \E e \in Summary : summaries' = Append(summaries, e) /\ UNCHANGED records
    BY <1>4, QaSummary
  <2> QED
    BY <2>1, SummaryAppended DEF Grows, Ids
<1>5. CASE SaveSummary
  <2>1. \E e \in Summary : summaries' = Append(summaries, e) /\ UNCHANGED records
    BY <1>5, SummarySaved DEF SaveSummary
  <2> QED
    BY <2>1, SummaryAppended DEF Grows, Ids
<1>6. CASE Mark
  BY <1>6, MarksSet DEF Mark, Grows
<1>7. CASE Unmark
  BY <1>7, MarksSet DEF Unmark, Grows
<1>8. CASE Reset
  BY <1>8, MarksSet DEF Reset, Grows
<1>9. CASE Relocate
  <2>1. CASE subject.moving = {}
    BY <1>1, <1>9, <2>1 DEF Relocate
  <2>2. CASE subject.moving # {}
    <3>1. Min(subject.moving) \in Ids
      BY <2>2, MinIn, IdsFacts DEF TypeOK, RepairOK, StoreOK
    <3> QED
      BY <1>9, <2>2, <3>1, RecordMoved DEF Relocate, Grows
  <2> QED
    BY <2>1, <2>2
<1>10. CASE Delete
  <2>1. CASE subject.doomed = {}
    BY <1>1, <1>10, <2>1 DEF Delete
  <2>2. CASE subject.doomed # {}
    <3>1. Min(subject.doomed) \in DOMAIN summaries
      BY <2>2, MinIn, LenProperties DEF TypeOK, RepairOK, StoreOK
    <3> QED
      BY <1>10, <2>2, <3>1, SummaryDropped DEF Delete, Grows, Ids
  <2> QED
    BY <2>1, <2>2
<1> QED
  BY <1>1, <1>2, <1>3, <1>4, <1>5, <1>6, <1>7, <1>8, <1>9, <1>10
  DEF Next, vars, store, NextDay, Speak, Reply, Request, RecorderNext, Activate, RecordAck,
      RecorderCrash, QaNext, QaClaim, QaBatchActivate, QaStructuredActivate, QaAck, QaFails, QaCrash,
      WorkerStart, Signal, WorkerNext,
      RunOnce, Fetch, Wake, Clear, Consume, WorkerFails, RepairStart, RepairNext, RepairCrash

\* What was kept of a message is kept.
LEMMA RecordedStays ==
    ASSUME Grows, NEW m, Recorded(m)
    PROVE  Recorded(m)'
BY DEF Grows, Recorded

-----------------------------------------------------------------------------
(* What is acknowledged is kept *)

LEMMA KeepingByOthers ==
    ASSUME Keeping, Grows, UNCHANGED << recording, answering >>
    PROVE  Keeping'
<1>1. \A m : Recorded(m) => Recorded(m)'
  BY RecordedStays
<1>2. RecorderKeeps'
  BY DEF Keeping, RecorderKeeps, Grows, recording
<1>3. QaKeeps'
  BY <1>1 DEF Keeping, QaKeeps, answering
<1>4. ClaimsKept' /\ AckedKept'
  BY <1>1 DEF Keeping, ClaimsKept, AckedKept, answering, recording
<1> QED
  BY <1>2, <1>3, <1>4 DEF Keeping

\* A message arrives behind the one in hand.
LEMMA KeepingByNews ==
    ASSUME TypeOK, Keeping, Grows, UNCHANGED << recorder, acked, qa, filed, claims, orphans >>,
           \/ \E m \in Spoken : inbox' = Append(inbox, m) /\ UNCHANGED replies
           \/ \E m \in Answer : replies' = Append(replies, m) /\ UNCHANGED inbox
    PROVE  Keeping'
<1>1. \A m : Recorded(m) => Recorded(m)'
  BY RecordedStays
<1>2. /\ recorder # "idle" => Head(inbox') = Head(inbox)
      /\ qa # "idle" => Head(replies') = Head(replies)
  BY AppendFacts DEF TypeOK, RecordingOK, AnsweringOK
<1>3. RecorderKeeps'
  BY <1>2 DEF Keeping, RecorderKeeps, Grows
<1>4. QaKeeps'
  BY <1>1, <1>2 DEF Keeping, QaKeeps
<1>5. ClaimsKept' /\ AckedKept'
  BY <1>1, <1>2 DEF Keeping, ClaimsKept, AckedKept
<1> QED
  BY <1>3, <1>4, <1>5 DEF Keeping

LEMMA KeepingByRecorder ==
    ASSUME MInv, Grows, RecorderNext \/ RecorderCrash
    PROVE  Keeping'
<1>1. \A m : Recorded(m) => Recorded(m)'
  BY RecordedStays
<1>2. QaKeeps' /\ ClaimsKept'
  <2>1. UNCHANGED answering
    BY DEF RecorderNext, RecorderCrash, Record, Activate, RecordAck
  <2> QED
    BY <1>1, <2>1 DEF MInv, Keeping, QaKeeps, ClaimsKept, answering
<1>3. CASE Record
  <2>1. inbox' = inbox /\ acked' = acked /\ orphans' = orphans
    BY <1>3 DEF Record, answering
  <2>2. CASE Head(inbox).blank
    BY <1>1, <1>2, <1>3, <2>1, <2>2 DEF Record, MInv, Keeping, RecorderKeeps, AckedKept
  <2>3. CASE ~Head(inbox).blank
    <3>1. Head(inbox) \in Spoken
      BY <1>3, HeadFacts DEF Record, MInv, TypeOK, RecordingOK
    <3>2. WriterSession(Head(inbox).chan) \in Session
      BY <3>1, WriterType DEF Spoken, MInv
    <3>3. \E i \in Ids' : records'[i].msg = Head(inbox).msg
      <4>1. TypeOK /\ AppendRecord(Head(inbox).chan, WriterSession(Head(inbox).chan),
                                   Head(inbox).src, Head(inbox).msg)
        BY <1>3, <2>3 DEF Record, MInv
      <4>2. /\ Len(records) + 1 \in Ids'
            /\ records'[Len(records) + 1].msg = Head(inbox).msg
        <5>1. /\ Head(inbox).chan \in Channel /\ Head(inbox).msg \in Nat
              /\ Head(inbox).src \in {"chat", "stt"}
          BY <3>1 DEF Spoken
        <5>2. /\ Ids' = Ids \cup {Len(records) + 1}
              /\ records'[Len(records) + 1] =
                   [chan |-> Head(inbox).chan, sess |-> WriterSession(Head(inbox).chan),
                    src |-> Head(inbox).src, msg |-> Head(inbox).msg, marked |-> FALSE]
          BY <3>2, <4>1, <5>1, RecordAppended
        <5> QED
          BY <5>2
      <4> QED
        BY <4>2
    <3> QED
      BY <1>1, <1>2, <2>1, <3>3 DEF MInv, Keeping, RecorderKeeps, AckedKept
  <2> QED
    BY <2>2, <2>3
<1>4. CASE Activate
  <2>1. RecorderKeeps'
    BY <1>4 DEF Activate, MInv, Keeping, RecorderKeeps, Ids
  <2> QED
    BY <1>1, <1>2, <1>4, <2>1 DEF Activate, MInv, Keeping, AckedKept, answering
<1>5. CASE RecordAck
  <2>1. Head(inbox).blank \/ Recorded(Head(inbox).msg)
    BY <1>5 DEF RecordAck, MInv, Keeping, RecorderKeeps, Recorded
  <2>2. AckedKept'
    BY <1>1, <1>5, <2>1 DEF RecordAck, MInv, Keeping, AckedKept, answering
  <2> QED
    BY <1>2, <1>5, <2>2 DEF RecordAck, Keeping, RecorderKeeps
<1>6. CASE RecorderCrash
  BY <1>1, <1>2, <1>6 DEF RecorderCrash, MInv, Keeping, RecorderKeeps, AckedKept, answering
<1> QED
  BY <1>3, <1>4, <1>5, <1>6 DEF RecorderNext

LEMMA KeepingByQa ==
    ASSUME MInv, Grows, QaNext \/ QaFails \/ QaCrash
    PROVE  Keeping'
<1>1. \A m : Recorded(m) => Recorded(m)'
  BY RecordedStays
<1>2. RecorderKeeps'
  <2>1. UNCHANGED << inbox, recorder >>
    BY DEF QaNext, QaFails, QaCrash, QaClaim, QaBatchWrite, QaBatchActivate,
           QaStructuredActivate, QaStructuredWrite, QaAck, recording
  <2> QED
    BY <2>1 DEF MInv, Keeping, RecorderKeeps, Grows
<1> USE DEF MInv, Keeping, QaKeeps, ClaimsKept, AckedKept, recording
<1>3. CASE QaClaim
  BY <1>1, <1>2, <1>3 DEF QaClaim
<1>4. CASE QaBatchWrite
  <2>1. CASE Head(replies).ours
    <3>1. Head(replies) \in Answer
      BY <1>4, HeadFacts DEF QaBatchWrite, TypeOK, AnsweringOK
    <3>2. WriterSession(Head(replies).chan) \in Session
      BY <3>1, WriterType DEF Answer
    <3>3. \E i \in Ids' : records'[i].msg = Head(replies).msg
      <4>1. TypeOK /\ AppendRecord(Head(replies).chan, WriterSession(Head(replies).chan),
                                   "chat", Head(replies).msg)
        BY <1>4, <2>1 DEF QaBatchWrite
      <4>2. /\ Len(records) + 1 \in Ids'
            /\ records'[Len(records) + 1].msg = Head(replies).msg
        <5>1. /\ Head(replies).chan \in Channel /\ Head(replies).msg \in Nat
              /\ "chat" \in {"chat", "stt"}
          BY <3>1 DEF Answer
        <5>2. /\ Ids' = Ids \cup {Len(records) + 1}
              /\ records'[Len(records) + 1] =
                   [chan |-> Head(replies).chan, sess |-> WriterSession(Head(replies).chan),
                    src |-> "chat", msg |-> Head(replies).msg, marked |-> FALSE]
          BY <3>2, <4>1, <5>1, RecordAppended
        <5> QED
          BY <5>2
      <4> QED
        BY <4>2
    <3>4. Recorded(Head(replies).msg)'
      BY <1>4, <3>3 DEF Recorded, QaBatchWrite
    <3> QED
      BY <1>1, <1>2, <1>4, <2>1, <3>4 DEF QaBatchWrite
  <2>2. CASE ~Head(replies).ours
    BY <1>1, <1>2, <1>4, <2>2 DEF QaBatchWrite
  <2> QED
    BY <2>1, <2>2
<1>5. CASE QaStructuredWrite
  <2>1. Recorded(Head(replies).msg)'
    <3>1. PICK e \in Summary : /\ summaries' = Append(summaries, e)
                               /\ e.src = "qa" /\ e.ids = {Head(replies).msg}
      BY <1>5, QaSummary
    <3>2. /\ Len(summaries) + 1 \in DOMAIN summaries'
          /\ summaries'[Len(summaries) + 1] = e
      BY <3>1, SummaryAppended
    <3>3. replies' = replies
      BY <1>5 DEF QaStructuredWrite
    <3> QED
      BY <3>1, <3>2, <3>3 DEF Recorded
  <2> QED
    BY <1>1, <1>2, <1>5, <2>1 DEF QaStructuredWrite
<1>6. CASE QaAck
  BY <1>1, <1>2, <1>6 DEF QaAck
<1>7. CASE QaFails
  BY <1>1, <1>2, <1>7 DEF QaFails
<1>8. CASE QaCrash
  BY <1>1, <1>2, <1>8 DEF QaCrash
<1>9. CASE QaBatchActivate \/ QaStructuredActivate
  BY <1>1, <1>2, <1>9 DEF QaBatchActivate, QaStructuredActivate
<1> QED
  BY <1>3, <1>4, <1>5, <1>6, <1>7, <1>8, <1>9 DEF QaNext

-----------------------------------------------------------------------------
(* What is marked is covered *)

\* A record stays covered while it stays in its session and no summary goes.
LEMMA CoveredStays ==
    ASSUME Grows, NEW i \in Ids, Covered(i), records'[i].sess = records[i].sess,
           \A k \in DOMAIN summaries : summaries[k].kept => summaries'[k].kept
    PROVE  Covered(i)'
BY DEF Covered, Grows

LEMMA ForeignSame ==
    ASSUME Ids' = Ids, subject'.sess = subject.sess,
           \A i \in Ids : records'[i].sess = records[i].sess /\ records'[i].chan = records[i].chan
    PROVE  Foreign(subject.sess)' = Foreign(subject.sess)
BY DEF Foreign

LEMMA SourcesStay ==
    ASSUME SummarySources, Grows, DOMAIN summaries' = DOMAIN summaries
    PROVE  SummarySources'
BY DEF SummarySources, Grows

\* Steps of the others, and of the worker outside its batch.
LEMMA CoveringByOthers ==
    ASSUME MInv, Grows, UNCHANGED << records, summaries, repairer >>,
           batch' = {} \/ UNCHANGED << session, batch, todo >>
    PROVE  Covering'
<1>1. Ids' = Ids /\ UNCHANGED << repair, subject, disturbed >>
  BY DEF Ids, repairer
<1>2. \A i : Covered(i)' <=> Covered(i)
  BY DEF Covered
<1>3. SummarySources'
  BY SourcesStay DEF MInv, Covering
<1>4. BatchCovered'
  BY <1>1, <1>2 DEF MInv, Covering, BatchCovered
<1>5. RepairOrder'
  BY <1>1, ForeignSame DEF MInv, Covering, RepairOrder
<1>6. MarkedCovered'
  BY <1>1, <1>2 DEF MInv, Covering, MarkedCovered
<1> QED
  BY <1>3, <1>4, <1>5, <1>6 DEF Covering

\* A new record is unmarked and of its channel's session.
LEMMA CoveringByAppend ==
    ASSUME MInv, Grows, NEW c \in Channel, NEW src \in {"chat", "stt"}, NEW m \in Nat,
           AppendRecord(c, WriterSession(c), src, m),
           UNCHANGED << summaries, cycle, repairer >>
    PROVE  Covering'
<1> DEFINE n == Len(records) + 1
<1>1. /\ Ids' = Ids \cup {n} /\ n \notin Ids
      /\ \A i \in Ids : records'[i] = records[i]
      /\ ~records'[n].marked /\ records'[n].chan = c /\ records'[n].sess[1] = c
  <2>1. WriterSession(c) \in Session /\ WriterSession(c)[1] = c
    BY WriterType DEF MInv
  <2>2. /\ Ids' = Ids \cup {n} /\ n \notin Ids
        /\ \A i \in Ids : records'[i] = records[i]
        /\ records'[n] = [chan |-> c, sess |-> WriterSession(c), src |-> src, msg |-> m,
                          marked |-> FALSE]
    BY <2>1, RecordAppended DEF MInv
  <2> QED
    BY <2>1, <2>2
<1> HIDE DEF n
<1>2. UNCHANGED << session, batch, todo, repair, subject, disturbed >> /\ batch \subseteq Ids
  BY DEF cycle, repairer, MInv, TypeOK, WorkerOK
<1>3. \A i \in Ids : Covered(i) => Covered(i)'
  BY <1>1 DEF Covered
<1>4. SummarySources'
  BY SourcesStay DEF MInv, Covering
<1>5. BatchCovered'
  BY <1>1, <1>2, <1>3 DEF MInv, Covering, BatchCovered
<1>6. RepairOrder'
  <2>1. Foreign(subject.sess)' = Foreign(subject.sess)
    BY <1>1, <1>2 DEF Foreign
  <2> QED
    BY <1>2, <2>1 DEF MInv, Covering, RepairOrder
<1>7. MarkedCovered'
  BY <1>1, <1>2, <1>3 DEF MInv, Covering, MarkedCovered
<1> QED
  BY <1>4, <1>5, <1>6, <1>7 DEF Covering

\* A new summary takes nothing away.
LEMMA CoveringBySummary ==
    ASSUME MInv, Grows, NEW e \in Summary, summaries' = Append(summaries, e),
           UNCHANGED << records, repairer, session, batch >>,
           e.src # "qa" => \A i \in e.ids : i \in Ids /\ records[i].src = e.src,
           \A i \in batch :
               records[i].src \in todo /\ records[i].src \notin todo' /\ records[i].sess = session
                  => e.kept /\ e.src # "qa" /\ e.sess = session /\ i \in e.ids
    PROVE  Covering'
<1> DEFINE n == Len(summaries) + 1
<1>1. /\ DOMAIN summaries' = DOMAIN summaries \cup {n}
      /\ \A k \in DOMAIN summaries : summaries'[k] = summaries[k]
      /\ summaries'[n] = e
  BY SummaryAppended DEF MInv
<1> HIDE DEF n
<1>2. Ids' = Ids /\ UNCHANGED << repair, subject, disturbed >>
      /\ subject.doomed \subseteq DOMAIN summaries
  BY DEF Ids, repairer, MInv, TypeOK, RepairOK
<1>3. \A i : Covered(i) => Covered(i)'
  BY <1>1 DEF Covered
<1>4. SummarySources'
  BY <1>1, <1>2 DEF MInv, Covering, SummarySources
<1>5. BatchCovered'
  <2> SUFFICES ASSUME ~disturbed', batch' # {}
               PROVE  /\ repair' = "idle"
                      /\ \A i \in batch' : /\ records'[i].sess = session'
                                           /\ records'[i].src \notin todo' => Covered(i)'
    BY DEF BatchCovered
  <2>1. /\ repair = "idle"
        /\ \A i \in batch : records[i].sess = session /\ (records[i].src \notin todo => Covered(i))
    BY <1>2 DEF MInv, Covering, BatchCovered
  <2>2. ASSUME NEW i \in batch, records[i].src \notin todo', records[i].src \in todo
        PROVE  Covered(i)'
    <3>1. e.kept /\ e.src # "qa" /\ e.sess = session /\ i \in e.ids
      BY <2>1, <2>2
    <3> QED
      BY <1>1, <2>1, <3>1 DEF Covered
  <2> QED
    BY <1>2, <1>3, <2>1, <2>2
<1>6. RepairOrder'
  <2>1. Foreign(subject.sess)' = Foreign(subject.sess)
    BY <1>2, ForeignSame
  <2> QED
    BY <1>1, <1>2, <2>1 DEF MInv, Covering, RepairOrder
<1>7. MarkedCovered'
  BY <1>2, <1>3 DEF MInv, Covering, MarkedCovered
<1> QED
  BY <1>4, <1>5, <1>6, <1>7 DEF Covering

\* The batch: nothing of it is covered yet.
LEMMA CoveringByFetch ==
    ASSUME MInv, Grows, Fetch
    PROVE  Covering'
<1>1. /\ Ids' = Ids /\ UNCHANGED << records, summaries, repair, subject >>
      /\ DOMAIN summaries' = DOMAIN summaries
      /\ disturbed' = (disturbed \/ (batch' # {} /\ repair # "idle"))
  BY DEF Fetch, store, Ids
<1>2. \A i : Covered(i)' <=> Covered(i)
  BY <1>1 DEF Covered
<1>3. SummarySources'
  BY <1>1, SourcesStay DEF MInv, Covering
<1>4. BatchCovered'
  <2>1. batch' # {} => session' = session
    BY DEF Fetch
  <2>2. \A i \in batch' : records[i].sess = session /\ records[i].src \in todo'
    BY DEF Fetch, Unsummarized
  <2> QED
    BY <1>1, <2>1, <2>2 DEF BatchCovered
<1>5. RepairOrder'
  BY <1>1, ForeignSame DEF MInv, Covering, RepairOrder
<1>6. MarkedCovered'
  BY <1>1, <1>2 DEF MInv, Covering, MarkedCovered, Fetch
<1> QED
  BY <1>3, <1>4, <1>5, <1>6 DEF Covering

LEMMA CoveringByMark ==
    ASSUME MInv, Grows, Mark
    PROVE  Covering'
<1>1. /\ Ids' = Ids /\ UNCHANGED << summaries, repair, subject, disturbed >> /\ batch' = {}
      /\ DOMAIN summaries' = DOMAIN summaries
      /\ \A i \in Ids : /\ records'[i].chan = records[i].chan
                        /\ records'[i].sess = records[i].sess
                        /\ records'[i].src = records[i].src
                        /\ i \notin batch => records'[i].marked = records[i].marked
  BY MarksSet DEF Mark, repairer, MInv
<1>2. \A i \in Ids : Covered(i) => Covered(i)'
  BY <1>1, CoveredStays
<1>3. todo = {} /\ batch # {} /\ batch \subseteq Ids
  BY DEF Mark, MInv, TypeOK, WorkerOK
<1>4. ~disturbed => repair = "idle" /\ \A i \in batch : Covered(i)
  BY <1>3 DEF MInv, Covering, BatchCovered
<1>5. SummarySources'
  BY <1>1, SourcesStay DEF MInv, Covering
<1>6. BatchCovered'
  BY <1>1 DEF BatchCovered
<1>7. RepairOrder'
  <2>1. Foreign(subject.sess)' = Foreign(subject.sess)
    BY <1>1, ForeignSame
  <2> QED
    BY <1>1, <2>1 DEF MInv, Covering, RepairOrder
<1>8. MarkedCovered'
  BY <1>1, <1>2, <1>3, <1>4 DEF MInv, Covering, MarkedCovered
<1> QED
  BY <1>5, <1>6, <1>7, <1>8 DEF Covering

LEMMA CoveringByRepairStart ==
    ASSUME MInv, Grows, NEW s \in Session, RepairStart(s)
    PROVE  Covering'
<1>1. /\ Ids' = Ids /\ UNCHANGED << records, summaries, session, batch, todo >>
      /\ repair = "idle" /\ repair' = "migrate" /\ disturbed' = (disturbed \/ batch # {})
      /\ subject' = [sess |-> s, doomed |-> Contaminated(s), moving |-> Foreign(s)]
      /\ DOMAIN summaries' = DOMAIN summaries
  BY DEF RepairStart, store, cycle, Ids
<1>2. \A i : Covered(i)' <=> Covered(i)
  BY <1>1 DEF Covered
<1>3. SummarySources'
  BY <1>1, SourcesStay DEF MInv, Covering
<1>4. BatchCovered'
  BY <1>1 DEF BatchCovered
<1>5. RepairOrder'
  <2>1. /\ subject'.sess = s /\ subject'.doomed = Contaminated(s) /\ subject'.moving = Foreign(s)
        /\ \A k \in Contaminated(s) : summaries[k].sess = s /\ summaries[k].src = "chat"
    BY <1>1 DEF Contaminated
  <2>2. Foreign(subject.sess)' = Foreign(s)
    BY <1>1, <2>1 DEF Foreign
  <2> QED
    BY <1>1, <2>1, <2>2 DEF RepairOrder
<1>6. MarkedCovered'
  BY <1>1, <1>2 DEF MInv, Covering, MarkedCovered
<1> QED
  BY <1>3, <1>4, <1>5, <1>6 DEF Covering

\* The one that moves loses its summary until it is unmarked, too.
LEMMA CoveringByRelocate ==
    ASSUME MInv, Grows, Relocate
    PROVE  Covering'
<1>1. /\ repair = "migrate" /\ UNCHANGED << summaries, session, batch, todo, subject, disturbed >>
      /\ DOMAIN summaries' = DOMAIN summaries
  BY DEF Relocate, cycle
<1>2. SummarySources'
  BY <1>1, SourcesStay DEF MInv, Covering
<1>3. disturbed \/ batch = {}
  BY <1>1 DEF MInv, Covering, BatchCovered
<1>4. BatchCovered'
  BY <1>1, <1>3 DEF BatchCovered
<1>5. CASE subject.moving = {}
  <2>1. UNCHANGED records /\ repair' = "delete" /\ Ids' = Ids
    BY <1>5 DEF Relocate, Ids
  <2>2. \A i : Covered(i)' <=> Covered(i)
    BY <1>1, <2>1 DEF Covered
  <2>3. RepairOrder'
    BY <1>1, <1>5, <2>1, ForeignSame DEF MInv, Covering, RepairOrder
  <2>4. MarkedCovered'
    BY <1>1, <2>1, <2>2 DEF MInv, Covering, MarkedCovered
  <2> QED
    BY <1>2, <1>4, <2>3, <2>4 DEF Covering
<1>6. CASE subject.moving # {}
  <2>1. PICK i : i = Min(subject.moving)
    OBVIOUS
  <2>2. i \in Ids
    BY <1>6, <2>1, MinIn, IdsFacts DEF MInv, TypeOK, RepairOK, StoreOK
  <2>3. /\ records' = [records EXCEPT ![i].sess = << records[i].chan, records[i].sess[2] >>]
        /\ repair' = "unmark"
    BY <1>6, <2>1 DEF Relocate
  <2>4. /\ Ids' = Ids
        /\ \A j \in Ids \ {i} : records'[j] = records[j]
        /\ records'[i].sess[1] = records'[i].chan
        /\ \A j \in Ids : records'[j].marked = records[j].marked
    BY <2>2, <2>3, RecordMoved DEF MInv
  <2>5. \A j \in Ids \ {i} : Covered(j) => Covered(j)'
    BY <1>1, <2>4, CoveredStays
  <2>6. RepairOrder'
    <3>1. Foreign(subject.sess)' \subseteq Foreign(subject.sess) \ {i}
      BY <1>1, <2>4 DEF Foreign
    <3> QED
      BY <1>1, <2>1, <2>3, <3>1 DEF MInv, Covering, RepairOrder
  <2>7. MarkedCovered'
    BY <1>1, <2>1, <2>3, <2>4, <2>5 DEF MInv, Covering, MarkedCovered
  <2> QED
    BY <1>2, <1>4, <2>6, <2>7 DEF Covering
<1> QED
  BY <1>5, <1>6

LEMMA CoveringByUnmark ==
    ASSUME MInv, Grows, Unmark
    PROVE  Covering'
<1>1. PICK i : i = Min(subject.moving)
  OBVIOUS
<1>2. /\ repair = "unmark" /\ repair' = "migrate"
      /\ UNCHANGED << summaries, session, batch, todo, disturbed >>
      /\ DOMAIN summaries' = DOMAIN summaries
      /\ SetMarked({i}, FALSE)
      /\ subject' = [subject EXCEPT !.moving = @ \ {i}]
  BY <1>1 DEF Unmark, cycle
<1>3. /\ Ids' = Ids
      /\ \A j \in Ids : /\ records'[j].chan = records[j].chan
                        /\ records'[j].sess = records[j].sess
                        /\ j = i => ~records'[j].marked
                        /\ j # i => records'[j].marked = records[j].marked
  <2>1. TypeOK
    BY DEF MInv
  <2> QED
    <3>1. /\ Ids' = Ids
          /\ \A j \in Ids : /\ records'[j].chan = records[j].chan
                            /\ records'[j].sess = records[j].sess
                            /\ j \in {i} => records'[j].marked = FALSE
                            /\ j \notin {i} => records'[j].marked = records[j].marked
      BY <1>2, <2>1, MarksSet
    <3> QED
      BY <3>1
<1>4. subject'.sess = subject.sess /\ subject'.doomed = subject.doomed
      /\ subject'.moving = subject.moving \ {i}
  BY <1>2 DEF MInv, TypeOK, RepairOK
<1>5. \A j \in Ids : Covered(j) => Covered(j)'
  BY <1>2, <1>3, CoveredStays
<1>6. SummarySources'
  BY <1>2, SourcesStay DEF MInv, Covering
<1>7. BatchCovered'
  BY <1>2 DEF MInv, Covering, BatchCovered
<1>8. RepairOrder'
  <2>1. Foreign(subject.sess)' = Foreign(subject.sess)
    BY <1>3, <1>4, ForeignSame
  <2> QED
    BY <1>1, <1>2, <1>4, <2>1 DEF MInv, Covering, RepairOrder
<1>9. MarkedCovered'
  BY <1>1, <1>2, <1>3, <1>5 DEF MInv, Covering, MarkedCovered
<1> QED
  BY <1>6, <1>7, <1>8, <1>9 DEF Covering

\* What a dropped summary leaves uncovered is for Reset to unmark.
LEMMA CoveringByDelete ==
    ASSUME MInv, Grows, Delete
    PROVE  Covering'
<1>1. /\ repair = "delete" /\ UNCHANGED << records, session, batch, todo, disturbed >>
      /\ Ids' = Ids
  BY DEF Delete, cycle, Ids
<1>2. BatchCovered'
  BY <1>1 DEF MInv, Covering, BatchCovered
<1>3. CASE subject.doomed = {}
  <2>1. UNCHANGED << summaries, subject >> /\ repair' = "reset"
        /\ DOMAIN summaries' = DOMAIN summaries
    BY <1>3 DEF Delete
  <2>2. \A i : Covered(i)' <=> Covered(i)
    BY <1>1, <2>1 DEF Covered
  <2>3. SummarySources'
    BY <2>1, SourcesStay DEF MInv, Covering
  <2>4. RepairOrder'
    BY <1>1, <1>3, <2>1, ForeignSame DEF MInv, Covering, RepairOrder
  <2>5. MarkedCovered'
    BY <1>1, <2>1, <2>2 DEF MInv, Covering, MarkedCovered
  <2> QED
    BY <1>2, <2>3, <2>4, <2>5 DEF Covering
<1>4. CASE subject.doomed # {}
  <2>1. PICK k : k = Min(subject.doomed)
    OBVIOUS
  <2>2. k \in subject.doomed /\ k \in DOMAIN summaries
    BY <1>4, <2>1, MinIn, LenProperties DEF MInv, TypeOK, RepairOK, StoreOK
  <2>3. /\ summaries' = [summaries EXCEPT ![k].kept = FALSE]
        /\ subject' = [subject EXCEPT !.doomed = @ \ {k}] /\ repair' = repair
    BY <1>4, <2>1 DEF Delete
  <2>4. /\ DOMAIN summaries' = DOMAIN summaries
        /\ \A j \in DOMAIN summaries \ {k} : summaries'[j] = summaries[j]
        /\ \A j \in DOMAIN summaries : /\ summaries'[j].sess = summaries[j].sess
                                       /\ summaries'[j].src = summaries[j].src
    BY <2>2, <2>3, SummaryDropped DEF MInv
  <2>5. subject'.sess = subject.sess /\ subject'.doomed = subject.doomed \ {k}
    BY <2>3 DEF MInv, TypeOK, RepairOK
  <2>6. summaries[k].sess = subject.sess /\ summaries[k].src = "chat"
        /\ Foreign(subject.sess) = {}
    BY <1>1, <2>2 DEF MInv, Covering, RepairOrder
  <2>7. SummarySources'
    BY <2>4, SourcesStay DEF MInv, Covering
  <2>8. RepairOrder'
    <3>1. Foreign(subject.sess)' = Foreign(subject.sess)
      BY <1>1, <2>5, ForeignSame
    <3>2. subject.doomed \subseteq DOMAIN summaries
      BY DEF MInv, TypeOK, RepairOK
    <3> QED
      BY <1>1, <2>3, <2>4, <2>5, <2>6, <3>1, <3>2 DEF MInv, Covering, RepairOrder
  <2>9. MarkedCovered'
    <3> SUFFICES ASSUME ~disturbed, NEW i \in Ids, records[i].marked
                 PROVE  \/ Covered(i)'
                        \/ /\ records[i].sess = subject.sess /\ records[i].src = "chat"
                           /\ records[i].chan = subject.sess[1]
      BY <1>1, <2>3, <2>5 DEF MarkedCovered
    <3>1. CASE ~Covered(i)
      BY <1>1, <3>1 DEF MInv, Covering, MarkedCovered
    <3>2. CASE Covered(i)
      <4>1. PICK j \in DOMAIN summaries :
                /\ summaries[j].kept /\ i \in summaries[j].ids /\ summaries[j].src # "qa"
                /\ summaries[j].sess = records[i].sess
        BY <3>2 DEF Covered
      <4>2. CASE j # k
        BY <1>1, <2>4, <4>1, <4>2 DEF Covered
      <4>3. CASE j = k
        <5>1. records[i].src = "chat"
          BY <2>6, <4>1, <4>3 DEF MInv, Covering, SummarySources
        <5>2. records[i].chan = records[i].sess[1]
          BY <2>6, <4>1, <4>3 DEF Foreign
        <5> QED
          BY <2>6, <4>1, <4>3, <5>1, <5>2
      <4> QED
        BY <4>2, <4>3
    <3> QED
      BY <3>1, <3>2
  <2> QED
    BY <1>2, <2>7, <2>8, <2>9 DEF Covering
<1> QED
  BY <1>3, <1>4

LEMMA CoveringByReset ==
    ASSUME MInv, Grows, Reset
    PROVE  Covering'
<1>1. /\ repair = "reset" /\ repair' = "idle"
      /\ UNCHANGED << summaries, session, batch, todo, disturbed >>
      /\ DOMAIN summaries' = DOMAIN summaries
  BY DEF Reset, cycle
<1>2. /\ Ids' = Ids
      /\ \A j \in Ids : /\ records'[j].chan = records[j].chan
                        /\ records'[j].sess = records[j].sess
                        /\ records[j].sess = subject.sess /\ records[j].src = "chat"
                             /\ records[j].chan = subject.sess[1] => ~records'[j].marked
                        /\ records'[j].marked => records[j].marked
  <2> DEFINE S == {j \in Ids : /\ records[j].sess = subject.sess /\ records[j].src = "chat"
                               /\ records[j].chan = subject.sess[1]}
  <2>1. TypeOK /\ SetMarked(S, FALSE)
    BY DEF MInv, Reset
  <2>2. /\ Ids' = Ids
        /\ \A j \in Ids : /\ records'[j].chan = records[j].chan
                          /\ records'[j].sess = records[j].sess
                          /\ j \in S => records'[j].marked = FALSE
                          /\ j \notin S => records'[j].marked = records[j].marked
    <3> HIDE DEF S
    <3> QED BY <2>1, MarksSet
  <2> QED
    BY <2>2
<1>3. \A j \in Ids : Covered(j) => Covered(j)'
  BY <1>1, <1>2, CoveredStays
<1>4. SummarySources'
  BY <1>1, SourcesStay DEF MInv, Covering
<1>5. BatchCovered'
  BY <1>1 DEF MInv, Covering, BatchCovered
<1>6. RepairOrder'
  BY <1>1 DEF RepairOrder
<1>7. MarkedCovered'
  BY <1>1, <1>2, <1>3 DEF MInv, Covering, MarkedCovered
<1> QED
  BY <1>4, <1>5, <1>6, <1>7 DEF Covering

LEMMA CoveringByCrash ==
    ASSUME MInv, Grows, RepairCrash
    PROVE  Covering'
<1>1. disturbed' /\ repair' = "idle" /\ DOMAIN summaries' = DOMAIN summaries
  BY DEF RepairCrash, store
<1>2. SummarySources'
  BY <1>1, SourcesStay DEF MInv, Covering
<1> QED
  BY <1>1, <1>2 DEF Covering, BatchCovered, RepairOrder, MarkedCovered

-----------------------------------------------------------------------------
(* The invariant is inductive *)

LEMMA CoveringByRecord ==
    ASSUME MInv, Grows, Record \/ QaBatchWrite
    PROVE  Covering'
<1>1. CASE UNCHANGED records
  BY <1>1, CoveringByOthers DEF Record, QaBatchWrite, cycle
<1>2. CASE Record /\ ~Head(inbox).blank
  <2>1. Head(inbox) \in Spoken
    BY <1>2, HeadFacts DEF Record, MInv, TypeOK, RecordingOK
  <2>2. /\ Head(inbox).chan \in Channel /\ Head(inbox).src \in {"chat", "stt"}
        /\ Head(inbox).msg \in Nat
    BY <2>1 DEF Spoken
  <2>3. /\ AppendRecord(Head(inbox).chan, WriterSession(Head(inbox).chan), Head(inbox).src,
                        Head(inbox).msg)
        /\ UNCHANGED << summaries, cycle, repairer >>
    BY <1>2 DEF Record
  <2> QED
    BY <2>2, <2>3, CoveringByAppend
<1>3. CASE QaBatchWrite /\ Head(replies).ours
  <2>1. Head(replies) \in Answer
    BY <1>3, HeadFacts DEF QaBatchWrite, MInv, TypeOK, AnsweringOK
  <2>2. Head(replies).chan \in Channel /\ Head(replies).msg \in Nat
    BY <2>1 DEF Answer
  <2>3. /\ AppendRecord(Head(replies).chan, WriterSession(Head(replies).chan), "chat",
                        Head(replies).msg)
        /\ UNCHANGED << summaries, cycle, repairer >>
    BY <1>3 DEF QaBatchWrite
  <2> QED
    BY <2>2, <2>3, CoveringByAppend
<1> QED
  BY <1>1, <1>2, <1>3 DEF Record, QaBatchWrite

LEMMA CoveringBySave ==
    ASSUME MInv, Grows, SaveSummary \/ QaStructuredWrite
    PROVE  Covering'
<1>1. CASE SaveSummary
  <2>1. /\ NewSummary \in Summary /\ summaries' = Append(summaries, NewSummary)
        /\ todo' = todo \ {NextSource}
    BY <1>1, SummarySaved DEF MInv
  <2>2. UNCHANGED << records, repairer, session, batch >> /\ batch \subseteq Ids
    BY <1>1 DEF SaveSummary, MInv, TypeOK, WorkerOK
  <2>3. /\ NewSummary.kept /\ NewSummary.src = NextSource /\ NewSummary.sess = session
        /\ NewSummary.ids = {i \in batch : records[i].src = NextSource}
        /\ NextSource # "qa"
    BY DEF NewSummary, NextSource
  <2> QED
    BY <2>1, <2>2, <2>3, CoveringBySummary
<1>2. CASE QaStructuredWrite
  <2>1. PICK e \in Summary : summaries' = Append(summaries, e) /\ e.src = "qa"
    BY <1>2, QaSummary DEF MInv
  <2>2. UNCHANGED << records, repairer, session, batch, todo >>
    BY <1>2 DEF QaStructuredWrite, cycle
  <2> QED
    BY <2>1, <2>2, CoveringBySummary
<1> QED
  BY <1>1, <1>2

LEMMA InitHolds == Init => MInv
<1> SUFFICES ASSUME Init
             PROVE  MInv
  OBVIOUS
<1> USE DEF Init
<1>1. records \in Seq(Stored) /\ config \in Configs
  BY MemoryAssumption
<1>2. /\ \A i \in Ids : /\ records[i].sess \in Session /\ records[i].src \in {"chat", "stt"}
                        /\ records[i].marked \in BOOLEAN /\ i \in Nat
      /\ Len(records) \in Nat /\ Ids = 1 .. Len(records)
  BY <1>1, IdsFacts DEF Stored
<1>3. /\ DOMAIN summaries = Ids
      /\ \A i \in Ids : /\ summaries[i].sess = records[i].sess
                        /\ summaries[i].src = records[i].src
                        /\ summaries[i].ids = {j \in {i} : records[j].marked}
                        /\ summaries[i].kept = records[i].marked
                        /\ summaries[i] \in Summary
  BY <1>2 DEF Summary
<1>4. summaries \in Seq(Summary)
  BY <1>2, <1>3, SeqDef
<1>5. StoreOK
  BY <1>1, <1>4 DEF StoreOK
<1>6. EnvironmentOK /\ RecordingOK /\ AnsweringOK
  BY <1>1, MemoryAssumption DEF EnvironmentOK, RecordingOK, AnsweringOK
<1>7. WorkerOK /\ RepairOK
  <2>1. requests \in Seq(Session \cup {Nothing})
    BY EmptySeq
  <2>2. WorkerOK
    BY <2>1 DEF WorkerOK
  <2>3. RepairOK
    BY DEF RepairOK, NoRepair
  <2> QED
    BY <2>2, <2>3
<1>8. Keeping
  BY DEF Keeping, RecorderKeeps, QaKeeps, ClaimsKept, AckedKept
<1>9. \A i \in Ids : records[i].marked => Covered(i)
  BY <1>2, <1>3 DEF Covered
<1>10. SummarySources
  BY <1>3 DEF SummarySources
<1>11. BatchCovered /\ RepairOrder /\ MarkedCovered
  BY <1>9 DEF BatchCovered, RepairOrder, MarkedCovered
<1> QED
  BY <1>5, <1>6, <1>7, <1>8, <1>10, <1>11 DEF MInv, TypeOK, Covering

LEMMA StepHolds == MInv /\ [Next]_vars => MInv'
<1> SUFFICES ASSUME MInv, [Next]_vars
             PROVE  MInv'
  OBVIOUS
<1>1. Grows
  BY StoreGrows DEF MInv
<1>2. TypeOK /\ RecorderKeeps /\ Keeping
  BY DEF MInv, Keeping
<1>3. CASE \/ NextDay
           \/ \E c \in config.heard, src \in {"chat", "stt"}, blank \in BOOLEAN : Speak(c, src, blank)
           \/ \E c \in config.heard, ours \in BOOLEAN, s \in Known \cup {Nothing} : Reply(c, ours, s)
           \/ \E s \in Known \cup {Nothing} : Request(s)
  <2>1. TypeOK'
    BY <1>2, <1>3, EnvironmentTypes
  <2>2. Covering'
    BY <1>1, <1>3, CoveringByOthers DEF NextDay, Speak, Reply, Request, store, cycle
  <2>3. Keeping'
    <3>0. /\ config.heard \subseteq Channel /\ sent + 1 \in Nat
          /\ Known \cup {Nothing} \subseteq Session \cup {Nothing}
      BY <1>2, MemoryAssumption DEF TypeOK, EnvironmentOK, Known, Session
    <3>1. CASE NextDay \/ (\E s \in Known \cup {Nothing} : Request(s))
      BY <1>1, <1>2, <3>1, KeepingByOthers DEF NextDay, Request
    <3>2. ASSUME NEW c \in config.heard, NEW src \in {"chat", "stt"}, NEW blank \in BOOLEAN,
                 Speak(c, src, blank)
          PROVE  Keeping'
      <4>1. [msg |-> sent + 1, chan |-> c, src |-> src, blank |-> blank] \in Spoken
        BY <3>0, <3>2 DEF Spoken
      <4> QED
        BY <1>1, <1>2, <3>2, <4>1, KeepingByNews DEF Speak, recording, answering
    <3>3. ASSUME NEW c \in config.heard, NEW ours \in BOOLEAN, NEW s \in Known \cup {Nothing},
                 Reply(c, ours, s)
          PROVE  Keeping'
      <4>1. [msg |-> sent + 1, chan |-> c, ours |-> ours, sess |-> s] \in Answer
        BY <3>0, <3>3 DEF Answer
      <4> QED
        BY <1>1, <1>2, <3>3, <4>1, KeepingByNews DEF Reply, recording, answering
    <3> QED
      BY <1>3, <3>1, <3>2, <3>3
  <2> QED
    BY <2>1, <2>2, <2>3 DEF MInv
<1>4. CASE RecorderNext \/ RecorderCrash
  <2>1. TypeOK' /\ Keeping'
    BY <1>1, <1>2, <1>4, RecorderTypes, KeepingByRecorder
  <2>2. Covering'
    BY <1>1, <1>4, CoveringByRecord, CoveringByOthers
    DEF RecorderNext, RecorderCrash, Activate, RecordAck, store, cycle
  <2> QED
    BY <2>1, <2>2 DEF MInv
<1>5. CASE QaNext \/ QaFails \/ QaCrash
  <2>1. TypeOK' /\ Keeping'
    BY <1>1, <1>2, <1>5, QaTypes, KeepingByQa
  <2>2. Covering'
    BY <1>1, <1>5, CoveringByRecord, CoveringBySave, CoveringByOthers
    DEF QaNext, QaFails, QaCrash, QaClaim, QaBatchActivate, QaStructuredActivate, QaAck, store,
        cycle
  <2> QED
    BY <2>1, <2>2 DEF MInv
<1>6. CASE WorkerStart \/ Signal \/ WorkerNext \/ WorkerFails
  <2>1. TypeOK'
    BY <1>2, <1>6, WorkerTypes
  <2>2. Keeping'
    BY <1>1, <1>2, <1>6, KeepingByOthers
    DEF WorkerStart, Signal, WorkerNext, WorkerFails, RunOnce, Fetch, SaveSummary, Mark, Wake,
        Clear, Consume
  <2>3. CASE Fetch \/ SaveSummary \/ Mark
    BY <1>1, <2>1, <2>2, <2>3, CoveringByFetch, CoveringBySave, CoveringByMark DEF MInv
  <2>4. CASE WorkerStart \/ Signal \/ RunOnce \/ Wake \/ Clear \/ Consume \/ WorkerFails
    <3>1. UNCHANGED << records, summaries, repairer >>
      BY <2>4 DEF WorkerStart, Signal, RunOnce, Wake, Clear, Consume, WorkerFails, store
    <3>2. batch' = {} \/ UNCHANGED << session, batch, todo >>
      BY <2>4 DEF WorkerStart, Signal, RunOnce, Wake, Clear, Consume, WorkerFails, cycle, MInv,
                  TypeOK, WorkerOK
    <3> QED
      BY <1>1, <2>1, <2>2, <3>1, <3>2, CoveringByOthers DEF MInv
  <2> QED
    BY <1>6, <2>3, <2>4 DEF WorkerNext
<1>7. CASE RepairNext \/ RepairCrash \/ (\E s \in Session : RepairStart(s))
  <2>1. TypeOK'
    BY <1>2, <1>7, RepairTypes
  <2>2. Keeping'
    BY <1>1, <1>2, <1>7, KeepingByOthers
    DEF RepairNext, RepairCrash, RepairStart, Relocate, Unmark, Delete, Reset
  <2>3. Covering'
    BY <1>1, <1>7, CoveringByRepairStart, CoveringByRelocate, CoveringByUnmark, CoveringByDelete,
       CoveringByReset, CoveringByCrash DEF RepairNext
  <2> QED
    BY <2>1, <2>2, <2>3 DEF MInv
<1>8. CASE UNCHANGED vars
  <2>1. UNCHANGED << records, summaries, checkpoint, environment, store, recording, answering,
                     requests, handle, cycle, repairer, session, batch, todo >>
    BY <1>8 DEF vars, store, cycle
  <2>2. TypeOK'
    BY <1>2, <2>1, StoreFrame, RecordingFrame, AnsweringFrame, WorkerFrame, RepairFrame DEF TypeOK
  <2> QED
    BY <1>1, <1>2, <2>1, <2>2, KeepingByOthers, CoveringByOthers DEF MInv
<1> QED
  BY <1>3, <1>4, <1>5, <1>6, <1>7, <1>8 DEF Next

-----------------------------------------------------------------------------
(* How often a record is summarized *)

SummariesOf(i) == {k \in DOMAIN summaries : summaries[k].src # "qa" /\ i \in summaries[k].ids}

\* A summary of i is still to come: its source of the batch, or a later batch.
Opened(i) == IF i \in batch THEN records[i].src \in todo ELSE ~records[i].marked

\* The repair under way may unmark i.
Owed(i) == repair # "idle" /\ (i \in subject.moving \/ records[i].chan = subject.sess[1])

Unit(p) == IF p THEN 1 ELSE 0

\* Each summary of i, made or to come, but the first is paid by a fault or a repair.
Paid(i) == Cardinality(SummariesOf(i)) + Unit(Opened(i)) + Unit(Owed(i)) <= 1 + faults + repairs

RepairPaid ==
    repair # "idle" =>
        repairs >= 1 /\ \A i \in subject.moving : records[i].chan # subject.sess[1]

RepeatInv == MInv /\ RepairPaid /\ \A i \in Ids : Paid(i)

LEMMA SummariesFinite ==
    ASSUME TypeOK, NEW i
    PROVE  IsFiniteSet(SummariesOf(i)) /\ Cardinality(SummariesOf(i)) \in Nat
<1>1. Len(summaries) \in Nat /\ DOMAIN summaries = 1 .. Len(summaries)
  BY LenProperties DEF TypeOK, StoreOK
<1>2. IsFiniteSet(1 .. Len(summaries))
  BY <1>1, FS_Interval
<1>3. SummariesOf(i) \in SUBSET (1 .. Len(summaries))
  BY <1>1 DEF SummariesOf
<1> QED
  BY <1>2, <1>3, FS_Subset, FS_CardinalityType

\* Only save_summary adds to them.
LEMMA SummariesSame ==
    ASSUME Grows, NEW i,
           \A k \in DOMAIN summaries' \ DOMAIN summaries :
               summaries'[k].src = "qa" \/ i \notin summaries'[k].ids
    PROVE  SummariesOf(i)' = SummariesOf(i)
BY DEF Grows, SummariesOf

LEMMA Balance ==
    ASSUME TypeOK, TypeOK', NEW i, Paid(i), SummariesOf(i)' = SummariesOf(i),
           Unit(Opened(i))' + Unit(Owed(i))' + faults + repairs
               <= Unit(Opened(i)) + Unit(Owed(i)) + faults' + repairs'
    PROVE  Paid(i)'
<1>1. Cardinality(SummariesOf(i)) \in Nat
  BY SummariesFinite
<1>2. Cardinality(SummariesOf(i))' = Cardinality(SummariesOf(i))
  OBVIOUS
<1>3. /\ Unit(Opened(i)) \in Nat /\ Unit(Owed(i)) \in Nat
      /\ Unit(Opened(i))' \in Nat /\ Unit(Owed(i))' \in Nat
  BY DEF Unit
<1>4. faults \in Nat /\ repairs \in Nat /\ faults' \in Nat /\ repairs' \in Nat
  BY DEF TypeOK, EnvironmentOK
<1> QED
  BY <1>1, <1>2, <1>3, <1>4 DEF Paid

\* Counters only grow, and what pays for a record stays in step with its marks.
LEMMA Settled ==
    ASSUME TypeOK, TypeOK', NEW i, Paid(i), SummariesOf(i)' = SummariesOf(i),
           Opened(i)' => Opened(i), Owed(i)' => Owed(i),
           faults' >= faults, repairs' >= repairs
    PROVE  Paid(i)'
<1>1. faults \in Nat /\ repairs \in Nat /\ faults' \in Nat /\ repairs' \in Nat
  BY DEF TypeOK, EnvironmentOK
<1>2. Unit(Opened(i))' <= Unit(Opened(i)) /\ Unit(Owed(i))' <= Unit(Owed(i))
      /\ Unit(Opened(i)) \in Nat /\ Unit(Owed(i)) \in Nat
      /\ Unit(Opened(i))' \in Nat /\ Unit(Owed(i))' \in Nat
  BY DEF Unit
<1> QED
  BY <1>1, <1>2, Balance

LEMMA CountersGrow ==
    ASSUME TypeOK, [Next]_vars
    PROVE  faults' \in {faults, faults + 1} /\ repairs' \in {repairs, repairs + 1}
BY DEF Next, vars, environment, NextDay, Speak, Reply, Request, Send, Fault, RecorderNext, Record,
   Activate, RecordAck, RecorderCrash, QaNext, QaClaim, QaBatchWrite, QaBatchActivate,
   QaStructuredActivate, QaStructuredWrite, QaAck, QaFails, QaCrash, WorkerStart, Signal,
   WorkerNext, RunOnce, Fetch, SaveSummary, Mark, Wake,
   Clear, Consume, WorkerFails, RepairStart, RepairNext, Relocate, Unmark, Delete, Reset, RepairCrash

\* A step that leaves the records, the batch and the repair alone, or adds an answer.
LEMMA RepeatsByOthers ==
    ASSUME RepeatInv, TypeOK', Grows, [Next]_vars,
           UNCHANGED << records, repair, subject, batch >>, batch = {} \/ todo' = todo,
           \A k \in DOMAIN summaries' \ DOMAIN summaries : summaries'[k].src = "qa"
    PROVE  RepairPaid' /\ \A i \in Ids' : Paid(i)'
<1>1. TypeOK /\ RepairPaid
  BY DEF RepeatInv, MInv
<1>2. faults \in Nat /\ repairs \in Nat
  BY <1>1 DEF TypeOK, EnvironmentOK
<1>3. faults' >= faults /\ repairs' >= repairs
  BY <1>1, <1>2, CountersGrow
<1>4. RepairPaid'
  BY <1>1, <1>2, <1>3 DEF RepairPaid, TypeOK, EnvironmentOK
<1>5. ASSUME NEW i \in Ids'
      PROVE  Paid(i)'
  <2>1. i \in Ids /\ Paid(i)
    BY <1>5 DEF RepeatInv, Ids
  <2>2. Opened(i)' => Opened(i)
    BY DEF Opened
  <2>3. Owed(i)' => Owed(i)
    BY DEF Owed
  <2>4. SummariesOf(i)' = SummariesOf(i)
    BY SummariesSame
  <2> QED
    BY <1>1, <1>3, <2>1, <2>2, <2>3, <2>4, Settled
<1> QED
  BY <1>4, <1>5

\* A new record has no summary yet.
LEMMA RepeatsByAppend ==
    ASSUME RepeatInv, TypeOK', Grows, NEW c \in Channel, NEW s \in Session,
           NEW src \in {"chat", "stt"}, NEW m \in Nat, AppendRecord(c, s, src, m),
           UNCHANGED << environment, summaries, cycle, repairer >>
    PROVE  RepairPaid' /\ \A i \in Ids' : Paid(i)'
<1>1. PICK n : n = Len(records) + 1
  OBVIOUS
<1>2. TypeOK /\ RepairPaid /\ SummarySources
  BY DEF RepeatInv, MInv, Covering
<1>3. Ids' = Ids \cup {n} /\ n \notin Ids /\ \A i \in Ids : records'[i] = records[i]
  BY <1>1, <1>2, RecordAppended
<1>4. UNCHANGED << faults, repairs, summaries, batch, todo, repair, subject >>
  BY DEF environment, cycle, repairer
<1>5. subject.moving \subseteq Ids /\ batch \subseteq Ids
      /\ faults \in Nat /\ repairs \in Nat
  BY <1>2 DEF TypeOK, EnvironmentOK, WorkerOK, RepairOK
<1>6. RepairPaid'
  BY <1>2, <1>3, <1>4, <1>5 DEF RepairPaid
<1>7. ASSUME NEW i \in Ids
      PROVE  Paid(i)'
  <2>1. Paid(i)
    BY DEF RepeatInv
  <2>2. Opened(i)' => Opened(i)
    BY <1>3, <1>4 DEF Opened
  <2>3. Owed(i)' => Owed(i)
    BY <1>3, <1>4 DEF Owed
  <2>4. SummariesOf(i)' = SummariesOf(i)
    BY <1>4 DEF SummariesOf
  <2>5. faults' >= faults /\ repairs' >= repairs
    BY <1>4, <1>5
  <2> QED
    BY <1>2, <2>1, <2>2, <2>3, <2>4, <2>5, Settled
<1>8. Paid(n)'
  <2>1. SummariesOf(n)' = {}
    BY <1>2, <1>3, <1>4 DEF SummarySources, SummariesOf
  <2>2. Cardinality(SummariesOf(n))' = 0
    BY <2>1, FS_EmptySet
  <2>3. Unit(Opened(n))' \in {0, 1} /\ Unit(Owed(n))' \in {0, 1}
    BY DEF Unit
  <2>4. repair = "idle" => Unit(Owed(n))' = 0
    BY <1>4 DEF Unit, Owed
  <2>5. repair # "idle" => repairs >= 1
    BY <1>2 DEF RepairPaid
  <2> QED
    BY <1>4, <1>5, <2>2, <2>3, <2>4, <2>5 DEF Paid
<1> QED
  BY <1>3, <1>6, <1>7, <1>8

\* The batch was to be summarized anyway.
LEMMA RepeatsByFetch ==
    ASSUME RepeatInv, TypeOK', Grows, [Next]_vars, Fetch
    PROVE  RepairPaid' /\ \A i \in Ids' : Paid(i)'
<1>1. TypeOK /\ RepairPaid /\ batch = {}
  BY DEF RepeatInv, MInv, TypeOK, WorkerOK, Fetch
<1>2. UNCHANGED << records, summaries, repair, subject, faults, repairs >> /\ Ids' = Ids
  BY DEF Fetch, store, environment, Ids
<1>3. \A i \in batch' : ~records[i].marked /\ records[i].src \in todo'
  BY DEF Fetch, Unsummarized
<1>4. RepairPaid'
  BY <1>1, <1>2 DEF RepairPaid
<1>5. ASSUME NEW i \in Ids
      PROVE  Paid(i)'
  <2>1. Paid(i)
    BY DEF RepeatInv
  <2>2. Opened(i)' => Opened(i)
    BY <1>1, <1>2, <1>3 DEF Opened
  <2>3. Owed(i)' => Owed(i)
    BY <1>2 DEF Owed
  <2>4. SummariesOf(i)' = SummariesOf(i)
    BY <1>2 DEF SummariesOf
  <2>5. faults' >= faults /\ repairs' >= repairs
    BY <1>1, <1>2 DEF TypeOK, EnvironmentOK
  <2> QED
    BY <1>1, <2>1, <2>2, <2>3, <2>4, <2>5, Settled
<1> QED
  BY <1>2, <1>4, <1>5

\* The summary saved is the one that was to come.
LEMMA RepeatsBySave ==
    ASSUME RepeatInv, TypeOK', Grows, SaveSummary
    PROVE  RepairPaid' /\ \A i \in Ids' : Paid(i)'
<1>1. TypeOK /\ RepairPaid /\ batch \subseteq Ids
  BY DEF RepeatInv, MInv, TypeOK, WorkerOK
<1>2. UNCHANGED << records, repair, subject, faults, repairs, batch >> /\ Ids' = Ids
  BY DEF SaveSummary, repairer, environment, Ids
<1>3. /\ NewSummary \in Summary /\ NextSource \in todo
      /\ summaries' = Append(summaries, NewSummary) /\ todo' = todo \ {NextSource}
  BY <1>1, SummarySaved
<1>4. /\ NewSummary.src = NextSource /\ NextSource # "qa"
      /\ NewSummary.ids = {i \in batch : records[i].src = NextSource}
  BY DEF NewSummary, NextSource
<1>5. PICK n : n = Len(summaries) + 1
  OBVIOUS
<1>6. /\ DOMAIN summaries' = DOMAIN summaries \cup {n} /\ n \notin DOMAIN summaries
      /\ \A k \in DOMAIN summaries : summaries'[k] = summaries[k]
      /\ summaries'[n] = NewSummary
  BY <1>1, <1>3, <1>5, SummaryAppended
<1>7. RepairPaid'
  BY <1>1, <1>2 DEF RepairPaid
<1>8. faults' >= faults /\ repairs' >= repairs /\ faults \in Nat /\ repairs \in Nat
  BY <1>1, <1>2 DEF TypeOK, EnvironmentOK
<1>9. ASSUME NEW i \in Ids
      PROVE  Paid(i)'
  <2>1. Paid(i)
    BY DEF RepeatInv
  <2>2. Owed(i)' <=> Owed(i)
    BY <1>2 DEF Owed
  <2>3. CASE ~(i \in batch /\ records[i].src = NextSource)
    <3>1. Opened(i)' => Opened(i)
      BY <1>2, <1>3, <2>3 DEF Opened
    <3>2. SummariesOf(i)' = SummariesOf(i)
      BY <1>4, <1>6, <2>3 DEF SummariesOf
    <3> QED
      BY <1>1, <1>8, <2>1, <2>2, <3>1, <3>2, Settled
  <2>4. CASE i \in batch /\ records[i].src = NextSource
    <3>1. Opened(i) /\ ~Opened(i)'
      BY <1>2, <1>3, <2>4 DEF Opened
    <3>2. SummariesOf(i)' = SummariesOf(i) \cup {n} /\ n \notin SummariesOf(i)
      BY <1>4, <1>6, <2>4 DEF SummariesOf
    <3>3. IsFiniteSet(SummariesOf(i)) /\ Cardinality(SummariesOf(i)) \in Nat
      BY <1>1, SummariesFinite
    <3>4. Cardinality(SummariesOf(i))' = Cardinality(SummariesOf(i)) + 1
      BY <3>2, <3>3, FS_AddElement
    <3>5. /\ Unit(Opened(i)) = 1 /\ Unit(Opened(i))' = 0
          /\ Unit(Owed(i))' = Unit(Owed(i)) /\ Unit(Owed(i)) \in Nat
      BY <2>2, <3>1 DEF Unit
    <3> QED
      BY <1>2, <1>8, <2>1, <3>3, <3>4, <3>5 DEF Paid
  <2> QED
    BY <2>3, <2>4
<1> QED
  BY <1>2, <1>7, <1>9

\* Everything in the batch is summarized when it is marked.
LEMMA RepeatsByMark ==
    ASSUME RepeatInv, TypeOK', Grows, Mark
    PROVE  RepairPaid' /\ \A i \in Ids' : Paid(i)'
<1>1. TypeOK /\ RepairPaid /\ batch \subseteq Ids /\ todo = {}
  BY DEF RepeatInv, MInv, TypeOK, WorkerOK, Mark
<1>2. UNCHANGED << summaries, repair, subject, faults, repairs >> /\ batch' = {}
      /\ SetMarked(batch, TRUE)
  BY DEF Mark, repairer, environment
<1>3. /\ Ids' = Ids
      /\ \A i \in Ids : /\ records'[i].chan = records[i].chan
                        /\ i \in batch => records'[i].marked = TRUE
                        /\ i \notin batch => records'[i].marked = records[i].marked
  BY <1>1, <1>2, MarksSet
<1>4. RepairPaid'
  BY <1>1, <1>2, <1>3 DEF RepairPaid, TypeOK, RepairOK
<1>5. faults' >= faults /\ repairs' >= repairs
  BY <1>1, <1>2 DEF TypeOK, EnvironmentOK
<1>6. ASSUME NEW i \in Ids
      PROVE  Paid(i)'
  <2>1. Paid(i)
    BY DEF RepeatInv
  <2>2. Opened(i)' => Opened(i)
    BY <1>1, <1>2, <1>3 DEF Opened
  <2>3. Owed(i)' => Owed(i)
    BY <1>2, <1>3 DEF Owed
  <2>4. SummariesOf(i)' = SummariesOf(i)
    BY <1>2 DEF SummariesOf
  <2> QED
    BY <1>1, <1>5, <2>1, <2>2, <2>3, <2>4, Settled
<1> QED
  BY <1>3, <1>4, <1>6

\* A step that is a fault pays for what the batch in hand may repeat, and a crash
\* of the repair forgets what it owed.
LEMMA RepeatsByFault ==
    ASSUME RepeatInv, TypeOK', Grows, WorkerFails \/ RepairCrash
    PROVE  RepairPaid' /\ \A i \in Ids' : Paid(i)'
<1>1. TypeOK /\ RepairPaid
  BY DEF RepeatInv, MInv
<1>2. UNCHANGED << records, summaries, repairs >> /\ faults' = faults + 1 /\ Ids' = Ids
  BY DEF WorkerFails, RepairCrash, Fault, store, Ids
<1>3. UNCHANGED << repair, subject >> \/ repair' = "idle"
  BY DEF WorkerFails, RepairCrash, repairer
<1>4. RepairPaid'
  BY <1>1, <1>2, <1>3 DEF RepairPaid
<1>5. faults \in Nat /\ repairs \in Nat
  BY <1>1 DEF TypeOK, EnvironmentOK
<1>6. ASSUME NEW i \in Ids
      PROVE  Paid(i)'
  <2>1. Paid(i)
    BY DEF RepeatInv
  <2>2. Owed(i)' => Owed(i)
    BY <1>2, <1>3 DEF Owed
  <2>3. SummariesOf(i)' = SummariesOf(i)
    BY <1>2 DEF SummariesOf
  <2>4. /\ Unit(Owed(i))' <= Unit(Owed(i)) /\ Unit(Owed(i)) \in Nat /\ Unit(Owed(i))' \in Nat
        /\ Unit(Opened(i)) \in {0, 1} /\ Unit(Opened(i))' \in {0, 1}
    BY <2>2 DEF Unit
  <2>5. Unit(Opened(i))' + Unit(Owed(i))' + faults + repairs
            <= Unit(Opened(i)) + Unit(Owed(i)) + faults' + repairs'
    BY <1>2, <1>5, <2>4
  <2> QED
    BY <1>1, <2>1, <2>3, <2>5, Balance
<1> QED
  BY <1>2, <1>4, <1>6

\* A repair pays for every record it may unmark when it starts.
LEMMA RepeatsByRepairStart ==
    ASSUME RepeatInv, TypeOK', Grows, NEW s \in Session, RepairStart(s)
    PROVE  RepairPaid' /\ \A i \in Ids' : Paid(i)'
<1>1. TypeOK
  BY DEF RepeatInv, MInv
<1>2. /\ UNCHANGED << records, summaries, batch, todo, faults >> /\ Ids' = Ids
      /\ repairs' = repairs + 1 /\ repair = "idle"
      /\ subject'.sess = s /\ subject'.moving = Foreign(s)
  BY DEF RepairStart, store, cycle, Ids
<1>3. faults \in Nat /\ repairs \in Nat
  BY <1>1 DEF TypeOK, EnvironmentOK
<1>4. RepairPaid'
  BY <1>2, <1>3 DEF RepairPaid, Foreign
<1>5. ASSUME NEW i \in Ids
      PROVE  Paid(i)'
  <2>1. Paid(i)
    BY DEF RepeatInv
  <2>2. Opened(i)' <=> Opened(i)
    BY <1>2 DEF Opened
  <2>3. SummariesOf(i)' = SummariesOf(i)
    BY <1>2 DEF SummariesOf
  <2>4. /\ Unit(Opened(i))' = Unit(Opened(i)) /\ Unit(Opened(i)) \in Nat
        /\ Unit(Owed(i)) = 0 /\ Unit(Owed(i))' \in {0, 1}
    BY <1>2, <2>2 DEF Unit, Owed
  <2>5. Unit(Opened(i))' + Unit(Owed(i))' + faults + repairs
            <= Unit(Opened(i)) + Unit(Owed(i)) + faults' + repairs'
    BY <1>2, <1>3, <2>4
  <2> QED
    BY <1>1, <2>1, <2>3, <2>5, Balance
<1> QED
  BY <1>2, <1>4, <1>5

\* Moving a record and dropping a summary repeat nothing.
LEMMA RepeatsByRepair ==
    ASSUME RepeatInv, TypeOK', Grows, Relocate \/ Delete
    PROVE  RepairPaid' /\ \A i \in Ids' : Paid(i)'
<1>1. TypeOK /\ RepairPaid
  BY DEF RepeatInv, MInv
<1>2. /\ UNCHANGED << batch, todo, faults, repairs >>
      /\ repair # "idle" /\ repair' # "idle"
  BY DEF Relocate, Delete, cycle, environment
<1>3. Ids' = Ids /\ \A i \in Ids : records'[i].marked = records[i].marked
  <2>1. CASE UNCHANGED records
    BY <2>1 DEF Ids
  <2>2. CASE Relocate /\ subject.moving # {}
    <3>1. Min(subject.moving) \in Ids
      BY <1>1, <2>2, MinIn, IdsFacts DEF TypeOK, RepairOK, StoreOK
    <3> QED
      BY <1>1, <2>2, <3>1, RecordMoved DEF Relocate
  <2> QED
    BY <2>1, <2>2 DEF Relocate, Delete
<1>4. subject'.moving = subject.moving /\ subject'.sess = subject.sess
  BY <1>1 DEF TypeOK, RepairOK, Relocate, Delete
<1>5. DOMAIN summaries' = DOMAIN summaries
  <2>1. CASE UNCHANGED summaries
    BY <2>1
  <2>2. CASE Delete /\ subject.doomed # {}
    <3>1. Min(subject.doomed) \in DOMAIN summaries
      BY <1>1, <2>2, MinIn, LenProperties DEF TypeOK, RepairOK, StoreOK
    <3> QED
      BY <1>1, <2>2, <3>1, SummaryDropped DEF Delete
  <2> QED
    BY <2>1, <2>2 DEF Relocate, Delete
<1>6. \A i \in Ids : records'[i].chan = records[i].chan /\ records'[i].src = records[i].src
  BY DEF Grows
<1>7. RepairPaid'
  BY <1>1, <1>2, <1>3, <1>4, <1>6 DEF RepairPaid, TypeOK, RepairOK
<1>8. faults' >= faults /\ repairs' >= repairs
  BY <1>1, <1>2 DEF TypeOK, EnvironmentOK
<1>9. ASSUME NEW i \in Ids
      PROVE  Paid(i)'
  <2>1. Paid(i)
    BY DEF RepeatInv
  <2>2. Opened(i)' => Opened(i)
    BY <1>2, <1>3, <1>6 DEF Opened
  <2>3. Owed(i)' => Owed(i)
    BY <1>2, <1>4, <1>6 DEF Owed
  <2>4. SummariesOf(i)' = SummariesOf(i)
    BY <1>5, SummariesSame
  <2> QED
    BY <1>1, <1>8, <2>1, <2>2, <2>3, <2>4, Settled
<1> QED
  BY <1>3, <1>7, <1>9

\* What the repair unmarks is summarized once more, and it owes it no longer.
LEMMA RepeatsByUnmarking ==
    ASSUME RepeatInv, TypeOK', Grows, NEW S, SetMarked(S, FALSE),
           UNCHANGED << summaries, cycle, faults, repairs >>,
           \A i \in Ids : Owed(i)' => Owed(i),
           \A i \in S \cap Ids : Owed(i) /\ ~Owed(i)',
           RepairPaid'
    PROVE  RepairPaid' /\ \A i \in Ids' : Paid(i)'
<1>1. TypeOK
  BY DEF RepeatInv, MInv
<1>2. /\ Ids' = Ids
      /\ \A i \in Ids : /\ records'[i].src = records[i].src
                        /\ i \notin S => records'[i].marked = records[i].marked
  BY <1>1, MarksSet
<1>3. UNCHANGED << batch, todo >>
  BY DEF cycle
<1>4. faults \in Nat /\ repairs \in Nat /\ faults' >= faults /\ repairs' >= repairs
  BY <1>1 DEF TypeOK, EnvironmentOK
<1>5. ASSUME NEW i \in Ids
      PROVE  Paid(i)'
  <2>1. Paid(i)
    BY DEF RepeatInv
  <2>2. SummariesOf(i)' = SummariesOf(i)
    BY DEF SummariesOf
  <2>3. CASE i \notin S
    <3>1. Opened(i)' => Opened(i)
      BY <1>2, <1>3, <2>3 DEF Opened
    <3> QED
      BY <1>1, <1>4, <2>1, <2>2, <3>1, Settled
  <2>4. CASE i \in S
    <3>1. Unit(Owed(i)) = 1 /\ Unit(Owed(i))' = 0
      BY <2>4 DEF Unit
    <3>2. Unit(Opened(i)) \in {0, 1} /\ Unit(Opened(i))' \in {0, 1}
      BY DEF Unit
    <3>3. Unit(Opened(i))' + Unit(Owed(i))' + faults + repairs
              <= Unit(Opened(i)) + Unit(Owed(i)) + faults' + repairs'
      BY <1>4, <3>1, <3>2
    <3> QED
      BY <1>1, <2>1, <2>2, <3>3, Balance
  <2> QED
    BY <2>3, <2>4
<1> QED
  BY <1>2, <1>5

LEMMA RepeatsByUnmark ==
    ASSUME RepeatInv, TypeOK', Grows, Unmark \/ Reset
    PROVE  RepairPaid' /\ \A i \in Ids' : Paid(i)'
<1>1. TypeOK /\ RepairPaid
  BY DEF RepeatInv, MInv
<1>2. UNCHANGED << summaries, cycle, faults, repairs >>
  BY DEF Unmark, Reset, environment
<1>3. \A i \in Ids : records'[i].chan = records[i].chan
  BY DEF Grows
<1>4. CASE Unmark
  <2>1. PICK j : j = Min(subject.moving)
    OBVIOUS
  <2>2. /\ repair = "unmark" /\ repair' = "migrate" /\ SetMarked({j}, FALSE)
        /\ subject' = [subject EXCEPT !.moving = @ \ {j}]
    BY <1>4, <2>1 DEF Unmark
  <2>3. subject'.moving = subject.moving \ {j} /\ subject'.sess = subject.sess
        /\ subject.moving \subseteq Ids /\ subject.moving # {}
    BY <1>1, <2>2 DEF TypeOK, RepairOK
  <2>4. j \in subject.moving
    BY <1>1, <2>1, <2>3, MinIn, IdsFacts DEF TypeOK, StoreOK
  <2>5. records[j].chan # subject.sess[1]
    BY <1>1, <2>2, <2>4 DEF RepairPaid
  <2>6. RepairPaid'
    BY <1>1, <1>2, <1>3, <2>2, <2>3 DEF RepairPaid
  <2>7. \A i \in Ids : Owed(i)' => Owed(i)
    BY <1>3, <2>2, <2>3 DEF Owed
  <2>8. \A i \in {j} \cap Ids : Owed(i) /\ ~Owed(i)'
    BY <1>3, <2>2, <2>3, <2>4, <2>5 DEF Owed
  <2> QED
    BY <1>2, <2>2, <2>6, <2>7, <2>8, RepeatsByUnmarking
<1>5. CASE Reset
  <2>1. PICK S : S = {i \in Ids : /\ records[i].sess = subject.sess /\ records[i].src = "chat"
                                  /\ records[i].chan = subject.sess[1]}
    OBVIOUS
  <2>2. repair = "reset" /\ repair' = "idle" /\ SetMarked(S, FALSE)
    BY <1>5, <2>1 DEF Reset
  <2>3. RepairPaid'
    BY <2>2 DEF RepairPaid
  <2>4. \A i \in Ids : ~Owed(i)'
    BY <2>2 DEF Owed
  <2>5. \A i \in S \cap Ids : Owed(i)
    BY <2>1, <2>2 DEF Owed
  <2> QED
    BY <1>2, <2>2, <2>3, <2>4, <2>5, RepeatsByUnmarking
<1> QED
  BY <1>4, <1>5

LEMMA RepeatsInit == Init => RepeatInv
<1> SUFFICES ASSUME Init
             PROVE  RepeatInv
  OBVIOUS
<1>1. MInv
  BY InitHolds
<1>2. /\ faults = 0 /\ repairs = 0 /\ repair = "idle" /\ batch = {} /\ DOMAIN summaries = Ids
      /\ \A k \in Ids : summaries[k].ids = {j \in {k} : records[j].marked}
  BY DEF Init
<1>3. RepairPaid
  BY <1>2 DEF RepairPaid
<1>4. ASSUME NEW i \in Ids
      PROVE  Paid(i)
  <2>1. Unit(Owed(i)) = 0
    BY <1>2 DEF Unit, Owed
  <2>2. CASE records[i].marked
    <3>1. Unit(Opened(i)) = 0
      BY <1>2, <2>2 DEF Unit, Opened
    <3>2. SummariesOf(i) \subseteq {i}
      BY <1>2 DEF SummariesOf
    <3>3. Cardinality(SummariesOf(i)) <= 1 /\ Cardinality(SummariesOf(i)) \in Nat
      <4>1. IsFiniteSet({i}) /\ Cardinality({i}) = 1
        BY FS_Singleton
      <4> QED
        BY <3>2, <4>1, FS_Subset, FS_CardinalityType
    <3> QED
      BY <1>2, <2>1, <3>1, <3>3 DEF Paid
  <2>3. CASE ~records[i].marked
    <3>1. Unit(Opened(i)) = 1
      BY <1>2, <2>3 DEF Unit, Opened
    <3>2. SummariesOf(i) = {}
      BY <1>2, <2>3 DEF SummariesOf
    <3>3. Cardinality(SummariesOf(i)) = 0
      BY <3>2, FS_EmptySet
    <3> QED
      BY <1>2, <2>1, <3>1, <3>3 DEF Paid
  <2> QED
    BY <2>2, <2>3
<1> QED
  BY <1>1, <1>3, <1>4 DEF RepeatInv

LEMMA RepeatsByStored ==
    ASSUME RepeatInv, TypeOK', Grows, [Next]_vars, Record \/ QaBatchWrite \/ QaStructuredWrite
    PROVE  RepairPaid' /\ \A i \in Ids' : Paid(i)'
<1>1. TypeOK
  BY DEF RepeatInv, MInv
<1>2. UNCHANGED << environment, cycle, repairer, repair, subject, batch, todo >>
  BY DEF Record, QaBatchWrite, QaStructuredWrite, cycle, repairer
<1>3. CASE UNCHANGED << records, summaries >>
  BY <1>2, <1>3, RepeatsByOthers
<1>4. CASE Record /\ ~Head(inbox).blank
  <2>1. Head(inbox) \in Spoken
    BY <1>1, <1>4, HeadFacts DEF Record, TypeOK, RecordingOK
  <2>2. /\ Head(inbox).chan \in Channel /\ Head(inbox).src \in {"chat", "stt"}
        /\ Head(inbox).msg \in Nat /\ WriterSession(Head(inbox).chan) \in Session
    BY <1>1, <2>1, WriterType DEF Spoken
  <2>3. /\ AppendRecord(Head(inbox).chan, WriterSession(Head(inbox).chan), Head(inbox).src,
                        Head(inbox).msg)
        /\ UNCHANGED summaries
    BY <1>4 DEF Record
  <2> QED
    BY <1>2, <2>2, <2>3, RepeatsByAppend
<1>5. CASE QaBatchWrite /\ Head(replies).ours
  <2>1. Head(replies) \in Answer
    BY <1>1, <1>5, HeadFacts DEF QaBatchWrite, TypeOK, AnsweringOK
  <2>2. /\ Head(replies).chan \in Channel /\ Head(replies).msg \in Nat
        /\ WriterSession(Head(replies).chan) \in Session
    BY <1>1, <2>1, WriterType DEF Answer
  <2>3. /\ AppendRecord(Head(replies).chan, WriterSession(Head(replies).chan), "chat",
                        Head(replies).msg)
        /\ UNCHANGED summaries
    BY <1>5 DEF QaBatchWrite
  <2> QED
    BY <1>2, <2>2, <2>3, RepeatsByAppend
<1>6. CASE QaStructuredWrite
  <2>1. PICK e \in Summary : summaries' = Append(summaries, e) /\ UNCHANGED records /\ e.src = "qa"
    BY <1>1, <1>6, QaSummary
  <2>2. \A k \in DOMAIN summaries' \ DOMAIN summaries : summaries'[k].src = "qa"
    BY <1>1, <2>1, SummaryAppended
  <2> QED
    BY <1>2, <2>1, <2>2, RepeatsByOthers
<1> QED
  BY <1>3, <1>4, <1>5, <1>6 DEF Record, QaBatchWrite

LEMMA RepeatsStep == RepeatInv /\ [Next]_vars => RepeatInv'
<1> SUFFICES ASSUME RepeatInv, [Next]_vars
             PROVE  RepeatInv'
  OBVIOUS
<1>1. MInv /\ MInv' /\ Grows
  BY StepHolds, StoreGrows DEF RepeatInv, MInv
<1>2. TypeOK /\ TypeOK'
  BY <1>1 DEF MInv
<1>3. worker \notin {"save", "mark"} => batch = {}
  BY <1>2 DEF TypeOK, WorkerOK
<1>4. CASE \/ UNCHANGED << records, summaries, repair, subject, batch, todo >>
           \/ WorkerStart
  <2>1. /\ UNCHANGED << records, summaries, repair, subject, batch >>
        /\ batch = {} \/ todo' = todo
    BY <1>3, <1>4 DEF WorkerStart, store, repairer
  <2> QED
    BY <1>1, <1>2, <2>1, RepeatsByOthers DEF RepeatInv
<1>5. CASE Record \/ QaBatchWrite \/ QaStructuredWrite
  BY <1>1, <1>2, <1>5, RepeatsByStored DEF RepeatInv
<1>6. CASE Fetch \/ SaveSummary \/ Mark \/ WorkerFails
  BY <1>1, <1>2, <1>6, RepeatsByFetch, RepeatsBySave, RepeatsByMark, RepeatsByFault DEF RepeatInv
<1>7. CASE RepairNext \/ RepairCrash \/ (\E s \in Session : RepairStart(s))
  BY <1>1, <1>2, <1>7, RepeatsByRepair, RepeatsByUnmark, RepeatsByFault, RepeatsByRepairStart
  DEF RepeatInv, RepairNext
<1> QED
  BY <1>4, <1>5, <1>6, <1>7
  DEF Next, vars, store, cycle, repairer, NextDay, Speak, Reply, Request, RecorderNext, Activate,
      RecordAck, RecorderCrash, QaNext, QaClaim, QaBatchActivate, QaStructuredActivate, QaAck,
      QaFails, QaCrash, Signal, WorkerNext,
      RunOnce, Wake, Clear, Consume

-----------------------------------------------------------------------------
(* The theorems *)

\* Every reachable state is well typed.
THEOREM Typing == Spec => []TypeOK
<1>1. MInv => TypeOK
  BY DEF MInv
<1> QED
  BY InitHolds, StepHolds, <1>1, PTL DEF Spec

\* An acknowledged message is in the store or its claim is a dead process's, and
\* outside a repair every record marked summarized is covered by a summary, whatever
\* crashes between the commits of the recorder, the QA writer and the worker.
THEOREM Lossless == Spec => []NothingLost
<1>1. MInv => NothingLost
  <2> SUFFICES ASSUME MInv
               PROVE  NothingLost
    OBVIOUS
  <2>1. \A m \in acked : Recorded(m) \/ m \in orphans
    BY DEF MInv, Keeping, AckedKept
  <2>2. disturbed \/ repair # "idle" \/ \A i \in Ids : records[i].marked => Covered(i)
    BY DEF MInv, Covering, MarkedCovered
  <2> QED
    BY <2>1, <2>2 DEF NothingLost
<1> QED
  BY InitHolds, StepHolds, <1>1, PTL DEF Spec

\* The session of a pending request is never slept through: the event is set, or
\* the worker is on its way to it.
THEOREM Prompt == Spec => []NoRequestSleeps
<1>1. Init => NoRequestSleeps
  BY DEF Init, NoRequestSleeps
<1>2. NoRequestSleeps /\ [Next]_vars => NoRequestSleeps'
  <2> SUFFICES ASSUME NoRequestSleeps, [Next]_vars
               PROVE  NoRequestSleeps'
    OBVIOUS
  <2>1. CASE UNCHANGED << pending, event, worker >>
    BY <2>1 DEF NoRequestSleeps
  <2>2. CASE \/ WorkerStart \/ Signal \/ RunOnce \/ Fetch \/ SaveSummary \/ Mark \/ Wake \/ Clear
             \/ Consume \/ WorkerFails
    BY <2>2, AfterCycleIn DEF NoRequestSleeps, WorkerStart, Signal, RunOnce, Fetch, SaveSummary,
       Mark, Wake, Clear, Consume, WorkerFails, handle, cycle
  <2> QED
    BY <2>1, <2>2
    DEF Next, vars, handle, cycle, NextDay, Speak, Reply, Request, RecorderNext, Record, Activate,
        RecordAck, RecorderCrash, QaNext, QaClaim, QaBatchWrite, QaBatchActivate,
        QaStructuredActivate, QaStructuredWrite, QaAck, QaFails, QaCrash, WorkerNext,
        RepairStart, RepairNext, Relocate, Unmark, Delete, Reset, RepairCrash
<1> QED
  BY <1>1, <1>2, PTL DEF Spec

\* A record is summarized twice only if a process failed or a repair was run, and
\* once more for each, for any number of cycles, requests and records.
THEOREM Repeats == Spec => []RepeatsOnlyAfterFault
<1>1. RepeatInv => RepeatsOnlyAfterFault
  <2> SUFFICES ASSUME RepeatInv, NEW i \in Ids
               PROVE  Cardinality(SummariesOf(i)) <= 1 + faults + repairs
    BY DEF RepeatsOnlyAfterFault, SummariesOf
  <2>1. TypeOK /\ Paid(i)
    BY DEF RepeatInv, MInv
  <2>2. /\ Cardinality(SummariesOf(i)) \in Nat /\ Unit(Opened(i)) \in Nat /\ Unit(Owed(i)) \in Nat
        /\ faults \in Nat /\ repairs \in Nat
    BY <2>1, SummariesFinite DEF Unit, TypeOK, EnvironmentOK
  <2> QED
    BY <2>1, <2>2 DEF Paid
<1> QED
  BY RepeatsInit, RepeatsStep, <1>1, PTL DEF Spec
=============================================================================

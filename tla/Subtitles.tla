----------------------------- MODULE Subtitles -----------------------------
(***************************************************************************)
(* sub-visual: chat messages go through a filter to a subtitle, in a file  *)
(* or over Spout2.  The filter and the output are those of sub_visual.json,*)
(* read when the process starts and again at every notice of a change,     *)
(* which waits in the same queue as the chat.                              *)
(*                                                                         *)
(* Of the configuration GUI there is what matters here, one save at a time *)
(* (ConfigReload has all of it): it writes the file in place and then      *)
(* announces the change, if RabbitMQ is there.                             *)
(***************************************************************************)
EXTENDS Integers, Sequences

CONSTANTS Texts,       \* what chat messages say
          MaxEdits,    \* bound: versions of the file
          MaxWaiting,  \* bound: messages and foreign notices in the queue
          SubtitleRuns \* bound: starts of the process

VARIABLES
    edits,     \* the versions saved: what each blocks, and its backend
    torn,      \* the file is being rewritten
    notice,    \* versions whose notice was published
    waiting,   \* the queue
    spout,     \* SpoutGL: "texts", "no texts" or "absent"
    override,  \* --backend, or none
    visual,    \* the process: [up, version (0: the defaults), sender]
    shown,     \* history: the subtitles sent
    visualRuns

subtitleVars == << edits, torn, notice, waiting, spout, override, visual, shown,
                   visualRuns >>
outside == << edits, torn, notice, spout, override >>

Backend == {"file", "spout2"}
Defaults == [blocks |-> {}, backend |-> "file"]
Version(v) == IF v = 0 THEN Defaults ELSE edits[v]

SubtitleInit ==
    /\ edits = << >> /\ torn = FALSE /\ notice = 0 /\ waiting = << >>
    /\ spout \in {"texts", "no texts", "absent"} /\ override \in Backend \cup {"none"}
    /\ visual = [up |-> FALSE, version |-> 0, sender |-> "file"]
    /\ shown = {} /\ visualRuns = 0

-----------------------------------------------------------------------------
(* Around it *)

EditBegins ==
    /\ ~torn /\ Len(edits) < MaxEdits /\ torn' = TRUE
    /\ UNCHANGED << edits, notice, waiting, spout, override, visual, shown, visualRuns >>

EditEnds(config) ==
    /\ torn /\ torn' = FALSE /\ edits' = Append(edits, config)
    /\ UNCHANGED << notice, waiting, spout, override, visual, shown, visualRuns >>

\* The notice of the last version saved; it may be lost, then this is not taken.
NoticeQueued ==
    /\ ~torn /\ notice < Len(edits) /\ notice' = Len(edits)
    /\ waiting' = Append(waiting, [kind |-> "config", text |-> "", after |-> notice'])
    /\ UNCHANGED << edits, torn, spout, override, visual, shown, visualRuns >>

Others == Len(SelectSeq(waiting, LAMBDA m : m.kind # "config"))

\* A chat message, or a notice for another module, profile or file, queued behind the
\* notices published by now.
MessageQueued(kind, text) ==
    /\ Others < MaxWaiting
    /\ waiting' = Append(waiting, [kind |-> kind, text |-> text, after |-> notice])
    /\ UNCHANGED << outside, visual, shown, visualRuns >>

-----------------------------------------------------------------------------
(* VisualSubscriber, SubtitleService *)

\* from_json_path: a file that is missing or no JSON is the defaults, without a word.
InFile == IF torn THEN 0 ELSE Len(edits)

\* build_sender: Spout2, or a file where there is none.
Sender(backend) == IF backend = "spout2" /\ spout # "absent" THEN "spout2" ELSE "file"

\* main: the command line overrides the backend of the file.
StartVisual ==
    /\ ~visual.up /\ visualRuns < SubtitleRuns /\ visualRuns' = visualRuns + 1
    /\ visual' = [up |-> TRUE, version |-> InFile,
                  sender |-> Sender(IF override = "none" THEN Version(InFile).backend
                                    ELSE override)]
    /\ UNCHANGED << outside, waiting, shown >>

\* The process is ended; the message at hand stays in the queue.
EndVisual ==
    /\ visual.up /\ visual' = [visual EXCEPT !.up = FALSE]
    /\ UNCHANGED << outside, waiting, shown, visualRuns >>

\* reload_config; the command line is forgotten.
Reloaded ==
    [visual EXCEPT !.version = InFile, !.sender = Sender(Version(InFile).backend)]

HandleConfigChanged ==
    /\ visual.up /\ waiting # << >> /\ Head(waiting).kind = "config"
    /\ visual' = Reloaded /\ waiting' = Tail(waiting)
    /\ UNCHANGED << outside, shown, visualRuns >>

Accepted == Head(waiting).text \notin Version(visual.version).blocks

\* The filter stops it, or it is a notice for somebody else.
HandleUnmoved ==
    /\ visual.up /\ waiting # << >> /\ Head(waiting).kind # "config"
    /\ Head(waiting).kind = "chat" => ~Accepted
    /\ waiting' = Tail(waiting)
    /\ UNCHANGED << outside, visual, shown, visualRuns >>

\* The subtitle is sent; a process that ends before the acknowledgement sends it again.
HandleChat(ends) ==
    /\ visual.up /\ waiting # << >> /\ Head(waiting).kind = "chat" /\ Accepted
    /\ visual.sender = "spout2" => spout = "texts"
    /\ shown' = shown \cup {[said |-> Head(waiting), version |-> visual.version,
                             sender |-> visual.sender]}
    /\ waiting' = IF ends THEN waiting ELSE Tail(waiting)
    /\ visual' = [visual EXCEPT !.up = ~ends]
    /\ UNCHANGED << outside, visualRuns >>

\* A Spout2 without texts raises: the message is requeued and the process ends.
HandleRaises ==
    /\ visual.up /\ waiting # << >> /\ Head(waiting).kind = "chat" /\ Accepted
    /\ visual.sender = "spout2" /\ spout = "no texts"
    /\ visual' = [visual EXCEPT !.up = FALSE]
    /\ UNCHANGED << outside, waiting, shown, visualRuns >>

SubtitleNext ==
    \/ EditBegins \/ NoticeQueued
    \/ \E B \in SUBSET Texts, backend \in Backend :
          EditEnds([blocks |-> B, backend |-> backend])
    \/ MessageQueued("other", "") \/ \E text \in Texts : MessageQueued("chat", text)
    \/ StartVisual \/ EndVisual \/ HandleConfigChanged \/ HandleUnmoved \/ HandleRaises
    \/ \E ends \in BOOLEAN : HandleChat(ends)

SubtitleSpec == SubtitleInit /\ [][SubtitleNext]_subtitleVars

-----------------------------------------------------------------------------
\* What is shown obeys the file.  A message that came after the notice of a change is
\* never judged by the rules from before it, through restarts and messages handled
\* twice: one that every version since has blocked stays off the screen (handle,
\* _handle_config_changed, reload_config).  The one way round is a file that could not
\* be read, which blocks nothing (from_json_path).
SubtitlesObey ==
    \A s \in shown : s.version # 0 =>
       \E v \in s.said.after..s.version : s.said.text \notin Version(v).blocks
=============================================================================

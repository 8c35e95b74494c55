------------------------------ MODULE MemoryBoard ------------------------------
(***************************************************************************)
(* The memory board: a listener thread counts the announcements of new     *)
(* summaries in a revision, HTTP threads answer with the revision and what *)
(* the store holds, and a page in the browser loads again when the         *)
(* revision is not the one it remembers.  The page polls whether or not an *)
(* earlier load is still under way, and a click starts one more, so loads  *)
(* overlap and their answers may cross.                                    *)
(*                                                                         *)
(* The page stays with the session it first found active until another one *)
(* is clicked, and the board answers with the oldest BoardLimit summaries  *)
(* of it: a newer session, and what a long session says last, are not      *)
(* shown at all.                                                           *)
(***************************************************************************)
EXTENDS Naturals, Sequences, FiniteSets

CONSTANTS
    Session,       \* sessions of the store
    BoardLimit,    \* list_summaries: limit = 100
    Load,          \* bound: the loads that can be under way at a time
    MaxSummaries,  \* bound: summaries the memory worker saves
    BoardRuns,     \* bound: starts of sub-memory-board
    BoardTroubles  \* bound: requests that fail, connections lost, announcements lost

Absent == "none"

VARIABLES
    saved,      \* the summaries in the store: saved[k] is the session of summary k
    active,     \* the session resolve_session_for_channel finds
    announcements, \* memory.summary.ready in the board's queue, oldest first
    listening,  \* the listener thread consumes
    revision,   \* MemoryBoardState._revision
    counted,    \* history: newest summary whose notice this process has counted
    boards,     \* starts of the process
    mishaps,    \* of them so far
    tab,        \* the page: rev, selected, listed, shown and of which session
    loads       \* its requests under way

boardVars == <<saved, active, announcements, listening, revision, counted, boards, mishaps,
               tab, loads>>
board == <<announcements, listening, revision, counted, boards>>

\* What a load waits for and what the server has read for it so far: the revision, then
\* what the store says - the active session, or the summaries of the session asked for.
NoLoad == [state |-> "none", asked |-> "no", read |-> 0, run |-> 0,
           session |-> Absent, list |-> {}]
Request(state, s) == [NoLoad EXCEPT !.state = state, !.session = s]

\* The script of the page ends with a first load.  half: the revision was last taken from
\* a list of sessions, its summaries are still to come.  run: the process it came from.
BoardInit ==
    /\ saved = <<>> /\ active = Absent /\ announcements = <<>> /\ listening = TRUE
    /\ revision = 0 /\ counted = 0 /\ boards = 1 /\ mishaps = 0
    /\ tab = [rev |-> 0, selected |-> Absent, listed |-> FALSE, shown |-> {}, of |-> Absent,
              run |-> 0, half |-> TRUE]
    /\ \E first \in Load :
          loads = [l \in Load |-> IF l = first THEN Request("sessions", Absent) ELSE NoLoad]

\* The oldest summaries of a session among the first n, as many as the limit lets through.
Oldest(s, n) ==
    {k \in 1 .. n : saved[k] = s /\ Cardinality({j \in 1 .. k - 1 : saved[j] = s}) < BoardLimit}

-------------------------------------------------------------------------------
\* Another session becomes the active one.
Activate(s) ==
    /\ s # active /\ active' = s
    /\ UNCHANGED <<saved, board, mishaps, tab, loads>>

\* The memory worker saves a summary, then publishes its notice.
Summary(s, announced) ==
    /\ Len(saved) < MaxSummaries /\ saved' = Append(saved, s)
    /\ announced \/ mishaps < BoardTroubles
    /\ announcements' = IF announced THEN Append(announcements, Len(saved')) ELSE announcements
    /\ mishaps' = IF announced THEN mishaps ELSE mishaps + 1
    /\ UNCHANGED <<active, listening, revision, counted, boards, tab, loads>>

\* on_message: bump, then the acknowledgement; a connection lost between the two
\* redelivers the notice to the next process.
Bump(acked) ==
    /\ listening /\ announcements # <<>>
    /\ acked \/ mishaps < BoardTroubles
    /\ revision' = revision + 1
    /\ counted' = IF Head(announcements) > counted THEN Head(announcements) ELSE counted
    /\ announcements' = IF acked THEN Tail(announcements) ELSE announcements
    /\ listening' = acked
    /\ mishaps' = IF acked THEN mishaps ELSE mishaps + 1
    /\ UNCHANGED <<saved, active, boards, tab, loads>>

\* The connection is lost while idle: the thread prints and ends, HTTP goes on.
ListenerEnds ==
    /\ listening /\ mishaps < BoardTroubles
    /\ listening' = FALSE /\ mishaps' = mishaps + 1
    /\ UNCHANGED <<saved, active, announcements, revision, counted, boards, tab, loads>>

\* main again: a new state, hence a revision that starts at 0.  A load whose answer was
\* being made fails; an answer that was sent may still arrive.
BoardRestart ==
    /\ boards < BoardRuns /\ boards' = boards + 1
    /\ listening' = TRUE /\ revision' = 0 /\ counted' = 0
    /\ loads' = [l \in Load |-> IF loads[l].asked = "rev" /\ loads[l].state # "meta"
                                THEN NoLoad ELSE loads[l]]
    /\ UNCHANGED <<saved, active, announcements, mishaps, tab>>

-------------------------------------------------------------------------------
\* setInterval: a poll every 15 s.
Poll(l) ==
    /\ loads[l] = NoLoad /\ loads' = [loads EXCEPT ![l] = Request("meta", Absent)]
    /\ UNCHANGED <<saved, active, board, mishaps, tab>>

\* A button of the list of sessions (of which any may be in it).
Click(l, s) ==
    /\ tab.listed /\ loads[l] = NoLoad
    /\ tab' = [tab EXCEPT !.selected = s]
    /\ loads' = [loads EXCEPT ![l] = Request("summaries", s)]
    /\ UNCHANGED <<saved, active, board, mishaps>>

\* do_GET: self.state.revision is read before the store is.
ReadRevision(l) ==
    /\ loads[l].state # "none" /\ loads[l].asked = "no"
    /\ loads' = [loads EXCEPT ![l].asked = "rev", ![l].read = revision, ![l].run = boards]
    /\ UNCHANGED <<saved, active, board, mishaps, tab>>

\* sessions_payload resolves the active session; summaries_payload lists the summaries of
\* the session in the path.
ReadStore(l) ==
    /\ loads[l].state \in {"sessions", "summaries"} /\ loads[l].asked = "rev"
    /\ loads' = [loads EXCEPT
          ![l].asked = "list",
          ![l].session = IF loads[l].state = "sessions" THEN active ELSE @,
          ![l].list = IF loads[l].state = "sessions" THEN {}
                       ELSE Oldest(loads[l].session, Len(saved))]
    /\ UNCHANGED <<saved, active, board, mishaps, tab>>

\* poll: the page loads anew when the revision is another one.
Meta(l) ==
    /\ loads[l].state = "meta" /\ loads[l].asked = "rev"
    /\ loads' = [loads EXCEPT ![l] = IF @.read # tab.rev THEN Request("sessions", Absent)
                                     ELSE NoLoad]
    /\ UNCHANGED <<saved, active, board, mishaps, tab>>

\* loadSessions: the page takes the revision, stays with its session or takes the active
\* one, and asks for the summaries.
Sessions(l) ==
    /\ loads[l].state = "sessions" /\ loads[l].asked = "list"
    /\ LET target == IF tab.selected # Absent THEN tab.selected ELSE loads[l].session
       IN  /\ tab' = [tab EXCEPT !.rev = loads[l].read, !.run = loads[l].run, !.half = TRUE,
                                 !.listed = TRUE, !.selected = target]
           /\ loads' = [loads EXCEPT ![l] = IF target = Absent THEN NoLoad
                                            ELSE Request("summaries", target)]
    /\ UNCHANGED <<saved, active, board, mishaps>>

\* What loadSummaries does with its answer, but for the revision.
Shows(l, rev) ==
    /\ loads[l].state = "summaries" /\ loads[l].asked = "list"
    /\ tab' = [tab EXCEPT !.rev = rev, !.run = loads[l].run, !.half = FALSE,
                          !.shown = loads[l].list, !.of = loads[l].session]
    /\ loads' = [loads EXCEPT ![l] = NoLoad]
    /\ UNCHANGED <<saved, active, board, mishaps>>

\* Mutant: the revision is read last, when the answer is sent.
Summaries_RevisionLast(l) == Shows(l, revision)

\* loadSummaries: the revision and the list of this answer.
Summaries(l) == Shows(l, loads[l].read)

\* A request fails: the page shows the error and waits for the next poll.
RequestFails(l) ==
    /\ loads[l] # NoLoad /\ mishaps < BoardTroubles
    /\ mishaps' = mishaps + 1 /\ loads' = [loads EXCEPT ![l] = NoLoad]
    /\ UNCHANGED <<saved, active, board, tab>>

BoardNext ==
    \/ \E s \in Session : Activate(s) \/ \E announced \in BOOLEAN : Summary(s, announced)
    \/ \E acked \in BOOLEAN: Bump(acked)
    \/ ListenerEnds \/ BoardRestart
    \/ \E l \in Load :
          \/ Poll(l) \/ (\E s \in Session : Click(l, s)) \/ ReadRevision(l) \/ ReadStore(l)
          \/ Meta(l) \/ Sessions(l) \/ Summaries(l) \/ RequestFails(l)

BoardSpec == BoardInit /\ [][BoardNext]_boardVars

-------------------------------------------------------------------------------
\* A page that remembers the current revision, so that no poll makes it load again,
\* shows every summary that this process has counted and that the board shows at all of
\* the session on the page, however loads and clicks crossed - unless its revision is
\* that of a list of sessions whose summaries never came, or of an earlier process
\* (http_server.do_GET, board.html loadSessions and loadSummaries).
BoardCurrent ==
    tab.rev = revision /\ tab.run = boards /\ ~tab.half
       => Oldest(tab.of, counted) \subseteq tab.shown

===============================================================================

------------------------- MODULE CharacterPipeline -------------------------
(***************************************************************************)
(* How the character answers the chat: sub-character-brain turns a         *)
(* chat.message into a character.turn, remembers it and replies in chat;   *)
(* sub-character-voice and sub-character-face turn the turn into an audio  *)
(* and an expression, which TurnCoordinator joins by the turn's id.        *)
(*                                                                         *)
(* Each is a process with a durable queue that acknowledges a message when *)
(* its handler returns: one that ends in between is started again and      *)
(* given the message again, with nothing remembered.  A turn reaches the   *)
(* queues that are bound when it is published.                             *)
(***************************************************************************)
EXTENDS Integers, Sequences, FiniteSets

CONSTANTS Followers,     \* sub-character-voice and sub-character-face
          MemoryTurns,   \* memory_max_turns
          MaxAsked,      \* bound: chat messages
          MaxTurns,      \* bound: turns ever published
          MaxInterrupted \* bound: processes that end at a bad moment

\* _append_memory keeps memory_max_turns of them; 0 and less keep none.
ASSUME CharacterAssumption == MemoryTurns \in Nat

VARIABLES
    inbox,      \* the brain's queue: the messages said, by number
    answering,  \* respond_to_all, and where the handler stands with the head of inbox
    memory,     \* CharacterBrain._memory: the texts said
    turns,      \* history: the turns published, in order
    thisRun,    \* history: how many were before this run of the brain
    replies,    \* the chat.reply events published
    bound,      \* the followers whose queue is bound
    follow,     \* the queue of each follower and whether it works on the head
    made,       \* the events each follower published: [turn |-> id, text |-> text]
    asked, interrupted \* messages said and processes ended so far

characterVars == << inbox, answering, memory, turns, thisRun, replies, bound, follow,
                    made, asked, interrupted >>
brainVars == << inbox, answering, memory, turns, thisRun, replies, asked >>
followVars == << bound, follow, made >>

CharacterInit ==
    /\ inbox = << >> /\ memory = << >> /\ turns = << >> /\ thisRun = 0 /\ replies = {}
    /\ \E all \in BOOLEAN : answering = [all |-> all, at |-> "idle"]
    /\ bound = {} /\ follow = [f \in Followers |-> [queue |-> << >>, busy |-> FALSE]]
    /\ made = [f \in Followers |-> {}] /\ asked = 0 /\ interrupted = 0

BrainAt(step) == answering.at = step
BrainTo(step) == answering' = [answering EXCEPT !.at = step]
Interrupted == interrupted < MaxInterrupted /\ interrupted' = interrupted + 1

-----------------------------------------------------------------------------
(* sub-character-brain *)

\* A chat message, with the trigger prefix or without it.
AskCharacter(prefix) ==
    /\ asked < MaxAsked /\ asked' = asked + 1
    /\ inbox' = Append(inbox, [id |-> asked', prefix |-> prefix])
    /\ UNCHANGED << answering, memory, turns, thisRun, replies, followVars, interrupted >>

\* _should_respond: the prefix, unless the character answers everything.
ShouldRespond(m) == answering.all \/ m.prefix

\* Up to the turn; the filter may stop what was said or what would be answered.
Generate(accepted) ==
    /\ BrainAt("idle") /\ inbox # << >>
    /\ BrainTo(IF ShouldRespond(Head(inbox)) /\ accepted THEN "turn" ELSE "settle")
    /\ UNCHANGED << inbox, memory, turns, thisRun, replies, followVars, asked, interrupted >>

\* Mutant: the turn takes the id of the message.
TurnId_Message == Head(inbox).id

\* uuid.uuid4(): an id of its own for every answer.
TurnId == Len(turns) + 1

\* publish of character.turn, to the queues bound.
PublishTurn ==
    /\ BrainAt("turn") /\ Len(turns) < MaxTurns
    /\ LET turn == [id |-> TurnId, text |-> Len(turns) + 1, of |-> Head(inbox).id]
       IN  /\ turns' = Append(turns, turn)
           /\ follow' = [f \in Followers |->
                  IF f \in bound THEN [follow[f] EXCEPT !.queue = Append(@, turn)] ELSE follow[f]]
    /\ BrainTo("memory")
    /\ UNCHANGED << inbox, memory, thisRun, replies, bound, made, asked, interrupted >>

Newest(s, n) == IF Len(s) > n THEN SubSeq(s, Len(s) - n + 1, Len(s)) ELSE s

\* _append_memory, then the reply in chat if the character gives one.
Remember(reply) ==
    /\ BrainAt("memory")
    /\ memory' = Newest(Append(memory, turns[Len(turns)].text), MemoryTurns)
    /\ BrainTo(IF reply THEN "reply" ELSE "settle")
    /\ UNCHANGED << inbox, turns, thisRun, replies, followVars, asked, interrupted >>

\* publish of chat.reply, with the text as far as chat_reply_max_length allows.
PublishReply ==
    /\ BrainAt("reply")
    /\ replies' = replies \cup {[of |-> Head(inbox).id, text |-> turns[Len(turns)].text]}
    /\ BrainTo("settle")
    /\ UNCHANGED << inbox, memory, turns, thisRun, followVars, asked, interrupted >>

BrainSettles ==
    /\ BrainAt("settle") /\ BrainTo("idle") /\ inbox' = Tail(inbox)
    /\ UNCHANGED << memory, turns, thisRun, replies, followVars, asked, interrupted >>

\* The process ends, by an exception of the model or of RabbitMQ or from outside.
BrainEnds ==
    /\ Interrupted /\ BrainTo("idle")
    /\ memory' = << >> /\ thisRun' = Len(turns)
    /\ UNCHANGED << inbox, turns, replies, followVars, asked >>

-----------------------------------------------------------------------------
(* sub-character-voice, sub-character-face *)

\* The first start declares and binds the queue; it outlives the process.
BindFollower(f) ==
    /\ f \notin bound /\ bound' = bound \cup {f}
    /\ UNCHANGED << brainVars, follow, made, interrupted >>

\* handle: synthesize or map, then publish the event with the id of the turn.
Serve(f) ==
    /\ follow[f].queue # << >> /\ ~follow[f].busy
    /\ LET turn == Head(follow[f].queue)
       IN  made' = [made EXCEPT ![f] = @ \cup {[turn |-> turn.id, text |-> turn.text]}]
    /\ follow' = [follow EXCEPT ![f].busy = TRUE]
    /\ UNCHANGED << brainVars, bound, interrupted >>

ServeAck(f) ==
    /\ follow[f].busy
    /\ follow' = [follow EXCEPT ![f] = [queue |-> Tail(@.queue), busy |-> FALSE]]
    /\ UNCHANGED << brainVars, bound, made, interrupted >>

\* It ends after it published and before the acknowledgement; before, nothing happened.
FollowerEnds(f) ==
    /\ Interrupted /\ follow[f].busy
    /\ follow' = [follow EXCEPT ![f].busy = FALSE]
    /\ UNCHANGED << brainVars, bound, made >>

-----------------------------------------------------------------------------
CharacterNext ==
    \/ \E yes \in BOOLEAN : AskCharacter(yes) \/ Generate(yes) \/ Remember(yes)
    \/ PublishTurn \/ PublishReply \/ BrainSettles \/ BrainEnds
    \/ \E f \in Followers : BindFollower(f) \/ Serve(f) \/ ServeAck(f) \/ FollowerEnds(f)

CharacterSpec == CharacterInit /\ [][CharacterNext]_characterVars

-----------------------------------------------------------------------------
\* What is heard, seen and read of an answer belongs together.  The audio and the
\* expression of one turn id are of one text, though a message handled again after a
\* crash is answered anew, with another memory (CharacterBrain.handle, turn_id); a reply
\* in chat has the text of a turn that was published; and the brain remembers the last
\* answers of its run, in order, but never one that was not published (_append_memory).
AnswersBelongTogether ==
    /\ \A f, g \in Followers : \A x \in made[f], y \in made[g] :
          x.turn = y.turn => x.text = y.text
    /\ \A r \in replies : \E k \in DOMAIN turns :
          turns[k].of = r.of /\ turns[k].text = r.text
    /\ ~BrainAt("memory") =>
          memory = Newest([k \in 1..(Len(turns) - thisRun) |-> turns[k + thisRun].text],
                        MemoryTurns)
=============================================================================

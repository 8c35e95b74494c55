------------------------------- MODULE MCLlm -------------------------------
\* Five parts of sub-llm and its neighbour sub-live-status that share nothing but
\* the bus, checked in one run: the questions, the Chroma index, the announcement
\* of the stream's state, the live context and the stream's metadata.
EXTENDS LlmSubscriber, KnowledgeIndex, LiveStatus, LiveContext, StreamInfo, TLC

VARIABLE part   \* which of them this behaviour is about

Parts == {"ask", "index", "status", "context", "info"}

Init ==
    /\ part \in Parts
    /\ AskInit
    /\ IndexInit
    /\ StatusInit
    /\ ContextInit
    /\ InfoInit
    /\ part # "context" =>       \* the others do not look at these
          /\ span = CHOOSE w \in Windows : TRUE
          /\ limit = CHOOSE l \in Limits : TRUE

Next ==
    /\ UNCHANGED part
    /\ \/ /\ part = "ask" /\ AskNext
          /\ UNCHANGED << indexVars, statusVars, contextVars, infoVars >>
       \/ /\ part = "index" /\ IndexNext
          /\ UNCHANGED << askVars, statusVars, contextVars, infoVars >>
       \/ /\ part = "status" /\ StatusNext
          /\ UNCHANGED << askVars, indexVars, contextVars, infoVars >>
       \/ /\ part = "context" /\ ContextNext
          /\ UNCHANGED << askVars, indexVars, statusVars, infoVars >>
       \/ /\ part = "info" /\ InfoNext
          /\ UNCHANGED << askVars, indexVars, statusVars, contextVars >>

\* Nothing orders the processes, questions, sources or chunks.
Interchangeable == Permutations(Instance) \cup Permutations(Question)
                       \cup Permutations(Source) \cup Permutations(Chunk)

Spec == Init /\ [][Next]_<< part, askVars, indexVars, statusVars, contextVars, infoVars >>

\* What the prompts say is current: nothing recent is forgotten (context_buffer.py) and
\* title and game are those of the stream when Twitch was last asked in a minute without
\* a change or a fault (ingress_twitch_stream).
ContextCurrent == NothingRecentForgotten /\ MetadataTrue
=============================================================================

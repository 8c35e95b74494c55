-------------------------- MODULE MCThrottleBoard --------------------------
\* Two parts with threads of their own that share nothing, checked in one run: the
\* throttle of the connector, and the memory board with its page in the browser.
EXTENDS MessageThrottle, MemoryBoard, TLC

CONSTANTS x, y   \* channels

VARIABLE part   \* which of the two this behaviour is about

Init ==
    /\ part \in {"throttle", "board"}
    /\ ThrottleInit
    /\ BoardInit
    /\ part # "throttle" =>        \* the board does not look at it
          \E c \in PacedChannel : channel = [t \in Thread |-> c]

Next ==
    /\ UNCHANGED part
    /\ \/ part = "throttle" /\ ThrottleNext /\ UNCHANGED boardVars
       \/ part = "board" /\ BoardNext /\ UNCHANGED throttleVars

\* Nothing orders the threads, channels, sessions or requests.
Interchangeable == Permutations(Thread) \cup Permutations(PacedChannel)
                       \cup Permutations(Session) \cup Permutations(Load)

Spec == Init /\ [][Next]_<< part, throttleVars, boardVars >>
=============================================================================

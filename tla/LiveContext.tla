---------------------------- MODULE LiveContext ----------------------------
(***************************************************************************)
(* What sub-llm remembers of the stream for its prompts: for each channel  *)
(* the speech, the chat and the bot's own answers of the last minutes      *)
(* (sub_llm/context_buffer.py; the metadata is in StreamInfo).  The three  *)
(* buffers share one algorithm: append, drop what is older than the window *)
(* counted back from the entry just appended, then all but the last        *)
(* `limit`. Pruning happens only there: time passing or a reconfigured     *)
(* window drops nothing until the next entry comes.                        *)
(***************************************************************************)
EXTENDS Integers, Sequences, FiniteSets

CONSTANTS Windows,    \* what context_window_minutes can be
          Limits,     \* max_lines, max_pairs
          MaxClock,   \* bound: minutes
          MaxHeard    \* bound: entries

ASSUME ContextAssumption == Windows \subseteq Nat \ {0} /\ Limits \subseteq Nat \ {0}

VARIABLES
    minute,     \* the time
    heard,      \* the timestamps of all entries, in order of arrival
    kept,       \* which of them are in the buffer
    span, limit,
    narrowest, tightest   \* history: the smallest window and limit so far

contextVars == << minute, heard, kept, span, limit, narrowest, tightest >>

ContextInit ==
    /\ minute = 0 /\ heard = << >> /\ kept = {}
    /\ span \in Windows /\ limit \in Limits
    /\ narrowest = span /\ tightest = limit

Minute ==
    /\ minute < MaxClock /\ minute' = minute + 1
    /\ UNCHANGED << heard, kept, span, limit, narrowest, tightest >>

\* _prune_locked: the cutoff is relative to the last entry, the last `limit` stay.
Pruned(entries, times) ==
    LET cutoff == times[Len(times)] - span
        recent == {k \in entries : times[k] >= cutoff}
    IN  {k \in recent : Cardinality({j \in recent : j > k}) < limit}

\* An entry may arrive late: speech is transcribed after it was spoken.
AddEntry(at) ==
    /\ Len(heard) < MaxHeard
    /\ heard' = Append(heard, at)
    /\ kept' = Pruned(kept \cup {Len(heard) + 1}, heard')
    /\ UNCHANGED << minute, span, limit, narrowest, tightest >>

Least(m, n) == IF m < n THEN m ELSE n

Reconfigure(w, l) ==
    /\ << w, l >> # << span, limit >>
    /\ span' = w /\ limit' = l
    /\ narrowest' = Least(narrowest, w) /\ tightest' = Least(tightest, l)
    /\ UNCHANGED << minute, heard, kept >>

ContextNext ==
    \/ Minute
    \/ \E at \in 0..minute : AddEntry(at)
    \/ \E w \in Windows, l \in Limits : Reconfigure(w, l)

ContextSpec == ContextInit /\ [][ContextNext]_contextVars

\* Nothing recent is forgotten: an entry within the narrowest window of the newest one
\* is in the prompt, unless as many entries as the tightest limit came after it.
NothingRecentForgotten ==
    \A k \in DOMAIN heard :
       /\ \A j \in DOMAIN heard : heard[k] >= heard[j] - narrowest
       /\ Len(heard) - k < tightest
       => k \in kept
=============================================================================

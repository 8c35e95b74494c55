----------------------------- MODULE LiveStatus -----------------------------
(***************************************************************************)
(* sub-live-status: the first stream.metadata an instance handles is       *)
(* announced in the chat, once among all instances: a claim decides        *)
(* (sub_live_status/handler.py, __main__.py).  Instances compete for one   *)
(* queue; the metadata are published again and again, so which instance    *)
(* gets one is open, and a queue is not modelled.                          *)
(***************************************************************************)
EXTENDS Integers, FiniteSets, Sequences

CONSTANTS Announcer,   \* the sub-live-status processes
          MaxLives     \* bound: processes started

ASSUME StatusAssumption == IsFiniteSet(Announcer)

VARIABLES
    status,      \* [Announcer -> "down" | "up" | "claimed"]
    announced,   \* [Announcer -> _announced]
    claim,       \* the row sub_live_status.startup
    said,        \* history: announcements published
    exits,       \* history: ends through main's finally
    lives

statusVars == << status, announced, claim, said, exits, lives >>

StatusInit ==
    /\ status = [a \in Announcer |-> "down"] /\ announced = [a \in Announcer |-> FALSE]
    /\ claim = FALSE /\ said = 0 /\ exits = 0 /\ lives = 0

StatusStart(a) ==
    /\ status[a] = "down" /\ lives < MaxLives /\ lives' = lives + 1
    /\ status' = [status EXCEPT ![a] = "up"]
    /\ announced' = [announced EXCEPT ![a] = FALSE]
    /\ UNCHANGED << claim, said, exits >>

\* Announcing is switched off: `_announced` is set all the same.
HandleDisabled(a) ==
    /\ status[a] = "up" /\ ~announced[a]
    /\ announced' = [announced EXCEPT ![a] = TRUE]
    /\ UNCHANGED << status, claim, said, exits, lives >>

\* "duplicate instance": the claim is another's, and `_announced` is set.
HandleDuplicate(a) ==
    /\ status[a] = "up" /\ ~announced[a] /\ claim
    /\ announced' = [announced EXCEPT ![a] = TRUE]
    /\ UNCHANGED << status, claim, said, exits, lives >>

\* Mutant: whether the claim is taken is not asked.
HandleClaim_Anyhow(a) ==
    /\ status[a] = "up" /\ ~announced[a]
    /\ claim' = TRUE /\ status' = [status EXCEPT ![a] = "claimed"]
    /\ UNCHANGED << announced, said, exits, lives >>

HandleClaim(a) ==
    /\ status[a] = "up" /\ ~announced[a] /\ ~claim
    /\ claim' = TRUE /\ status' = [status EXCEPT ![a] = "claimed"]
    /\ UNCHANGED << announced, said, exits, lives >>

Announce(a) ==
    /\ status[a] = "claimed"
    /\ status' = [status EXCEPT ![a] = "up"]
    /\ announced' = [announced EXCEPT ![a] = TRUE]
    /\ said' = said + 1
    /\ UNCHANGED << claim, exits, lives >>

\* The finally of main: whoever has `_announced` releases the claim.  A publish that
\* raised left it FALSE, and the claim stays.
StatusExit(a) ==
    /\ status[a] # "down"
    /\ status' = [status EXCEPT ![a] = "down"]
    /\ claim' = (claim /\ ~announced[a])
    /\ exits' = IF announced[a] THEN exits + 1 ELSE exits
    /\ UNCHANGED << announced, said, lives >>

StatusKilled(a) ==
    /\ status[a] # "down"
    /\ status' = [status EXCEPT ![a] = "down"]
    /\ UNCHANGED << announced, claim, said, exits, lives >>

StatusNext ==
    \E a \in Announcer :
       \/ StatusStart(a) \/ HandleDisabled(a) \/ HandleDuplicate(a) \/ HandleClaim(a)
       \/ Announce(a) \/ StatusExit(a) \/ StatusKilled(a)

StatusSpec == StatusInit /\ [][StatusNext]_statusVars

\* The chat is told once however many instances start or are killed: again only after
\* an instance left in good order and released the claim.
StatusOncePerExit == said <= 1 + exits
=============================================================================

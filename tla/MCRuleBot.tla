----------------------------- MODULE MCRuleBot -----------------------------
(* Instances of RuleBot for TLC. *)
EXTENDS RuleBot

CONSTANTS c, n, k1, k2, e1, e2, s, x   \* payloads, named for their kinds

MCKind == [m \in Message |-> IF m = c THEN "command"
                             ELSE IF m = n THEN "notice"
                             ELSE IF m \in {k1, k2} THEN "keyword"
                             ELSE IF m \in {e1, e2} THEN "event"
                             ELSE IF m = s THEN "silent" ELSE "poison"]
MCBroadcaster == [m \in Message |-> "streamer"]
=============================================================================

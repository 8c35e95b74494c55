-------------------------- MODULE MCReplyConnector --------------------------
(* Instances of ReplyConnector for TLC. *)
EXTENDS ReplyConnector

CONSTANTS a, b, u,  \* payloads: a and b share a key, u has none
          p, m,     \* unsupported platform; malformed
          k, kp, ch

MCKeyOf     == [r \in Reply |-> IF r \in {a, b} THEN k
                                ELSE IF r = p THEN kp ELSE NoKey]
MCKind      == [r \in Reply |-> IF r = p THEN "unsupported"
                                ELSE IF r = m THEN "malformed" ELSE "twitch"]
MCChannelOf == [r \in Reply |-> ch]
=============================================================================

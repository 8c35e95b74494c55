------------------------------ MODULE MCRunner ------------------------------
(* An instance of Runner for TLC: stacks with and without a chat ingress. *)
EXTENDS Runner

CONSTANTS eventsub, irc, bot, tts

MCStack == {{}, {irc, bot}, {eventsub, bot, tts}, {eventsub, irc, bot}}
=============================================================================

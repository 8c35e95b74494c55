------------------------------ MODULE MCEdges ------------------------------
\* The edges of the system, where chat and speech come in and where text goes out
\* to a screen or a loudspeaker, the character that answers it, and the tokens of its
\* processes, checked in one run; they share nothing but the bus.
EXTENDS ChatIngress, YouTubeChat, AudioIngress, LensReader, ShowOverlay, Subtitles, TtsQueue,
        OAuthTokens, CharacterPipeline

VARIABLE part   \* which of them this behaviour is about

Parts == {"chat", "youtube", "audio", "lens", "overlay",
          "subtitle", "tts", "oauth", "character"}

Init ==
    /\ part \in Parts
    /\ ChatInit
    /\ TubeInit
    /\ AudioInit
    /\ LensInit
    /\ OverlayInit
    /\ SubtitleInit
    /\ TtsInit
    /\ OAuthInit
    /\ CharacterInit
    /\ part # "oauth" => ~single /\ legacy = None          \* the others do not
    /\ part # "character" => ~answering.all                 \* look at these
    /\ part # "subtitle" => spout = "texts" /\ override = "none"

Next ==
    /\ UNCHANGED part
    /\ \/ /\ part = "chat" /\ ChatNext
          /\ UNCHANGED << tubeVars, audioVars, lensVars, overlayVars, subtitleVars,
                          ttsVars, oauthVars, characterVars >>
       \/ /\ part = "youtube" /\ TubeNext
          /\ UNCHANGED << chatVars, audioVars, lensVars, overlayVars, subtitleVars,
                          ttsVars, oauthVars, characterVars >>
       \/ /\ part = "audio" /\ AudioNext
          /\ UNCHANGED << chatVars, tubeVars, lensVars, overlayVars, subtitleVars,
                          ttsVars, oauthVars, characterVars >>
       \/ /\ part = "lens" /\ LensNext
          /\ UNCHANGED << chatVars, tubeVars, audioVars, overlayVars, subtitleVars,
                          ttsVars, oauthVars, characterVars >>
       \/ /\ part = "overlay" /\ OverlayNext
          /\ UNCHANGED << chatVars, tubeVars, audioVars, lensVars, subtitleVars,
                          ttsVars, oauthVars, characterVars >>
       \/ /\ part = "subtitle" /\ SubtitleNext
          /\ UNCHANGED << chatVars, tubeVars, audioVars, lensVars, overlayVars,
                          ttsVars, oauthVars, characterVars >>
       \/ /\ part = "tts" /\ TtsNext
          /\ UNCHANGED << chatVars, tubeVars, audioVars, lensVars, overlayVars,
                          subtitleVars, oauthVars, characterVars >>
       \/ /\ part = "oauth" /\ OAuthNext
          /\ UNCHANGED << chatVars, tubeVars, audioVars, lensVars, overlayVars,
                          subtitleVars, ttsVars, characterVars >>
       \/ /\ part = "character" /\ CharacterNext
          /\ UNCHANGED << chatVars, tubeVars, audioVars, lensVars, overlayVars,
                          subtitleVars, ttsVars, oauthVars >>

Spec ==
    Init /\ [][Next]_<< part, chatVars, tubeVars, audioVars, lensVars, overlayVars,
                        subtitleVars, ttsVars, oauthVars, characterVars >>

-----------------------------------------------------------------------------
\* Chat arrives once: of Twitch (IngressOnce), and of YouTube (TubeInOrder).
ChatArrives == IngressOnce /\ TubeInOrder

\* The screens show what they should: the overlay the chat (OverlayFollows), the
\* subtitles what the rules let pass (SubtitlesObey).
ScreensCurrent == OverlayFollows /\ SubtitlesObey
=============================================================================

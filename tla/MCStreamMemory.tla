--------------------------- MODULE MCStreamMemory ---------------------------
(***************************************************************************)
(* A small instance of StreamMemory: two channels, two days, a table that  *)
(* may hold a record of the wrong channel left by an older version.        *)
(***************************************************************************)
EXTENDS StreamMemory

CONSTANTS a, b, none

MCChannel == {a, b}

MCForeign(marked) ==
    [chan |-> b, sess |-> << a, 1 >>, src |-> "chat", msg |-> 0, marked |-> marked]
MCLegacy == {<< >>, << MCForeign(TRUE) >>}

\* The usual environment, and one with no channel and a fixed session.
MCConfigs ==
    {[mode |-> "both", channel |-> a,    explicit |-> none,       qa |-> "batch",
      run |-> "scheduled", heard |-> {a}],
     [mode |-> "chat", channel |-> none, explicit |-> << a, 1 >>, qa |-> "structured",
      run |-> "until_empty", heard |-> {a}]}
=============================================================================

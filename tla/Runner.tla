------------------------------- MODULE Runner -------------------------------
(***************************************************************************)
(* `app.main run`: the runner starts the chosen processes, watches them,   *)
(* stops them all when one fails or a signal arrives, and falls back from  *)
(* EventSub to IRC when chat cannot be read (main.cmd_run,                 *)
(* runner.run_processes, child_supervisor).                                *)
(*                                                                         *)
(* The signal handler runs in the main thread between any two of its       *)
(* steps; children live their own lives.  A child that does not heed       *)
(* SIGTERM in time is killed, which ends it at once.                       *)
(***************************************************************************)
EXTENDS Integers, FiniteSets

CONSTANTS Process,       \* the registered processes
          Eventsub, Irc, \* EVENTSUB_PROCESS, IRC_FALLBACK_PROCESS
          Stack          \* the sets of processes of a `run` command

ASSUME RunnerAssumption ==
    /\ Eventsub \in Process /\ Irc \in Process /\ Eventsub # Irc
    /\ Stack \subseteq SUBSET Process

VARIABLES
    pc,        \* where run_processes stands
    fallback,  \* chat_fallback
    remaining, \* specs still to start
    starting,  \* a child started and not yet in `processes`: a set of at most one
    processes, \* the children it watches
    tracked,   \* child_supervisor._children
    round,     \* the children still to poll in this round
    child,     \* [Process -> "none" | "running" | how it ended]
    chat,      \* chat_read_ok of eventsub: "unknown", "read" or "refused"
    status,    \* what eventsub printed last: "none", "eventsub", "irc_fallback"
    shutdown,  \* shutdown_requested
    failed,    \* history: run_processes itself saw a failure
    exit,      \* exit_code
    stackLock  \* the stack's own lock file is held

vars == << pc, fallback, remaining, starting, processes, tracked, round, child,
           chat, status, shutdown, failed, exit, stackLock >>

Ended == {"ok", "error", "fallback", "terminated"}
Alive == {c \in Process : child[c] = "running"}

\* Popen.poll() as an exit code that is not 0.
Bad(c) == child[c] \in {"error", "fallback", "terminated"}

\* _split_chat_ingress_specs: is the start of eventsub supervised?
Supervised(specs) == fallback /\ Eventsub \in specs

Init ==
    /\ pc = "command" /\ fallback \in BOOLEAN
    /\ remaining \in Stack
    /\ starting = {} /\ processes = {} /\ tracked = {} /\ round = {}
    /\ child = [c \in Process |-> "none"] /\ chat = "unknown" /\ status = "none"
    /\ shutdown = FALSE /\ failed = FALSE /\ exit = 0 /\ stackLock = FALSE

-----------------------------------------------------------------------------
(* Stopping *)

\* Each child of S ends: it heeds the signal (with its own exit code or by the
\* signal), or is killed when the time is over.
Ending(S) == {[c \in Process |-> IF c \in S THEN e[c] ELSE child[c]] :
                 e \in [S -> {"ok", "terminated"}]}

\* Mutant: the children started and not yet watched are forgotten.
Shutdown_Watched ==
    /\ shutdown' = TRUE
    /\ IF shutdown
       THEN UNCHANGED << child, tracked >>
       ELSE /\ child' \in Ending(Alive \cap processes)
            /\ tracked' = {}

\* shutdown(): terminate and await the children watched, then every other child
\* tracked (terminate_tracked_children).  A second call does nothing.
Shutdown ==
    /\ shutdown' = TRUE
    /\ IF shutdown
       THEN UNCHANGED << child, tracked >>
       ELSE /\ child' \in Ending(Alive \cap (processes \cup tracked))
            /\ tracked' = {}

\* SIGINT or SIGTERM once the handlers are installed.
Signal ==
    /\ pc \notin {"command", "check", "exited", "killed"}
    /\ ~shutdown
    /\ Shutdown
    /\ UNCHANGED << pc, fallback, remaining, starting, processes, round, status, failed,
                    exit, stackLock, chat >>

\* The interpreter ends: cmd_run releases the stack's lock, atexit runs
\* terminate_tracked_children.
Exit ==
    /\ pc = "return"
    /\ child' \in Ending(Alive \cap tracked)
    /\ tracked' = {} /\ stackLock' = FALSE
    /\ pc' = "exited"
    /\ UNCHANGED << fallback, remaining, starting, processes, round, status, shutdown,
                    failed, exit, chat >>

\* SIGKILL, a crash: no handler runs.
Killed ==
    /\ pc \notin {"exited", "killed"}
    /\ pc' = "killed"
    /\ UNCHANGED << fallback, remaining, starting, processes, tracked, round, child, status,
                    shutdown, failed, exit, stackLock, chat >>

\* popen_preexec_fn / the Windows job: a child outlives its parent by a SIGTERM.
ParentDeath(c) ==
    /\ pc = "killed" /\ c \in Alive
    /\ child' = [child EXCEPT ![c] = "terminated"]
    /\ UNCHANGED << pc, fallback, remaining, starting, processes, tracked, round, status,
                    shutdown, failed, exit, stackLock, chat >>

\* eventsub's setup_hook registers its subscriptions one after the other; none is
\* required, and all that matters later is whether that of the chat succeeded.
SetupHook(ok) ==
    /\ Eventsub \in Alive /\ chat = "unknown"
    /\ chat' = IF ok THEN "read" ELSE "refused"
    /\ UNCHANGED << pc, fallback, remaining, starting, processes, tracked, round, child,
                    status, shutdown, failed, exit, stackLock >>

\* A child ends by itself; only an eventsub refused the chat asks for the fallback by
\* its exit code.
ChildEnds(c, how) ==
    /\ c \in Alive
    /\ how = "fallback" => c = Eventsub /\ chat = "refused"
    /\ child' = [child EXCEPT ![c] = how]
    /\ UNCHANGED << pc, fallback, remaining, starting, processes, tracked, round, status,
                    shutdown, failed, exit, stackLock, chat >>

\* event_ready: eventsub prints CHAT_INGRESS_STATUS=...; the reader thread queues it.
StatusLine(s) ==
    /\ Eventsub \in Alive /\ status = "none"
    /\ chat = IF s = "eventsub" THEN "read" ELSE "refused"
    /\ pc \in {"startup", "poll", "status"}
    /\ status' = s
    /\ UNCHANGED << pc, fallback, remaining, starting, processes, tracked, round, child,
                    shutdown, failed, exit, stackLock, chat >>

-----------------------------------------------------------------------------
(* main.cmd_run and the start of run_processes *)

\* A stack has a lock of its own; an unknown name or a held lock ends the command.
Command(known, lock) ==
    /\ pc = "command"
    /\ IF known /\ remaining # {} /\ lock # "held"
       THEN /\ pc' = "check" /\ stackLock' = (lock = "free") /\ UNCHANGED exit
       ELSE /\ pc' = "return" /\ exit' = 1 /\ UNCHANGED stackLock
    /\ UNCHANGED << fallback, remaining, starting, processes, tracked, round, child, status,
                    shutdown, failed, chat >>

\* locked_names: some planned process runs already.
Check(busy) ==
    /\ pc = "check"
    /\ IF busy
       THEN /\ pc' = "return" /\ exit' = 1
            /\ UNCHANGED << remaining, child, tracked >>
       ELSE IF Supervised(remaining)
       THEN /\ pc' = "startup"
            /\ remaining' = remaining \ {Eventsub, Irc}
            /\ child' = [child EXCEPT ![Eventsub] = "running"]
            /\ tracked' = tracked \cup {Eventsub}
            /\ UNCHANGED exit
       ELSE /\ pc' = "spawn"
            /\ UNCHANGED << remaining, child, tracked, exit >>
    /\ UNCHANGED << fallback, starting, processes, round, status, shutdown, failed, stackLock,
                    chat >>

-----------------------------------------------------------------------------
(* _supervise_eventsub_startup *)

\* terminate, wait, kill: nothing to do for a child that is gone.
Stop(c) == child' \in Ending(Alive \cap {c})

\* Top of the loop: a shutdown hands eventsub over to be awaited with the others.
StartupLoop ==
    /\ pc = "startup"
    /\ IF shutdown
       THEN /\ Stop(Eventsub)
            /\ starting' = {Eventsub} /\ pc' = "join"
       ELSE /\ pc' = "poll"
            /\ UNCHANGED << child, starting >>
    /\ UNCHANGED << fallback, remaining, processes, tracked, round, status, shutdown, failed,
                    exit, stackLock, chat >>

StartupPoll ==
    /\ pc = "poll"
    /\ CASE Eventsub \in Alive ->
                /\ pc' = "status" /\ UNCHANGED << starting, exit, failed >>
         [] child[Eventsub] = "fallback" ->
                /\ pc' = "irc" /\ UNCHANGED << starting, exit, failed >>
         [] child[Eventsub] = "ok" ->
                /\ starting' = {Eventsub} /\ pc' = "join" /\ UNCHANGED << exit, failed >>
         [] OTHER ->
                /\ exit' = 1 /\ failed' = TRUE /\ pc' = "abort" /\ UNCHANGED starting
    /\ UNCHANGED << fallback, remaining, processes, tracked, round, child, status, shutdown,
                    stackLock, chat >>

\* Mutant: eventsub is not stopped before IRC takes over.
StartupStatus_NoStop ==
    /\ pc = "status"
    /\ CASE status = "eventsub" -> starting' = {Eventsub} /\ pc' = "join"
         [] status = "irc_fallback" -> pc' = "irc" /\ UNCHANGED starting
         [] OTHER -> pc' = "startup" /\ UNCHANGED starting
    /\ status' = "none"
    /\ UNCHANGED << fallback, remaining, processes, tracked, round, child, shutdown, failed,
                    exit, stackLock, chat >>

StartupStatus ==
    /\ pc = "status"
    /\ CASE status = "eventsub" ->
                /\ starting' = {Eventsub} /\ pc' = "join" /\ UNCHANGED child
         [] status = "irc_fallback" ->
                /\ Stop(Eventsub) /\ pc' = "irc" /\ UNCHANGED starting
         [] OTHER ->
                /\ pc' = "startup" /\ UNCHANGED << child, starting >>
    /\ status' = "none"
    /\ UNCHANGED << fallback, remaining, processes, tracked, round, shutdown, failed, exit,
                    stackLock, chat >>

\* No status within CHAT_INGRESS_STARTUP_TIMEOUT_SECONDS.
StartupTimeout ==
    /\ pc = "startup"
    /\ Stop(Eventsub)
    /\ exit' = 1 /\ failed' = TRUE /\ pc' = "abort"
    /\ UNCHANGED << fallback, remaining, starting, processes, tracked, round, status, shutdown,
                    stackLock, chat >>

StartIrc ==
    /\ pc = "irc"
    /\ child' = [child EXCEPT ![Irc] = "running"]
    /\ tracked' = tracked \cup {Irc}
    /\ starting' = {Irc} /\ pc' = "join"
    /\ UNCHANGED << fallback, remaining, processes, round, status, shutdown, failed, exit,
                    stackLock, chat >>

\* A startup code other than 0, or a _start_process that raises: shut down.
Abort ==
    /\ pc = "abort"
    /\ Shutdown
    /\ pc' = "return"
    /\ UNCHANGED << fallback, remaining, starting, processes, round, status, failed, exit,
                    stackLock, chat >>

-----------------------------------------------------------------------------
(* The processes are started, then polled. *)

\* processes.append
Join ==
    /\ pc = "join"
    /\ processes' = processes \cup starting
    /\ starting' = {} /\ pc' = "spawn"
    /\ UNCHANGED << fallback, remaining, tracked, round, child, status, shutdown, failed, exit,
                    stackLock, chat >>

\* _start_process: Popen and track_child; the loop over the specs does not look
\* at shutdown_requested.
Spawn ==
    /\ pc = "spawn"
    /\ IF remaining = {}
       THEN /\ pc' = "loop"
            /\ UNCHANGED << remaining, starting, child, tracked >>
       ELSE \E c \in remaining :
                /\ remaining' = remaining \ {c}
                /\ child' = [child EXCEPT ![c] = "running"]
                /\ tracked' = tracked \cup {c}
                /\ starting' = {c} /\ pc' = "join"
    /\ UNCHANGED << fallback, processes, round, status, shutdown, failed, exit, stackLock,
                    chat >>

\* Popen raises RuntimeError: no child.
SpawnFails ==
    /\ pc = "spawn" /\ remaining # {}
    /\ exit' = 1 /\ failed' = TRUE /\ pc' = "abort"
    /\ UNCHANGED << fallback, remaining, starting, processes, tracked, round, child, status,
                    shutdown, stackLock, chat >>

\* Top of the polling loop: after a shutdown, await or kill them all.
Loop ==
    /\ pc = "loop"
    /\ IF processes = {}
       THEN /\ pc' = "return" /\ UNCHANGED << child, round >>
       ELSE IF shutdown
       THEN /\ child' \in Ending(Alive \cap processes)
            /\ pc' = "return" /\ UNCHANGED round
       ELSE /\ round' = processes /\ pc' = "polling" /\ UNCHANGED child
    /\ UNCHANGED << fallback, remaining, starting, processes, tracked, status, shutdown, failed,
                    exit, stackLock, chat >>

\* Mutant: a failed child does not stop the others.
Poll_Alone(c) ==
    /\ pc = "polling" /\ c \in round
    /\ round' = round \ {c}
    /\ IF c \in Alive
       THEN UNCHANGED << processes, exit, failed >>
       ELSE /\ processes' = processes \ {c}
            /\ IF Bad(c) THEN exit' = 1 /\ failed' = TRUE ELSE UNCHANGED << exit, failed >>
    /\ UNCHANGED << pc, fallback, remaining, starting, child, tracked, status, shutdown,
                    stackLock, chat >>

\* poll(): a child that ended leaves the list; a bad exit code becomes the
\* runner's and stops the others.
Poll(c) ==
    /\ pc = "polling" /\ c \in round
    /\ round' = round \ {c}
    /\ IF c \in Alive
       THEN UNCHANGED << processes, child, tracked, shutdown, exit, failed >>
       ELSE /\ processes' = processes \ {c}
            /\ IF Bad(c)
               THEN exit' = 1 /\ failed' = TRUE /\ Shutdown
               ELSE UNCHANGED << child, tracked, shutdown, exit, failed >>
    /\ UNCHANGED << pc, fallback, remaining, starting, status, stackLock, chat >>

RoundDone ==
    /\ pc = "polling" /\ round = {}
    /\ pc' = "loop"
    /\ UNCHANGED << fallback, remaining, starting, processes, tracked, round, child, status,
                    shutdown, failed, exit, stackLock, chat >>

-----------------------------------------------------------------------------
RunnerNext ==
    \/ \E known \in BOOLEAN, lock \in {"none", "free", "held"} : Command(known, lock)
    \/ \E busy \in BOOLEAN : Check(busy)
    \/ StartupLoop \/ StartupPoll \/ StartupStatus \/ StartIrc \/ Abort
    \/ Join \/ Spawn \/ Loop \/ (\E c \in Process : Poll(c)) \/ RoundDone \/ Exit

Next ==
    \/ RunnerNext \/ StartupTimeout \/ SpawnFails \/ Signal \/ Killed
    \/ \E c \in Process : ParentDeath(c)
    \/ \E c \in Process, how \in {"ok", "error", "fallback"} : ChildEnds(c, how)
    \/ \E ok \in BOOLEAN : SetupHook(ok)
    \/ \E s \in {"eventsub", "irc_fallback"} : StatusLine(s)

\* The runner runs; the supervised start ends by a status or the timeout; the
\* kernel delivers the death signal.  A child need never end.
Fairness ==
    /\ WF_vars(RunnerNext) /\ SF_vars(StartupTimeout)
    /\ \A c \in Process : WF_vars(ParentDeath(c))

Spec == Init /\ [][Next]_vars /\ Fairness

-----------------------------------------------------------------------------
TypeOK ==
    /\ pc \in {"command", "check", "startup", "poll", "status", "irc", "abort", "join",
               "spawn", "loop", "polling", "return", "exited", "killed"}
    /\ fallback \in BOOLEAN /\ shutdown \in BOOLEAN /\ failed \in BOOLEAN /\ stackLock \in BOOLEAN
    /\ remaining \subseteq Process /\ starting \subseteq Process
    /\ processes \subseteq Process /\ tracked \subseteq Process /\ round \subseteq Process
    /\ child \in [Process -> Ended \cup {"none", "running"}]
    /\ chat \in {"unknown", "read", "refused"}
    /\ status \in {"none", "eventsub", "irc_fallback"}
    /\ exit \in {0, 1}

\* When the runner has returned nothing of it is left: no child runs, whichever
\* path it took and wherever a signal hit it, the start of eventsub included, the
\* stack may be started again, and a failure that stopped the runner is in its exit
\* code whatever the children stopped after it return (run_processes,
\* terminate_tracked_children, cmd_run).
NothingLeftBehind ==
    pc = "exited" => Alive = {} /\ ~stackLock /\ (failed => exit # 0)

\* With the fallback on, exactly one ingress reads the chat.  EventSub and IRC never
\* run together, which would publish every message twice; IRC is started only when
\* EventSub was refused the chat; and the other processes are started only when one of
\* them reads it, unless eventsub ended without a failure or a shutdown is under way
\* (_supervise_eventsub_startup, event_ready).
OneChatIngress ==
    fallback /\ child[Eventsub] # "none" =>
        /\ Eventsub \in Alive => Irc \notin Alive \/ pc = "killed"
        /\ child[Irc] # "none" => chat = "refused"
        /\ pc \in {"spawn", "loop", "polling"} /\ child[Irc] = "none" /\ ~shutdown =>
              chat = "read" \/ child[Eventsub] = "ok"

\* A signal, a failed child or the death of the runner ends every child
\* (run_processes, shutdown, popen_preexec_fn).
EverybodyStops ==
    (shutdown \/ failed \/ pc = "killed") ~> (pc \in {"exited", "killed"} /\ Alive = {})
=============================================================================

---------------------------- MODULE ProcessLock ----------------------------
(***************************************************************************)
(* The PID file that keeps a publisher, subscriber or worker to one        *)
(* instance (app/processes/process_lock.py), as a protocol over the file   *)
(* system: creating the file with O_EXCL, writing the pid, reading it and  *)
(* unlinking it are separate steps of processes that know nothing of each  *)
(* other.  A reader takes a file without a number in it, or with the pid   *)
(* of a dead process, for a leftover and unlinks whatever is at the path   *)
(* by then.  The runner (app/processes/runner.py) looks at the lock before *)
(* it spawns a process, and releases it by name when the process ended.    *)
(***************************************************************************)
EXTENDS Integers

CONSTANTS Proc,       \* pids of the instances of one name
          Managed,    \* those of them a runner spawns
          NoFile,
          MaxStarts,  \* bound: starts
          MaxKills,   \* bound: kills
          MaxFaults   \* bound: writes that fail

ASSUME LockAssumption ==
    /\ Managed \subseteq Proc
    /\ NoFile \notin [by : Proc, full : BOOLEAN]
    /\ MaxStarts \in Nat
    /\ MaxKills \in Nat
    /\ MaxFaults \in Nat

VARIABLES
    path,     \* the file at the lock path: whose, and is the pid written?
    phase,       \* where each instance is
    site,     \* who called _locked_pid: "first", "inner", "again", "runner"
    pidRead,  \* the pid each instance has read in the file, its own before that
    turn,     \* history: were instances started in turn so far? (OneInstanceInTurn)
    starts, kills, faults

bounds == << starts, kills, faults >>
lockVars   == << path, phase, site, pidRead, turn, bounds >>

File  == [by : Proc, full : BOOLEAN]
Sites == {"first", "inner", "again", "runner"}

\* acquire_process_lock and acquire; the body of the with statement; release.
Starting == {"look", "read", "check", "clear", "create", "write"}
Leaving  == {"leave", "compare", "unlink"}
Phases   == Starting \cup Leaving \cup {"out", "running", "refused", "ended"}

Runs(p)  == phase[p] = "running"

\* The runner looks at the lock before the process exists.
Living(p) == phase[p] \in Starting \cup Leaving \cup {"running"} /\ site[p] # "runner"

Goto(p, label) == phase' = [phase EXCEPT ![p] = label]

\* The instance is gone; the runner has yet to notice that one of its own is.
Over(p) == IF p \in Managed THEN "ended" ELSE "out"

LockInit ==
    /\ path = NoFile
    /\ phase = [p \in Proc |-> "out"]
    /\ site = [p \in Proc |-> "first"] /\ pidRead = [p \in Proc |-> p]
    /\ turn = TRUE
    /\ starts = 0
    /\ kills = 0
    /\ faults = 0

NewStart(p) ==
    /\ phase[p] = "out"
    /\ starts < MaxStarts
    /\ starts' = starts + 1
    /\ turn' = (turn /\ \A q \in Proc : phase[q] \notin Starting)

\* An instance is started by hand and enters acquire_process_lock; or the
\* runner asks locked_names first.
Start(p) ==
    /\ NewStart(p)
    /\ Goto(p, "look")
    /\ site' = [site EXCEPT ![p] = IF p \in Managed THEN "runner" ELSE "first"]
    /\ UNCHANGED << path, pidRead, kills, faults >>

-----------------------------------------------------------------------------
(* _locked_pid and is_locked: is_file, read_text, unlink *)

\* What the caller makes of the answer "nobody holds the lock" ...
FreeNext(p) ==
    CASE site[p] = "runner" -> /\ Goto(p, "look")
                               /\ site' = [site EXCEPT ![p] = "first"]
      [] site[p] = "again"  -> Goto(p, "running") /\ UNCHANGED site
      [] OTHER              -> Goto(p, "create") /\ UNCHANGED site

\* ... and of a holder's pid.  acquire returns False for any holder, its
\* caller looks again.
HeldNext(p, holder) ==
    CASE site[p] = "runner" -> Goto(p, "out") /\ UNCHANGED site
      [] site[p] = "inner"  -> /\ Goto(p, "look")
                               /\ site' = [site EXCEPT ![p] = "again"]
      [] OTHER -> /\ Goto(p, IF holder = p THEN "running" ELSE "refused")
                  /\ UNCHANGED site

Look(p) ==
    /\ phase[p] = "look"
    /\ \/ path = NoFile /\ FreeNext(p)
       \/ path # NoFile /\ Goto(p, "read") /\ UNCHANGED site
    /\ UNCHANGED << path, turn, pidRead, bounds >>

\* Mutant: a file without a number counts as held.
ReadNumberless(p) ==
    /\ phase[p] = "read"
    /\ IF path = NoFile THEN Goto(p, "clear") /\ UNCHANGED << site, pidRead >>
       ELSE IF path.full
       THEN Goto(p, "check") /\ pidRead' = [pidRead EXCEPT ![p] = path.by] /\ UNCHANGED site
       ELSE HeldNext(p, path.by) /\ UNCHANGED pidRead
    /\ UNCHANGED << path, turn, bounds >>

\* read_text: a file without a number, or one unlinked since is_file, is cleared away.
Read(p) ==
    /\ phase[p] = "read"
    /\ IF path = NoFile \/ ~path.full THEN Goto(p, "clear") /\ UNCHANGED pidRead
       ELSE Goto(p, "check") /\ pidRead' = [pidRead EXCEPT ![p] = path.by]
    /\ UNCHANGED << path, site, turn, bounds >>

\* pid_is_alive: the file of a dead process is cleared away as well, whatever is at the
\* path by now.
CheckPid(p) ==
    /\ phase[p] = "check"
    /\ IF Living(pidRead[p]) THEN HeldNext(p, pidRead[p])
                             ELSE Goto(p, "clear") /\ UNCHANGED site
    /\ pidRead' = [pidRead EXCEPT ![p] = p]
    /\ UNCHANGED << path, turn, bounds >>

\* Mutant: the caller is told the lock is free, the file stays.
ClearKeeps(p) ==
    /\ phase[p] = "clear"
    /\ FreeNext(p)
    /\ UNCHANGED << path, turn, pidRead, bounds >>

\* unlink(missing_ok=True), whatever is at the path now.
Clear(p) ==
    /\ phase[p] = "clear"
    /\ path' = NoFile
    /\ FreeNext(p)
    /\ UNCHANGED << turn, pidRead, bounds >>

-----------------------------------------------------------------------------
(* acquire *)

\* os.open with O_CREAT | O_EXCL.
Create(p) ==
    /\ phase[p] = "create"
    /\ \/ /\ path = NoFile
          /\ path' = [by |-> p, full |-> FALSE]
          /\ Goto(p, "write")
          /\ UNCHANGED site
       \/ /\ path # NoFile
          /\ Goto(p, "look")
          /\ site' = [site EXCEPT ![p] = "inner"]
          /\ UNCHANGED path
    /\ UNCHANGED << turn, pidRead, bounds >>

\* Mutant: the pid stays in the buffer of a file that is kept open.
WriteBuffered(p) ==
    /\ phase[p] = "write"
    /\ Goto(p, "running")
    /\ UNCHANGED << path, site, turn, pidRead, bounds >>

\* The pid is written to the file that was opened, linked or not.
Write(p) ==
    /\ phase[p] = "write"
    /\ path' = IF path # NoFile /\ path.by = p THEN [by |-> p, full |-> TRUE]
                                               ELSE path
    /\ Goto(p, "running")
    /\ UNCHANGED << site, turn, pidRead, bounds >>

\* The write fails: acquire unlinks the path and returns False.
WriteFails(p) ==
    /\ phase[p] = "write"
    /\ faults < MaxFaults
    /\ faults' = faults + 1
    /\ turn' = FALSE
    /\ path' = NoFile
    /\ Goto(p, "look")
    /\ site' = [site EXCEPT ![p] = "again"]
    /\ UNCHANGED << pidRead, starts, kills >>

-----------------------------------------------------------------------------
(* The end of an instance *)

Finish(p) ==
    /\ Runs(p)
    /\ Goto(p, "leave")
    /\ UNCHANGED << path, site, turn, pidRead, bounds >>

\* release(name, pid): is_file ...
Leave(p) ==
    /\ phase[p] = "leave"
    /\ Goto(p, IF path = NoFile THEN Over(p) ELSE "compare")
    /\ UNCHANGED << path, site, turn, pidRead, bounds >>

\* ... read_text: a foreign pid ends it, an unreadable file does not.
Compare(p) ==
    /\ phase[p] = "compare"
    /\ Goto(p, IF path # NoFile /\ path.full /\ path.by # p THEN Over(p) ELSE "unlink")
    /\ UNCHANGED << path, site, turn, pidRead, bounds >>

Unlink(p) ==
    /\ phase[p] = "unlink"
    /\ path' = NoFile
    /\ Goto(p, Over(p))
    /\ UNCHANGED << site, turn, pidRead, bounds >>

\* SystemExit(1).
ExitRefused(p) ==
    /\ phase[p] = "refused"
    /\ Goto(p, Over(p))
    /\ UNCHANGED << path, site, turn, pidRead, bounds >>

Kill(p) ==
    /\ Living(p)
    /\ kills < MaxKills
    /\ kills' = kills + 1
    /\ Goto(p, Over(p)) /\ pidRead' = [pidRead EXCEPT ![p] = p]
    /\ UNCHANGED << path, site, turn, starts, faults >>

\* The runner polls a process that ended: release(spec.name), without a pid.
RunnerRelease(p) ==
    /\ phase[p] = "ended"
    /\ turn' = (turn /\ (path # NoFile => ~Living(path.by)))
    /\ path' = NoFile
    /\ Goto(p, "out")
    /\ UNCHANGED << site, pidRead, bounds >>

Step(p) ==
    \/ Look(p) \/ Read(p) \/ CheckPid(p) \/ Clear(p)
    \/ Create(p) \/ Write(p)
    \/ Leave(p) \/ Compare(p) \/ Unlink(p)
    \/ ExitRefused(p) \/ RunnerRelease(p)

LockNext == \E p \in Proc : Start(p) \/ Step(p) \/ Finish(p) \/ Kill(p) \/ WriteFails(p)

LockSpec == LockInit /\ [][LockNext]_lockVars

\* Every process goes on until it runs and, once it leaves, until it is gone;
\* how long it runs is its own business.
FairLockSpec == LockSpec /\ \A p \in Proc : WF_lockVars(Step(p))

-----------------------------------------------------------------------------
(* Properties *)

LockTypeOK ==
    /\ path \in File \cup {NoFile}
    /\ phase \in [Proc -> Phases]
    /\ site \in [Proc -> Sites]
    /\ \A p \in Proc : site[p] = "runner" => p \in Managed
    /\ pidRead \in [Proc -> Proc] /\ turn \in BOOLEAN
    /\ starts \in 0 .. MaxStarts
    /\ kills \in 0 .. MaxKills
    /\ faults \in 0 .. MaxFaults

\* docs/development.md:158: an instance that finds another one running exits;
\* there is at most one.
OneInstance == \A p, q \in Proc : Runs(p) /\ Runs(q) => p = q

\* The three ways to a second instance are the only ones: as long as no two
\* instances were in acquire_process_lock at the same time, no write failed
\* and no runner released the lock of a live instance, no kill, no leftover
\* file and no release under way lets a second one in.
OneInstanceInTurn == turn => OneInstance

\* However many instances start, are killed and leave at the same time, every
\* start is decided: acquire, which calls itself, comes to an end.
StartsDecided == \A p \in Proc : phase[p] \in Starting ~> phase[p] \notin Starting

\* No leftover locks the name: an instance that starts while no other one is
\* alive is never refused.
Alone(p) == \A q \in Proc \ {p} : ~Living(q)
NoLeftoverRefuses ==
    \A p \in Proc :
      []([]Alone(p) /\ phase[p] \in Starting => [](phase[p] # "refused"))
=============================================================================

---------------------------- MODULE Processes_proofs ----------------------------
(***************************************************************************)
(* Proofs about ProcessLock, for any number of instances.  OneInstance is  *)
(* not an invariant of the lock; it holds while instances start in turn.   *)
(* The argument: an instance that runs or leaves still finds the file it   *)
(* wrote (HoldersLocked), because the only steps that unlink a file are    *)
(* its own release, the clearing of a stale file and the runner's release; *)
(* who is about to clear has seen a file of nobody alive                   *)
(* (ClearersAreAlone, and ReadersInformed before the pid is looked up)     *)
(* while nobody else could become a holder (OneStarting).                  *)
(***************************************************************************)
EXTENDS ProcessLock, Runner, TLAPS

\* What is written at the path is a file, and a file is not "no file".
LEMMA FileIsFile ==
    \A p \in Proc, b \in BOOLEAN : /\ [by |-> p, full |-> b] \in File
                                   /\ [by |-> p, full |-> b] # NoFile
<1>1. \A p \in Proc, b \in BOOLEAN : [by |-> p, full |-> b] \in [by : Proc, full : BOOLEAN]
  OBVIOUS
<1> QED
  BY <1>1, LockAssumption DEF File

USE LockAssumption

\* The file system starts without a lock file, nobody is started.
LEMMA LockTypeInit == LockInit => LockTypeOK
  BY DEF LockInit, LockTypeOK, Phases, Starting, Leaving, Sites

\* Every reachable state is well typed, with starts overlapping or not.
THEOREM LockTyping == LockSpec => []LockTypeOK
<1>1. LockInit => LockTypeOK
  BY LockTypeInit
<1>2. LockTypeOK /\ [LockNext]_lockVars => LockTypeOK'
  <2> SUFFICES ASSUME LockTypeOK, [LockNext]_lockVars
               PROVE  LockTypeOK'
    OBVIOUS
  <2> USE DEF LockTypeOK, Goto, Phases, Starting, Leaving, Sites, File, bounds
  <2>1. CASE UNCHANGED lockVars
    BY <2>1 DEF lockVars
  <2>2. ASSUME NEW p \in Proc, Start(p)
        PROVE  LockTypeOK'
    BY <2>2 DEF Start, NewStart
  <2>3. ASSUME NEW p \in Proc, FreeNext(p)
        PROVE  /\ phase' \in [Proc -> Phases]
               /\ site' \in [Proc -> Sites]
               /\ \A q \in Proc : site'[q] = "runner" => q \in Managed
    BY <2>3 DEF FreeNext
  <2>4. ASSUME NEW p \in Proc, NEW holder, HeldNext(p, holder)
        PROVE  /\ phase' \in [Proc -> Phases]
               /\ site' \in [Proc -> Sites]
               /\ \A q \in Proc : site'[q] = "runner" => q \in Managed
    BY <2>4 DEF HeldNext
  <2>5. ASSUME NEW p \in Proc, Look(p)
        PROVE  LockTypeOK'
    <3>1. CASE FreeNext(p)
      BY <2>3, <2>5, <3>1 DEF Look
    <3>2. CASE ~FreeNext(p)
      BY <2>5, <3>2 DEF Look
    <3> QED
      BY <3>1, <3>2
  <2>6. ASSUME NEW p \in Proc, Read(p)
        PROVE  LockTypeOK'
    <3>1. CASE path = NoFile \/ ~path.full
      BY <2>6, <3>1 DEF Read
    <3>2. CASE ~(path = NoFile \/ ~path.full)
      BY <2>6, <3>2 DEF Read
    <3> QED
      BY <3>1, <3>2
  <2>14. ASSUME NEW p \in Proc, CheckPid(p)
         PROVE  LockTypeOK'
    <3>1. pidRead' \in [Proc -> Proc] /\ UNCHANGED << path, turn, bounds >>
      BY <2>14 DEF CheckPid
    <3>2. CASE Living(pidRead[p])
      <4>1. HeldNext(p, pidRead[p])
        BY <2>14, <3>2 DEF CheckPid
      <4> QED
        BY <2>4, <3>1, <4>1
    <3>3. CASE ~Living(pidRead[p])
      BY <2>14, <3>1, <3>3 DEF CheckPid
    <3> QED
      BY <3>2, <3>3
  <2>7. ASSUME NEW p \in Proc, Clear(p)
        PROVE  LockTypeOK'
    BY <2>3, <2>7 DEF Clear
  <2>8. ASSUME NEW p \in Proc, Create(p)
        PROVE  LockTypeOK'
    <3>1. CASE path = NoFile
      <4>1. path' \in File
        BY <2>8, <3>1, FileIsFile DEF Create
      <4> QED
        BY <2>8, <3>1, <4>1 DEF Create
    <3>2. CASE path # NoFile
      BY <2>8, <3>2 DEF Create
    <3> QED
      BY <3>1, <3>2
  <2>9. ASSUME NEW p \in Proc, Write(p)
        PROVE  LockTypeOK'
    BY <2>9, FileIsFile DEF Write
  <2>10. ASSUME NEW p \in Proc, WriteFails(p)
         PROVE  LockTypeOK'
    <3>1. faults' \in 0 .. MaxFaults
      BY <2>10 DEF WriteFails
    <3>2. phase' \in [Proc -> Phases] /\ site' \in [Proc -> Sites] /\ path' = NoFile
      BY <2>10 DEF WriteFails
    <3>3. \A q \in Proc : site'[q] = "runner" => q \in Managed
      BY <2>10 DEF WriteFails
    <3> QED
      BY <2>10, <3>1, <3>2, <3>3 DEF WriteFails
  <2>11. ASSUME NEW p \in Proc, Finish(p) \/ Leave(p) \/ Compare(p)
         PROVE  LockTypeOK'
    BY <2>11 DEF Finish, Leave, Compare, Over
  <2>12. ASSUME NEW p \in Proc, Unlink(p) \/ ExitRefused(p) \/ RunnerRelease(p)
         PROVE  LockTypeOK'
    BY <2>12 DEF Unlink, ExitRefused, RunnerRelease, Over
  <2>13. ASSUME NEW p \in Proc, Kill(p)
         PROVE  LockTypeOK'
    BY <2>13 DEF Kill, Over
  <2> QED
    BY <2>1, <2>2, <2>5, <2>6, <2>7, <2>8, <2>9, <2>10, <2>11, <2>12, <2>13,
       <2>14 DEF LockNext, Step
<1> QED
  BY <1>1, <1>2, PTL DEF LockSpec

-----------------------------------------------------------------------------
(* While instances start in turn *)

Holds(p) == phase[p] \in Leaving \cup {"running"}

Locked(p) == path = [by |-> p, full |-> TRUE]

\* Nobody was sent back by a lost race or a failed write: the only calls of
\* _locked_pid are the runner's and the first one, and it is the latter that
\* leads on.
OnlyFirstLook ==
    \A p \in Proc :
        /\ site[p] \in {"first", "runner"}
        /\ Holds(p) \/ phase[p] \in {"create", "write"} => site[p] = "first"

\* At most one instance is in acquire_process_lock.
OneStarting ==
    \A p, q \in Proc : phase[p] \in Starting /\ phase[q] \in Starting => p = q

\* The file of an instance that runs or leaves is in place.
HoldersLocked == \A p \in Proc : Holds(p) => Locked(p)

\* The file being written is the writer's; who creates it finds none.
WritersOwn ==
    \A p \in Proc : /\ phase[p] = "write" => path = [by |-> p, full |-> FALSE]
                    /\ phase[p] = "create" => path = NoFile

\* Who has found a stale file unlinks nobody's lock.
ClearersAreAlone == \A p, q \in Proc : phase[p] = "clear" => ~Holds(q)

\* Who has read a pid has read that of the holder, if there is one left; the file it found
\* of its own number is still there.
ReadersInformed ==
    \A p \in Proc : phase[p] = "check" =>
        /\ \A q \in Proc : Holds(q) => q = pidRead[p]
        /\ site[p] = "first" /\ pidRead[p] = p => Locked(p)

Safe ==
    /\ OnlyFirstLook
    /\ OneStarting
    /\ HoldersLocked
    /\ WritersOwn
    /\ ClearersAreAlone
    /\ ReadersInformed

TurnInv == LockTypeOK /\ (turn => Safe)

\* Holders exclude each other because they agree on the one file.
LEMMA SafeIsEnough == Safe => OneInstance
  BY DEF Safe, HoldersLocked, Holds, Locked, OneInstance, Runs

\* Once a start was out of turn, the history says so for ever.
LEMMA TurnStays ==
    ASSUME NEW p \in Proc, turn',
           Start(p) \/ Step(p) \/ Finish(p) \/ Kill(p) \/ WriteFails(p)
    PROVE  turn
  BY DEF Start, NewStart, Step, Look, Read, CheckPid, Clear, Create, Write, Leave, Compare,
         Unlink, ExitRefused, RunnerRelease, Finish, Kill, WriteFails

\* Each step of an instance that keeps starts in turn keeps the argument's
\* parts.
LEMMA TurnStep ==
    ASSUME LockTypeOK, Safe, turn', NEW p \in Proc,
           Start(p) \/ Step(p) \/ Finish(p) \/ Kill(p) \/ WriteFails(p)
    PROVE  Safe'
<1> USE DEF Safe, LockTypeOK, OnlyFirstLook, OneStarting, HoldersLocked,
            WritersOwn, ClearersAreAlone, ReadersInformed, Holds, Locked, Goto, Starting,
            Leaving,
            bounds, Phases, Sites
<1>1. CASE Start(p)
  <2>1. /\ phase[p] = "out" /\ \A q \in Proc : phase[q] \notin Starting
        /\ phase' = [phase EXCEPT ![p] = "look"]
        /\ \E s \in {"runner", "first"} : site' = [site EXCEPT ![p] = s]
        /\ UNCHANGED << path, pidRead >>
    BY <1>1 DEF Start, NewStart
  <2>2. \A q \in Proc : /\ Holds(q)' => Holds(q)
                        /\ phase'[q] \notin {"check", "clear", "write", "create"}
    BY <2>1
  <2>3. OnlyFirstLook' /\ OneStarting'
    BY <2>1, <2>2
  <2>4. HoldersLocked' /\ WritersOwn' /\ ClearersAreAlone' /\ ReadersInformed'
    BY <2>1, <2>2
  <2> QED
    BY <2>3, <2>4
<1>2. CASE Look(p)
  BY <1>2 DEF Look, FreeNext
<1>3. CASE Read(p)
  <2>1. CASE path = NoFile \/ ~path.full
    <3>1. \A q \in Proc : ~Holds(q)
      <4> SUFFICES ASSUME NEW q \in Proc, Holds(q)
                   PROVE  FALSE
        OBVIOUS
      <4>1. path = [by |-> q, full |-> TRUE]
        OBVIOUS
      <4> QED
        BY <2>1, <4>1, FileIsFile
    <3> QED
      BY <1>3, <2>1, <3>1 DEF Read
  <2>2. CASE ~(path = NoFile \/ ~path.full)
    <3>1. /\ phase' = [phase EXCEPT ![p] = "check"] /\ phase[p] = "read"
          /\ pidRead' = [pidRead EXCEPT ![p] = path.by]
          /\ UNCHANGED << path, site >>
      BY <1>3, <2>2 DEF Read
    <3>2. path = [by |-> path.by, full |-> TRUE] /\ path.by \in Proc
      BY <2>2 DEF File
    <3>3. \A q \in Proc : Holds(q) => q = path.by
      BY <3>2
    <3>4. \A q \in Proc : Holds(q)' <=> Holds(q)
      BY <3>1
    <3>5. ReadersInformed'
      <4> SUFFICES ASSUME NEW r \in Proc, phase'[r] = "check"
                   PROVE  /\ \A q \in Proc : Holds(q)' => q = pidRead'[r]
                          /\ site'[r] = "first" /\ pidRead'[r] = r => Locked(r)'
        OBVIOUS
      <4>1. r = p
        BY <3>1
      <4> QED
        BY <3>1, <3>2, <3>3, <3>4, <4>1
    <3> QED
      BY <3>1, <3>4, <3>5
  <2> QED
    BY <2>1, <2>2
<1>13. CASE CheckPid(p)
  <2>1. /\ phase[p] = "check" /\ site[p] \in {"first", "runner"} /\ UNCHANGED path
        /\ \A q \in Proc : q # p => phase[q] \notin Starting
    BY <1>13 DEF CheckPid
  <2>2. \A q \in Proc : phase[q] # "check" \/ q = p
    BY <2>1
  <2>3. CASE ~Living(pidRead[p])
    <3>1. \A q \in Proc : ~Holds(q)
      <4> SUFFICES ASSUME NEW q \in Proc, Holds(q)
                   PROVE  FALSE
        OBVIOUS
      <4>1. Living(q) /\ q = pidRead[p]
        BY <2>1 DEF Living
      <4> QED
        BY <2>3, <4>1
    <3>2. phase' = [phase EXCEPT ![p] = "clear"] /\ UNCHANGED << path, site >>
      BY <1>13, <2>3 DEF CheckPid
    <3> QED
      BY <2>1, <2>2, <3>1, <3>2
  <2>4. CASE Living(pidRead[p])
    <3>1. HeldNext(p, pidRead[p])
      BY <1>13, <2>4 DEF CheckPid
    <3>2. CASE site[p] = "runner"
      <4>1. phase' = [phase EXCEPT ![p] = "out"] /\ UNCHANGED << path, site >>
        BY <2>1, <3>1, <3>2 DEF HeldNext
      <4> QED
        BY <2>1, <2>2, <4>1
    <3>3. CASE site[p] = "first" /\ pidRead[p] # p
      <4>1. phase' = [phase EXCEPT ![p] = "refused"] /\ UNCHANGED << path, site >>
        BY <2>1, <3>1, <3>3 DEF HeldNext
      <4> QED
        BY <2>1, <2>2, <4>1
    <3>4. CASE site[p] = "first" /\ pidRead[p] = p
      <4>1. phase' = [phase EXCEPT ![p] = "running"] /\ UNCHANGED << path, site >>
        BY <2>1, <3>1, <3>4 DEF HeldNext
      <4>2. Locked(p) /\ \A q \in Proc : Holds(q) => q = p
        BY <2>1, <3>4
      <4>3. \A q \in Proc : phase'[q] # "check" /\ phase'[q] # "clear" /\ phase'[q] # "write"
                            /\ phase'[q] # "create"
        BY <2>1, <4>1
      <4> QED
        BY <2>1, <3>4, <4>1, <4>2, <4>3
    <3> QED
      BY <2>1, <3>2, <3>3, <3>4
  <2> QED
    BY <2>3, <2>4
<1>4. CASE Clear(p)
  BY <1>4 DEF Clear, FreeNext
<1>5. CASE Create(p)
  <2>1. /\ phase[p] = "create"
        /\ path' = [by |-> p, full |-> FALSE]
        /\ phase' = [phase EXCEPT ![p] = "write"]
        /\ UNCHANGED site
    BY <1>5 DEF Create
  <2>2. \A q \in Proc : ~Holds(q)
    <3> SUFFICES ASSUME NEW q \in Proc, Holds(q)
                 PROVE  FALSE
      OBVIOUS
    <3>1. path = NoFile
      BY <2>1
    <3>2. path = [by |-> q, full |-> TRUE]
      OBVIOUS
    <3> QED
      BY <3>1, <3>2, FileIsFile
  <2> QED
    BY <2>1, <2>2
<1>6. CASE Write(p)
  <2>1. /\ path = [by |-> p, full |-> FALSE]
        /\ path' = [by |-> p, full |-> TRUE]
        /\ phase[p] = "write"
        /\ phase' = [phase EXCEPT ![p] = "running"]
        /\ UNCHANGED site
    <3>1. phase[p] = "write" /\ path = [by |-> p, full |-> FALSE]
      BY <1>6 DEF Write
    <3>2. path # NoFile /\ path.by = p
      BY <3>1, FileIsFile
    <3> QED
      BY <1>6, <3>1, <3>2 DEF Write
  <2>2. \A q \in Proc : ~Holds(q)
    BY <2>1
  <2>3. /\ phase'[p] = "running" /\ \A q \in Proc : q # p => phase'[q] = phase[q]
        /\ \A q \in Proc : q # p => phase'[q] \notin Starting
    BY <2>1
  <2>4. \A q \in Proc : /\ Holds(q)' => q = p
                        /\ phase'[q] \notin {"check", "clear", "write", "create"}
    BY <2>2, <2>3
  <2>5. OnlyFirstLook' /\ OneStarting'
    BY <2>1, <2>3, <2>4
  <2>6. WritersOwn' /\ ClearersAreAlone' /\ ReadersInformed'
    BY <2>4
  <2>7. HoldersLocked'
    <3> SUFFICES ASSUME NEW q \in Proc, Holds(q)'
                 PROVE  Locked(q)'
      OBVIOUS
    <3>1. q = p
      BY <2>4
    <3> QED
      BY <2>1, <3>1
  <2> QED
    BY <2>5, <2>6, <2>7
<1>7. CASE WriteFails(p)
  BY <1>7 DEF WriteFails
<1>8. CASE Finish(p)
  BY <1>8 DEF Finish, Runs
<1>9. CASE Leave(p) \/ Compare(p)
  <2>1. /\ Holds(p)
        /\ \E l \in {"compare", "unlink", "out", "ended"} : phase' = [phase EXCEPT ![p] = l]
        /\ UNCHANGED << path, site, pidRead >>
    BY <1>9 DEF Leave, Compare, Over
  <2>2. \A q \in Proc : Holds(q)' => Holds(q)
    BY <2>1
  <2>3. \A q \in Proc : phase'[q] \in Starting => phase'[q] = phase[q]
    BY <2>1
  <2>4. OnlyFirstLook' /\ OneStarting' /\ HoldersLocked'
    BY <2>1, <2>2, <2>3
  <2>5. WritersOwn' /\ ClearersAreAlone'
    BY <2>1, <2>2, <2>3
  <2>6. ReadersInformed'
    BY <2>1, <2>2, <2>3
  <2> QED
    BY <2>4, <2>5, <2>6
<1>10. CASE Unlink(p)
  <2>1. \A q \in Proc : Holds(q) => q = p
    BY <1>10 DEF Unlink
  <2>2. \A q \in Proc : phase[q] # "write" /\ phase[q] # "clear"
    BY <1>10 DEF Unlink
  <2> QED
    BY <1>10, <2>1, <2>2 DEF Unlink, Over
<1>11. CASE ExitRefused(p) \/ Kill(p)
  <2>1. /\ \E l \in {"out", "ended"} : phase' = [phase EXCEPT ![p] = l]
        /\ UNCHANGED << path, site >>
    BY <1>11 DEF ExitRefused, Kill, Over
  <2>2. \A q \in Proc : q # p => phase'[q] = phase[q]
    BY <2>1
  <2>3. phase'[p] \in {"out", "ended"}
    BY <2>1
  <2> HIDE DEF Phases, Sites
  <2>4. OnlyFirstLook' /\ OneStarting'
    BY <2>1, <2>2, <2>3
  <2>5. HoldersLocked'
    BY <2>1, <2>2, <2>3
  <2>6. WritersOwn' /\ ClearersAreAlone'
    BY <2>1, <2>2, <2>3
  <2>7. ReadersInformed'
    <3>1. \A q \in Proc : q # p => pidRead'[q] = pidRead[q]
      BY <1>11 DEF ExitRefused, Kill
    <3>2. \A q \in Proc : Holds(q)' => Holds(q)
      BY <2>2, <2>3
    <3> QED
      BY <2>1, <2>2, <2>3, <3>1, <3>2
  <2> QED
    BY <2>4, <2>5, <2>6, <2>7
<1>12. CASE RunnerRelease(p)
  <2>1. path # NoFile => ~Living(path.by)
    BY <1>12 DEF RunnerRelease
  <2>2. \A q \in Proc : ~Holds(q) /\ phase[q] # "write"
    <3> SUFFICES ASSUME NEW q \in Proc, Holds(q) \/ phase[q] = "write"
                 PROVE  FALSE
      OBVIOUS
    <3>1. path = [by |-> q, full |-> TRUE] \/ path = [by |-> q, full |-> FALSE]
      OBVIOUS
    <3>2. path # NoFile /\ path.by = q
      <4>1. CASE path = [by |-> q, full |-> TRUE]
        BY <4>1, FileIsFile
      <4>2. CASE path = [by |-> q, full |-> FALSE]
        BY <4>2, FileIsFile
      <4> QED
        BY <3>1, <4>1, <4>2
    <3>3. Living(q)
      BY DEF Living
    <3> QED
      BY <2>1, <3>2, <3>3
  <2>3. ASSUME NEW q \in Proc, phase[q] = "check", site[q] = "first"
        PROVE  pidRead[q] # q
    <3> SUFFICES ASSUME pidRead[q] = q
                 PROVE  FALSE
      OBVIOUS
    <3>1. path = [by |-> q, full |-> TRUE]
      BY <2>3
    <3>2. path # NoFile /\ path.by = q
      BY <3>1, FileIsFile
    <3>3. Living(q)
      BY <2>3 DEF Living
    <3> QED
      BY <2>1, <3>2, <3>3
  <2>4. /\ path' = NoFile /\ UNCHANGED << site, pidRead >>
        /\ phase' = [phase EXCEPT ![p] = "out"]
    BY <1>12 DEF RunnerRelease
  <2>5. OnlyFirstLook' /\ OneStarting' /\ HoldersLocked'
    BY <2>2, <2>4
  <2>6. WritersOwn' /\ ClearersAreAlone'
    BY <2>2, <2>4
  <2>7. ReadersInformed'
    BY <2>2, <2>3, <2>4
  <2> QED
    BY <2>5, <2>6, <2>7
<1> QED
  BY <1>1, <1>2, <1>3, <1>4, <1>5, <1>6, <1>7, <1>8, <1>9, <1>10, <1>11, <1>12,
     <1>13 DEF Step

\* One instance, for as long as instances start in turn: TurnInv is inductive.
THEOREM TurnSafe == LockSpec => []OneInstanceInTurn
<1>1. LockInit => TurnInv
  <2> SUFFICES ASSUME LockInit
               PROVE  TurnInv
    OBVIOUS
  <2>1. LockTypeOK
    BY LockTypeInit
  <2> QED
    BY <2>1 DEF LockInit, TurnInv, Safe, OnlyFirstLook, OneStarting, HoldersLocked,
                Holds, WritersOwn, ClearersAreAlone, ReadersInformed, Starting, Leaving
<1>2. TurnInv /\ LockTypeOK' /\ [LockNext]_lockVars => TurnInv'
  <2> SUFFICES ASSUME LockTypeOK, turn => Safe, LockTypeOK', [LockNext]_lockVars, turn'
               PROVE  Safe'
    BY DEF TurnInv
  <2>1. CASE UNCHANGED lockVars
    BY <2>1 DEF lockVars, Safe, OnlyFirstLook, OneStarting, HoldersLocked, Holds,
                Locked, WritersOwn, ClearersAreAlone, ReadersInformed
  <2>2. CASE LockNext
    BY <2>2, TurnStays, TurnStep DEF LockNext
  <2> QED
    BY <2>1, <2>2
<1>3. TurnInv => OneInstanceInTurn
  BY SafeIsEnough DEF TurnInv, OneInstanceInTurn
<1> QED
  BY <1>1, <1>2, <1>3, LockTyping, PTL DEF LockSpec

-----------------------------------------------------------------------------
(***************************************************************************)
(* Proofs about Runner, for any processes and stacks.  A child that runs   *)
(* is always tracked (Watched): Popen is followed by track_child, and the  *)
(* list is emptied only by a shutdown that ends everything on it; so the   *)
(* exit of the interpreter leaves nobody.  That one ingress reads the chat *)
(* rests on the path of the supervised start: IRC waits for a refusal and  *)
(* for the end of eventsub (Supervision), and nobody starts either of the  *)
(* two again (OutOfReach).                                                 *)
(***************************************************************************)

HIDE LockAssumption
USE RunnerAssumption DEF Alive

\* The parts of the inductive invariant.
Watched == Alive \subseteq tracked

Gone == pc = "exited" => Alive = {} /\ ~stackLock

Reported == failed => exit = 1

\* What eventsub says and how it ends follow from its subscription to the chat.
Honest ==
    /\ status = "irc_fallback" => chat = "refused"
    /\ status = "eventsub" => chat = "read"
    /\ child[Eventsub] = "fallback" => chat = "refused"

\* Nothing is started by the command; with the fallback, once the plan is made,
\* eventsub is only ever started by the supervised start, IRC after it by no one else.
OutOfReach ==
    /\ pc \in {"command", "check"} => \A c \in Process : child[c] = "none"
    /\ fallback /\ pc \notin {"command", "check", "return", "exited", "killed"} =>
          /\ Eventsub \notin remaining
          /\ child[Eventsub] # "none" => Irc \notin remaining

\* The supervised start.
Supervision ==
    /\ pc \in {"startup", "poll", "status", "irc"} =>
          fallback /\ child[Eventsub] # "none" /\ child[Irc] = "none"
    /\ pc = "irc" => chat = "refused" /\ Eventsub \notin Alive
    /\ fallback /\ child[Eventsub] # "none" /\ child[Irc] # "none" =>
          chat = "refused" /\ Eventsub \notin Alive
    /\ pc \in {"join", "spawn", "loop", "polling"} /\ fallback /\ child[Eventsub] # "none"
          /\ child[Irc] = "none" /\ ~shutdown =>
             chat = "read" \/ child[Eventsub] = "ok"

RInv == TypeOK /\ Watched /\ Gone /\ Reported /\ Honest /\ OutOfReach /\ Supervision

-----------------------------------------------------------------------------
(* Stopping children *)

\* To stop the children of S ends them, changes no other, and starts none.
LEMMA EndingEnds ==
    ASSUME TypeOK, NEW S \in SUBSET Alive, NEW e \in Ending(S)
    PROVE  /\ e \in [Process -> Ended \cup {"none", "running"}]
           /\ \A c \in S : e[c] \in {"ok", "terminated"}
           /\ \A c \in Process \ S : e[c] = child[c]
<1>1. PICK f \in [S -> {"ok", "terminated"}] :
          e = [c \in Process |-> IF c \in S THEN f[c] ELSE child[c]]
  BY DEF Ending
<1> QED
  BY <1>1 DEF TypeOK, Ended

\* A shutdown ends every tracked child.
LEMMA ShutdownStops ==
    ASSUME TypeOK, Watched, Shutdown
    PROVE  /\ child' \in [Process -> Ended \cup {"none", "running"}]
           /\ tracked' \in SUBSET Process
           /\ shutdown' = TRUE
           /\ Alive' \subseteq tracked'
           /\ \A c \in Process : c \notin Alive => child'[c] = child[c]
           /\ \A c \in Process : c \in Alive =>
                 child'[c] \in {"running", "ok", "terminated"}
<1>1. CASE shutdown
  BY <1>1 DEF Shutdown, TypeOK, Watched
<1>2. CASE ~shutdown
  <2>1. Alive \cap (processes \cup tracked) = Alive
    BY DEF Watched
  <2>2. child' \in Ending(Alive) /\ tracked' = {} /\ shutdown' = TRUE
    BY <1>2, <2>1 DEF Shutdown
  <2>3. /\ child' \in [Process -> Ended \cup {"none", "running"}]
        /\ \A c \in Alive : child'[c] \in {"ok", "terminated"}
        /\ \A c \in Process \ Alive : child'[c] = child[c]
    BY <2>2, EndingEnds
  <2> QED
    BY <2>2, <2>3
<1> QED
  BY <1>1, <1>2

-----------------------------------------------------------------------------
(* The inductive invariant *)

LEMMA RInit == Init => RInv
  BY DEF Init, RInv, TypeOK, Watched, Gone, Reported, Honest, OutOfReach, Supervision, Ended

LEMMA RStep == RInv /\ [Next]_vars => RInv'
<1> SUFFICES ASSUME RInv, [Next]_vars
             PROVE  RInv'
  OBVIOUS
<1> USE DEF RInv, TypeOK, Ended, Watched, Gone, Reported, Honest, OutOfReach, Supervision
<1>1. CASE Signal
  <2>1. Shutdown
    BY <1>1 DEF Signal
  <2>2. /\ child' \in [Process -> Ended \cup {"none", "running"}]
        /\ tracked' \in SUBSET Process
        /\ shutdown' = TRUE
        /\ Alive' \subseteq tracked'
        /\ \A c \in Process : c \notin Alive => child'[c] = child[c]
        /\ \A c \in Process : c \in Alive =>
              child'[c] \in {"running", "ok", "terminated"}
    BY <2>1, ShutdownStops
  <2>3. /\ UNCHANGED << pc, fallback, remaining, starting, processes, round, status, failed,
                       exit, stackLock, chat >>
        /\ pc \notin {"command", "check", "exited", "killed"}
    BY <1>1 DEF Signal
  <2> QED
    BY <2>2, <2>3
<1>2. CASE Exit
  <2>1. child' \in Ending(Alive \cap tracked)
    BY <1>2 DEF Exit
  <2>2. /\ child' \in [Process -> Ended \cup {"none", "running"}]
        /\ \A c \in Alive \cap tracked : child'[c] \in {"ok", "terminated"}
        /\ \A c \in Process \ (Alive \cap tracked) : child'[c] = child[c]
    BY <2>1, EndingEnds
  <2>3. Alive' = {} /\ tracked' = {} /\ ~stackLock'
    BY <1>2, <2>2 DEF Exit
  <2> QED
    BY <1>2, <2>2, <2>3 DEF Exit
<1>3. CASE Killed
  BY <1>3 DEF Killed
<1>4. CASE \E c \in Process : ParentDeath(c)
  BY <1>4 DEF ParentDeath
<1>5. CASE \E ok \in BOOLEAN : SetupHook(ok)
  BY <1>5 DEF SetupHook
<1>6. CASE \E c \in Process, how \in {"ok", "error", "fallback"} : ChildEnds(c, how)
  BY <1>6 DEF ChildEnds
<1>7. CASE \E s \in {"eventsub", "irc_fallback"} : StatusLine(s)
  BY <1>7 DEF StatusLine
<1>8. CASE \E known \in BOOLEAN, lock \in {"none", "free", "held"} : Command(known, lock)
  <2>1. CASE pc' = "check"
    <3>1. /\ UNCHANGED << fallback, remaining, starting, processes, tracked, round, child,
                         status, shutdown, failed, chat >>
          /\ pc = "command" /\ exit' = exit /\ stackLock' \in BOOLEAN
      BY <1>8, <2>1 DEF Command
    <3> QED
      BY <2>1, <3>1
  <2>2. CASE pc' = "return"
    BY <1>8, <2>2 DEF Command
  <2> QED
    BY <1>8, <2>1, <2>2 DEF Command
<1>9. CASE \E busy \in BOOLEAN : Check(busy)
  <2>1. CASE pc' = "return"
    BY <1>9, <2>1 DEF Check
  <2>2. CASE pc' = "startup"
    BY <1>9, <2>2 DEF Check, Supervised
  <2>3. CASE pc' = "spawn"
    BY <1>9, <2>3 DEF Check, Supervised
  <2> QED
    BY <1>9, <2>1, <2>2, <2>3 DEF Check
<1>10. CASE StartupLoop
  <2>1. CASE shutdown
    <3>1. child' \in Ending(Alive \cap {Eventsub})
      BY <1>10, <2>1 DEF StartupLoop, Stop
    <3>2. /\ child' \in [Process -> Ended \cup {"none", "running"}]
          /\ \A c \in Alive \cap {Eventsub} : child'[c] \in {"ok", "terminated"}
          /\ \A c \in Process \ (Alive \cap {Eventsub}) : child'[c] = child[c]
      BY <3>1, EndingEnds
    <3> QED
      BY <1>10, <2>1, <3>2 DEF StartupLoop
  <2>2. CASE ~shutdown
    BY <1>10, <2>2 DEF StartupLoop
  <2> QED
    BY <2>1, <2>2
<1>11. CASE StartupPoll
  <2>1. CASE Eventsub \in Alive
    BY <1>11, <2>1 DEF StartupPoll
  <2>2. CASE child[Eventsub] = "fallback"
    BY <1>11, <2>2 DEF StartupPoll
  <2>3. CASE child[Eventsub] = "ok"
    BY <1>11, <2>3 DEF StartupPoll
  <2>4. CASE Eventsub \notin Alive /\ child[Eventsub] \notin {"fallback", "ok"}
    BY <1>11, <2>4 DEF StartupPoll
  <2> QED
    BY <2>1, <2>2, <2>3, <2>4
<1>12. CASE StartupStatus
  <2>1. CASE status = "eventsub"
    BY <1>12, <2>1 DEF StartupStatus
  <2>2. CASE status = "irc_fallback"
    <3>1. child' \in Ending(Alive \cap {Eventsub})
      BY <1>12, <2>2 DEF StartupStatus, Stop
    <3>2. /\ child' \in [Process -> Ended \cup {"none", "running"}]
          /\ \A c \in Alive \cap {Eventsub} : child'[c] \in {"ok", "terminated"}
          /\ \A c \in Process \ (Alive \cap {Eventsub}) : child'[c] = child[c]
      BY <3>1, EndingEnds
    <3> QED
      BY <1>12, <2>2, <3>2 DEF StartupStatus
  <2>3. CASE status = "none"
    BY <1>12, <2>3 DEF StartupStatus
  <2> QED
    BY <2>1, <2>2, <2>3
<1>13. CASE StartupTimeout
  <2>1. child' \in Ending(Alive \cap {Eventsub})
    BY <1>13 DEF StartupTimeout, Stop
  <2>2. /\ child' \in [Process -> Ended \cup {"none", "running"}]
        /\ \A c \in Alive \cap {Eventsub} : child'[c] \in {"ok", "terminated"}
        /\ \A c \in Process \ (Alive \cap {Eventsub}) : child'[c] = child[c]
    BY <2>1, EndingEnds
  <2> QED
    BY <1>13, <2>2 DEF StartupTimeout
<1>14. CASE StartIrc
  BY <1>14 DEF StartIrc
<1>15. CASE Abort
  <2>1. Shutdown
    BY <1>15 DEF Abort
  <2> QED
    BY <1>15, <2>1, ShutdownStops DEF Abort
<1>16. CASE Join
  BY <1>16 DEF Join
<1>17. CASE Spawn
  BY <1>17 DEF Spawn
<1>18. CASE SpawnFails
  BY <1>18 DEF SpawnFails
<1>19. CASE Loop
  <2>1. CASE processes = {}
    BY <1>19, <2>1 DEF Loop
  <2>2. CASE processes # {} /\ shutdown
    <3>1. child' \in Ending(Alive \cap processes)
      BY <1>19, <2>2 DEF Loop
    <3>2. /\ child' \in [Process -> Ended \cup {"none", "running"}]
          /\ \A c \in Alive \cap processes : child'[c] \in {"ok", "terminated"}
          /\ \A c \in Process \ (Alive \cap processes) : child'[c] = child[c]
      BY <3>1, EndingEnds
    <3> QED
      BY <1>19, <2>2, <3>2 DEF Loop
  <2>3. CASE processes # {} /\ ~shutdown
    BY <1>19, <2>3 DEF Loop
  <2> QED
    BY <2>1, <2>2, <2>3
<1>20. CASE \E c \in Process : Poll(c)
  <2>1. PICK c \in Process : Poll(c)
    BY <1>20
  <2>2. CASE Shutdown
    BY <2>1, <2>2, ShutdownStops, ZenonT(30) DEF Poll
  <2>3. CASE ~Shutdown
    BY <2>1, <2>3 DEF Poll
  <2> QED
    BY <2>2, <2>3
<1>21. CASE RoundDone
  BY <1>21 DEF RoundDone
<1>22. CASE UNCHANGED vars
  BY <1>22 DEF vars
<1> QED
  BY <1>1, <1>2, <1>3, <1>4, <1>5, <1>6, <1>7, <1>8, <1>9, <1>10,
     <1>11, <1>12, <1>13, <1>14, <1>15, <1>16, <1>17, <1>18, <1>19, <1>20, <1>21,
     <1>22 DEF Next, RunnerNext

-----------------------------------------------------------------------------
(* Theorems *)

\* The inductive invariant holds of every reachable state.
LEMMA Invariance == Spec => []RInv
  BY RInit, RStep, PTL DEF Spec

\* Every reachable state is well typed, whatever the stacks.
THEOREM Typing == Spec => []TypeOK
<1>1. RInv => TypeOK
  BY DEF RInv
<1> QED
  BY <1>1, Invariance, PTL

\* Whatever the stack, the order of starts, failures and signals: when the runner
\* has returned, no child of it runs and a failure is in its exit code.
THEOREM Stopped == Spec => []NothingLeftBehind
<1>1. RInv => NothingLeftBehind
  BY DEF RInv, Gone, Reported, NothingLeftBehind
<1> QED
  BY <1>1, Invariance, PTL

\* Whatever else runs, eventsub and IRC never read the chat together, and with the
\* fallback one of them does once the others are started.
THEOREM OneIngress == Spec => []OneChatIngress
<1>1. RInv => OneChatIngress
  BY DEF RInv, TypeOK, Supervision, OneChatIngress
<1> QED
  BY <1>1, Invariance, PTL
=============================================================================

----------------------------- MODULE Llm_proofs -----------------------------
(***************************************************************************)
(* Proofs about sub-llm and sub-live-status, for any number of processes,  *)
(* messages, sources, chunks and faults.                                   *)
(*                                                                         *)
(* The announcement: every claim that is taken or was given back stands    *)
(* for at most one announcement, made or about to be made (SaidOrClaimed). *)
(* The index: while synchronisations do not overlap, one reader at most is *)
(* under way, and what it is about to write in the fingerprint file is in  *)
(* the collection (SyncSound).                                             *)
(* The prompts: the buffer holds the newest messages of its span, and the  *)
(* stream's state that of the newest event that got through.               *)
(* The questions: a claim belongs to one handler, which is the only one to *)
(* reply under it (AskHeld, AskOnce); without a failure each message is in *)
(* one place and each silence has its reason (Smooth, Reasoned).           *)
(***************************************************************************)
EXTENDS MCLlm, FiniteSetTheorems, FunctionTheorems, SequenceTheorems, TLAPS

-----------------------------------------------------------------------------
(* LiveStatus *)

StatusTypeOK ==
    /\ status \in [Announcer -> {"down", "up", "claimed"}]
    /\ announced \in [Announcer -> BOOLEAN]
    /\ claim \in BOOLEAN
    /\ said \in Nat /\ exits \in Nat

Claimants == {a \in Announcer : status[a] = "claimed"}

\* Who has claimed has not announced yet; what was said, and what is about to be, is
\* paid for by the claim that is taken or by those that were released.
SaidOrClaimed ==
    /\ \A a \in Claimants : ~announced[a]
    /\ said + Cardinality(Claimants) <= exits + IF claim THEN 1 ELSE 0

StatusInv == StatusTypeOK /\ SaidOrClaimed

\* The processes are finitely many, so those with a claim are.
LEMMA ClaimantsFinite ==
    /\ IsFiniteSet(Claimants) /\ Cardinality(Claimants) \in Nat
    /\ IsFiniteSet(Claimants') /\ Cardinality(Claimants') \in Nat
<1>1. Claimants \subseteq Announcer /\ Claimants' \subseteq Announcer
  BY DEF Claimants
<1> QED
  BY <1>1, StatusAssumption, FS_Subset, FS_CardinalityType

\* A process that leaves the claimants, or does not join them, adds no announcement.
LEMMA ClaimantsShrink ==
    ASSUME Claimants' \subseteq Claimants
    PROVE  Cardinality(Claimants') <= Cardinality(Claimants)
BY ClaimantsFinite, FS_Subset

LEMMA StatusInit_Inv == StatusInit => StatusInv
<1> SUFFICES ASSUME StatusInit PROVE StatusInv
  OBVIOUS
<1>1. Claimants = {}
  BY DEF StatusInit, Claimants
<1>2. Cardinality(Claimants) = 0
  BY <1>1, FS_EmptySet
<1>3. said + Cardinality(Claimants) <= exits + IF claim THEN 1 ELSE 0
  BY <1>2, SMT DEF StatusInit
<1>4. StatusTypeOK
  BY DEF StatusInit, StatusTypeOK
<1> QED
  BY <1>1, <1>3, <1>4 DEF StatusInv, SaidOrClaimed

LEMMA StatusNext_Inv == StatusInv /\ [StatusNext]_statusVars => StatusInv'
<1> SUFFICES ASSUME StatusInv, [StatusNext]_statusVars PROVE StatusInv'
  OBVIOUS
<1> USE DEF StatusInv, StatusTypeOK, SaidOrClaimed
<1>0. CASE UNCHANGED statusVars
  <2>1. Claimants' = Claimants
    BY <1>0 DEF statusVars, Claimants
  <2> QED
    BY <1>0, <2>1 DEF statusVars
<1>1. ASSUME NEW a \in Announcer, StatusStart(a) PROVE StatusInv'
  <2>1. Claimants' = Claimants
    BY <1>1 DEF StatusStart, Claimants
  <2>2. a \notin Claimants
    BY <1>1 DEF StatusStart, Claimants
  <2> QED
    BY <1>1, <2>1, <2>2 DEF StatusStart
<1>2. ASSUME NEW a \in Announcer, HandleDisabled(a) \/ HandleDuplicate(a) PROVE StatusInv'
  <2>1. Claimants' = Claimants /\ a \notin Claimants
    BY <1>2 DEF HandleDisabled, HandleDuplicate, Claimants
  <2>2. UNCHANGED << status, claim, said, exits >>
    BY <1>2 DEF HandleDisabled, HandleDuplicate
  <2>3. announced' = [announced EXCEPT ![a] = TRUE]
    BY <1>2 DEF HandleDisabled, HandleDuplicate
  <2>4. \A c \in Claimants' : ~announced'[c]
    BY <2>1, <2>3 DEF Claimants
  <2>5. StatusTypeOK'
    BY <2>2, <2>3
  <2> QED
    BY <2>1, <2>2, <2>4, <2>5
<1>3. ASSUME NEW a \in Announcer, HandleClaim(a) PROVE StatusInv'
  <2>1. Claimants' = Claimants \cup {a} /\ a \notin Claimants
    BY <1>3 DEF HandleClaim, Claimants
  <2>2. Cardinality(Claimants') = Cardinality(Claimants) + 1
    BY <2>1, ClaimantsFinite, FS_AddElement
  <2> QED
    BY <1>3, <2>1, <2>2, ClaimantsFinite DEF HandleClaim
<1>4. ASSUME NEW a \in Announcer, Announce(a) PROVE StatusInv'
  <2>1. Claimants' = Claimants \ {a} /\ a \in Claimants
    BY <1>4 DEF Announce, Claimants
  <2>2. Cardinality(Claimants') = Cardinality(Claimants) - 1
    BY <2>1, ClaimantsFinite, FS_RemoveElement
  <2> QED
    BY <1>4, <2>1, <2>2, ClaimantsFinite DEF Announce
<1>5. ASSUME NEW a \in Announcer, StatusExit(a) \/ StatusKilled(a) PROVE StatusInv'
  <2>1. Claimants' \subseteq Claimants
    BY <1>5 DEF StatusExit, StatusKilled, Claimants
  <2>2. Cardinality(Claimants') <= Cardinality(Claimants)
    BY <2>1, ClaimantsShrink
  <2>3. CASE StatusKilled(a)
    BY <2>1, <2>2, <2>3, ClaimantsFinite DEF StatusKilled
  <2>4. CASE StatusExit(a)
    BY <2>1, <2>2, <2>4, ClaimantsFinite DEF StatusExit
  <2> QED
    BY <1>5, <2>3, <2>4
<1> QED
  BY <1>0, <1>1, <1>2, <1>3, <1>4, <1>5 DEF StatusNext

\* What the processes of sub-live-status keep always has its type.
THEOREM StatusTyping == StatusSpec => []StatusTypeOK
<1>1. StatusInv => StatusTypeOK
  BY DEF StatusInv
<1> QED
  BY <1>1, StatusInit_Inv, StatusNext_Inv, PTL DEF StatusSpec

\* However many processes compete, start, leave and are killed, the chat is told of the
\* stream once, and once more for each that left in good order (announce_once, main).
THEOREM ToldOncePerExit == StatusSpec => []StatusOncePerExit
<1>1. StatusInv => StatusOncePerExit
  BY ClaimantsFinite DEF StatusInv, StatusTypeOK, SaidOrClaimed, StatusOncePerExit
<1> QED
  BY <1>1, StatusInit_Inv, StatusNext_Inv, PTL DEF StatusSpec

-----------------------------------------------------------------------------
(* KnowledgeIndex *)

Version  == 0 .. 2
Versions == [Chunk -> Version]
Store    == [Source -> Versions]
Syncing  == [pc : {"upsert", "read"}, source : Source, seen : Versions]
Writing  == [pc : {"write"}, prints : Store]

IndexTypeOK ==
    /\ docs \in Store /\ collection \in Store /\ prints \in Store
    /\ sync \in [Reader -> {Resting} \cup Syncing \cup Writing]
    /\ overlapped \in BOOLEAN /\ restored \in BOOLEAN

\* The chunks of a text are in the collection.
Holds(s, wanted) == \A c \in Chunk : wanted[c] # 0 => collection[s][c] = wanted[c]

OneSync == ~overlapped =>
    \A r, other \in Reader : sync[r] # Resting /\ sync[other] # Resting => r = other

\* What a synchronisation has read is not what the file says of the source; once upserted
\* it is in the collection, and only that is new in what it writes.
SyncSound ==
    ~overlapped /\ ~restored =>
       \A r \in Reader :
          /\ sync[r].pc = "upsert" => docs[sync[r].source] # prints[sync[r].source]
          /\ sync[r].pc = "read"   => Holds(sync[r].source, sync[r].seen)
          /\ sync[r].pc = "write"  =>
                \A s \in Source : sync[r].prints[s] = prints[s] \/ Holds(s, sync[r].prints[s])

IndexInv == IndexTypeOK /\ OneSync /\ SyncSound /\ IndexComplete

LEMMA IndexInit_Inv == IndexInit => IndexInv
<1> SUFFICES ASSUME IndexInit PROVE IndexInv
  OBVIOUS
<1>1. IndexTypeOK
  <2>1. [s \in Source |-> Absent] \in Store
    BY DEF Absent, Store, Versions, Version
  <2> QED
    BY <2>1 DEF IndexInit, IndexTypeOK
<1>2. OneSync
  BY DEF IndexInit, OneSync
<1>3. SyncSound
  BY DEF IndexInit, SyncSound, Resting
<1>4. IndexComplete
  BY DEF IndexInit, IndexComplete, Absent
<1> QED
  BY <1>1, <1>2, <1>3, <1>4 DEF IndexInv

LEMMA IndexNext_Type == IndexInv /\ [IndexNext]_indexVars => IndexTypeOK'
<1> SUFFICES ASSUME IndexInv, [IndexNext]_indexVars PROVE IndexTypeOK'
  OBVIOUS
<1> USE DEF IndexInv, IndexTypeOK
<1>0. CASE UNCHANGED indexVars
  BY <1>0 DEF indexVars
<1>1. ASSUME NEW s \in Source, NEW c \in Chunk, NEW version \in 0 .. 2, Edit(s, c, version)
      PROVE  IndexTypeOK'
  BY <1>1 DEF Edit, Store, Versions, Version
<1>2. ASSUME NEW r \in Reader, NEW s \in Source, Compare(r, s) PROVE IndexTypeOK'
  BY <1>2 DEF Compare, Store, Syncing
<1>3. ASSUME NEW r \in Reader, Upsert(r) PROVE IndexTypeOK'
  <2>1. sync[r] \in Syncing
    BY <1>3 DEF Upsert, Resting, Writing
  <2>2. sync[r].source \in Source /\ sync[r].seen \in Versions
    BY <2>1 DEF Syncing
  <2>3. Merged(sync[r].source, sync[r].seen) \in Versions
    BY <2>2 DEF Merged, Store, Versions
  <2> QED
    BY <1>3, <2>2, <2>3 DEF Upsert, Store, Syncing
<1>4. ASSUME NEW r \in Reader, ReadPrints(r) PROVE IndexTypeOK'
  <2>1. sync[r] \in Syncing
    BY <1>4 DEF ReadPrints, Resting, Writing
  <2>2. sync[r].source \in Source /\ sync[r].seen \in Versions
    BY <2>1 DEF Syncing
  <2> QED
    BY <1>4, <2>2 DEF ReadPrints, Store, Writing
<1>5. ASSUME NEW r \in Reader, WritePrints(r) PROVE IndexTypeOK'
  <2>1. sync[r] \in Writing
    BY <1>5 DEF WritePrints, Resting, Syncing
  <2> QED
    BY <1>5, <2>1 DEF WritePrints, Writing
<1>6. ASSUME NEW r \in Reader, StopSync(r) PROVE IndexTypeOK'
  BY <1>6 DEF StopSync
<1> QED
  BY <1>0, <1>1, <1>2, <1>3, <1>4, <1>5, <1>6 DEF IndexNext

LEMMA IndexNext_OneSync == IndexInv /\ [IndexNext]_indexVars => OneSync'
<1> SUFFICES ASSUME IndexInv, [IndexNext]_indexVars, ~overlapped' PROVE OneSync'
  BY DEF OneSync
<1> USE DEF IndexInv, IndexTypeOK, OneSync
<1>0. CASE UNCHANGED indexVars
  BY <1>0 DEF indexVars
<1>1. ASSUME NEW s \in Source, NEW c \in Chunk, NEW version \in 0 .. 2, Edit(s, c, version)
      PROVE  OneSync'
  BY <1>1 DEF Edit
<1>2. ASSUME NEW r \in Reader, NEW s \in Source, Compare(r, s) PROVE OneSync'
  BY <1>2 DEF Compare
<1>3. ASSUME NEW r \in Reader, Upsert(r) \/ ReadPrints(r) PROVE OneSync'
  BY <1>3 DEF Upsert, ReadPrints, Resting
<1>4. ASSUME NEW r \in Reader, WritePrints(r) \/ StopSync(r) PROVE OneSync'
  BY <1>4 DEF WritePrints, StopSync
<1> QED
  BY <1>0, <1>1, <1>2, <1>3, <1>4 DEF IndexNext

\* The synchronisation of r is the only one: it alone wrote what it relies on.
LEMMA IndexNext_Sound == IndexInv /\ [IndexNext]_indexVars => SyncSound' /\ IndexComplete'
<1> SUFFICES ASSUME IndexInv, [IndexNext]_indexVars, ~overlapped', ~restored'
             PROVE  SyncSound' /\ IndexComplete'
  BY DEF SyncSound, IndexComplete
<1> USE DEF IndexInv, IndexTypeOK, OneSync, SyncSound, IndexComplete, Holds
<1>0. CASE UNCHANGED indexVars
  BY <1>0 DEF indexVars
<1>1. ASSUME NEW s \in Source, NEW c \in Chunk, NEW version \in 0 .. 2, Edit(s, c, version)
      PROVE  SyncSound' /\ IndexComplete'
  <2>1. /\ ~overlapped /\ ~restored /\ docs'[s] # prints[s]
        /\ UNCHANGED << collection, prints, sync >>
        /\ \A other \in Source \ {s} : docs'[other] = docs[other]
    BY <1>1 DEF Edit, Store
  <2>2. IndexComplete'
    BY <2>1
  <2>3. \A r \in Reader : sync[r].pc = "upsert" => sync[r] \in Syncing
    BY DEF Resting, Writing
  <2>4. SyncSound'
    BY <2>1, <2>3 DEF Syncing
  <2> QED
    BY <2>2, <2>4
<1>2. ASSUME NEW r \in Reader, NEW s \in Source, Compare(r, s)
      PROVE  SyncSound' /\ IndexComplete'
  BY <1>2 DEF Compare
<1>3. ASSUME NEW r \in Reader, Upsert(r) PROVE SyncSound' /\ IndexComplete'
  <2> DEFINE at == sync[r].source  read == sync[r].seen
  <2>1. at \in Source /\ read \in Versions /\ sync[r] # Resting
    BY <1>3 DEF Upsert, Resting, Writing, Syncing
  <2>2. /\ ~overlapped /\ ~restored /\ docs[at] # prints[at]
        /\ UNCHANGED << docs, prints >>
        /\ \A other \in Reader \ {r} : sync'[other] = sync[other] /\ sync[other] = Resting
        /\ sync'[r] = [pc |-> "read", source |-> at, seen |-> read]
    BY <1>3, <2>1 DEF Upsert
  <2>3. /\ \A other \in Source \ {at} : collection'[other] = collection[other]
        /\ \A c \in Chunk : collection'[at][c] = IF read[c] = 0 THEN collection[at][c]
                                                               ELSE read[c]
    BY <1>3, <2>1 DEF Upsert, Merged, Store
  <2>4. IndexComplete'
    BY <2>2, <2>3
  <2>5. SyncSound'
    <3>1. \A c \in Chunk : read[c] # 0 => collection'[at][c] = read[c]
      BY <2>3
    <3>2. sync'[r].pc = "read" /\ sync'[r].source = at /\ sync'[r].seen = read
      BY <2>2
    <3>3. \A other \in Reader \ {r} : sync'[other].pc = "idle"
      BY <2>2 DEF Resting
    <3> QED
      BY <3>1, <3>2, <3>3
  <2> QED
    BY <2>4, <2>5
<1>4. ASSUME NEW r \in Reader, ReadPrints(r) PROVE SyncSound' /\ IndexComplete'
  <2> DEFINE at == sync[r].source  read == sync[r].seen
  <2>1. at \in Source /\ read \in Versions /\ sync[r] # Resting
    BY <1>4 DEF ReadPrints, Resting, Writing, Syncing
  <2>2. /\ ~overlapped /\ ~restored /\ Holds(at, read)
        /\ UNCHANGED << docs, prints, collection >>
        /\ \A other \in Reader \ {r} : sync'[other] = sync[other] /\ sync[other] = Resting
        /\ sync'[r] = [pc |-> "write", prints |-> [prints EXCEPT ![at] = read]]
    BY <1>4, <2>1 DEF ReadPrints
  <2>3. \A s \in Source : sync'[r].prints[s] = prints[s] \/ Holds(s, sync'[r].prints[s])
    BY <2>1, <2>2 DEF Store
  <2>4. sync'[r].pc = "write" /\ \A other \in Reader \ {r} : sync'[other].pc = "idle"
    BY <2>2 DEF Resting
  <2>5. SyncSound'
    <3>1. prints' = prints /\ collection' = collection
      BY <2>2
    <3> QED
      BY <2>3, <2>4, <3>1
  <2>6. IndexComplete'
    BY <2>2
  <2> QED
    BY <2>5, <2>6
<1>5. ASSUME NEW r \in Reader, WritePrints(r) PROVE SyncSound' /\ IndexComplete'
  <2>1. /\ ~overlapped /\ ~restored /\ sync[r] # Resting /\ prints' = sync[r].prints
        /\ UNCHANGED << docs, collection >>
        /\ \A s \in Source : sync[r].prints[s] = prints[s] \/ Holds(s, sync[r].prints[s])
        /\ \A other \in Reader : sync'[other] = Resting
    BY <1>5 DEF WritePrints, Resting
  <2> QED
    BY <2>1 DEF Resting
<1>6. ASSUME NEW r \in Reader, StopSync(r) PROVE SyncSound' /\ IndexComplete'
  BY <1>6 DEF StopSync, Resting
<1> QED
  BY <1>0, <1>1, <1>2, <1>3, <1>4, <1>5, <1>6 DEF IndexNext

LEMMA IndexNext_Inv == IndexInv /\ [IndexNext]_indexVars => IndexInv'
BY IndexNext_Type, IndexNext_OneSync, IndexNext_Sound DEF IndexInv

\* What the readers, the collection and the fingerprint file hold always has its type.
THEOREM IndexTyping == IndexSpec => []IndexTypeOK
<1>1. IndexInv => IndexTypeOK
  BY DEF IndexInv
<1> QED
  BY <1>1, IndexInit_Inv, IndexNext_Inv, PTL DEF IndexSpec

\* Wherever a synchronisation is killed, a source whose fingerprint is up to date is in the
\* collection whole: the fingerprint is written last (_sync_memory_collection).
THEOREM IndexWhole == IndexSpec => []IndexComplete
<1>1. IndexInv => IndexComplete
  BY DEF IndexInv
<1> QED
  BY <1>1, IndexInit_Inv, IndexNext_Inv, PTL DEF IndexSpec

-----------------------------------------------------------------------------
(* LiveContext *)

ContextTypeOK ==
    /\ heard \in Seq(Nat) /\ kept \subseteq DOMAIN heard
    /\ span \in Nat \ {0} /\ limit \in Nat \ {0}
    /\ minute \in Nat

\* The smallest window and limit so far are at most the present ones.
BoundsNarrow ==
    /\ narrowest \in Nat /\ tightest \in Nat
    /\ narrowest <= span /\ tightest <= limit

ContextInv == ContextTypeOK /\ BoundsNarrow /\ NothingRecentForgotten

\* What _prune_locked keeps was there; an entry is kept if the window reaches back to it
\* and fewer than `limit` entries came after it.
LEMMA PrunedKeeps ==
    ASSUME NEW times \in Seq(Nat), NEW entries \in SUBSET (DOMAIN times),
           Len(times) > 0, span \in Nat, limit \in Nat
    PROVE  /\ Pruned(entries, times) \subseteq entries
           /\ \A k \in entries :
                 times[k] >= times[Len(times)] - span /\ Len(times) - k < limit
                    => k \in Pruned(entries, times)
<1> DEFINE recent == {k \in entries : times[k] >= times[Len(times)] - span}
<1>1. Pruned(entries, times) = {k \in recent : Cardinality({j \in recent : j > k}) < limit}
  BY DEF Pruned
<1>2. \A k \in recent : Cardinality({j \in recent : j > k}) \in Nat
                        /\ Cardinality({j \in recent : j > k}) <= Len(times) - k
  <2> TAKE k \in recent
  <2>1. k \in 1 .. Len(times) /\ Len(times) \in Nat
    BY LenProperties
  <2>2. {j \in recent : j > k} \subseteq k + 1 .. Len(times)
    BY <2>1, LenProperties
  <2>3. IsFiniteSet(k + 1 .. Len(times)) /\ Cardinality(k + 1 .. Len(times)) = Len(times) - k
    <3>1. k + 1 \in Int /\ Len(times) \in Int
      BY <2>1
    <3>2. Cardinality(k + 1 .. Len(times))
            = IF k + 1 > Len(times) THEN 0 ELSE Len(times) - (k + 1) + 1
      BY <3>1, FS_Interval
    <3>3. IsFiniteSet(k + 1 .. Len(times))
      BY <3>1, FS_Interval
    <3>4. (IF k + 1 > Len(times) THEN 0 ELSE Len(times) - (k + 1) + 1) = Len(times) - k
      BY <2>1
    <3> QED
      BY <3>2, <3>3, <3>4
  <2> QED
    BY <2>2, <2>3, FS_Subset, FS_CardinalityType
<1>3. \A k \in recent : Len(times) - k < limit => Cardinality({j \in recent : j > k}) < limit
  <2> TAKE k \in recent
  <2>1. k \in 1 .. Len(times) /\ Len(times) \in Nat
    BY LenProperties
  <2> HIDE DEF recent
  <2> QED
    BY <1>2, <2>1
<1> QED
  BY <1>1, <1>3

LEMMA ContextInit_Inv == ContextInit => ContextInv
BY ContextAssumption
   DEF ContextInit, ContextInv, ContextTypeOK, BoundsNarrow, NothingRecentForgotten

LEMMA ContextNext_Inv == ContextInv /\ [ContextNext]_contextVars => ContextInv'
<1> SUFFICES ASSUME ContextInv, [ContextNext]_contextVars PROVE ContextInv'
  OBVIOUS
<1> USE DEF ContextInv, ContextTypeOK, BoundsNarrow
<1>1. CASE UNCHANGED contextVars \/ Minute
  <2>1. /\ UNCHANGED << heard, kept, span, limit, narrowest, tightest >>
        /\ minute' \in Nat
    BY <1>1 DEF contextVars, Minute
  <2> QED
    BY <2>1 DEF NothingRecentForgotten
<1>2. ASSUME NEW at \in 0 .. minute, AddEntry(at) PROVE ContextInv'
  <2> DEFINE entries == kept \cup {Len(heard) + 1}
  <2>1. /\ heard' = Append(heard, at) /\ kept' = Pruned(entries, heard')
        /\ UNCHANGED << minute, span, limit, narrowest, tightest >>
    BY <1>2 DEF AddEntry
  <2>2. /\ heard' \in Seq(Nat) /\ Len(heard') = Len(heard) + 1 /\ Len(heard) \in Nat
        /\ DOMAIN heard = 1 .. Len(heard) /\ DOMAIN heard' = 1 .. Len(heard')
        /\ \A k \in DOMAIN heard : heard'[k] = heard[k] /\ heard[k] \in Nat
        /\ heard'[Len(heard')] = at /\ at \in Nat
    BY <2>1, AppendProperties, LenProperties, ElementOfSeq
  <2>3. entries \subseteq DOMAIN heard'
    BY <2>2
  <2>4. /\ kept' \subseteq entries
        /\ \A k \in entries : heard'[k] >= at - span /\ Len(heard') - k < limit => k \in kept'
    <3> HIDE DEF entries
    <3>1. Len(heard') > 0 /\ span \in Nat /\ limit \in Nat
      BY <2>2
    <3>2. /\ Pruned(entries, heard') \subseteq entries
          /\ \A k \in entries :
                heard'[k] >= heard'[Len(heard')] - span /\ Len(heard') - k < limit
                    => k \in Pruned(entries, heard')
      BY <2>2, <2>3, <3>1, PrunedKeeps
    <3> QED
      BY <2>1, <2>2, <3>2
  <2>5. kept' \subseteq DOMAIN heard'
    BY <2>3, <2>4
  <2>6. ASSUME NEW k \in DOMAIN heard',
               \A j \in DOMAIN heard' : heard'[k] >= heard'[j] - narrowest,
               Len(heard') - k < tightest
        PROVE  k \in kept'
    <3>1. heard'[k] >= at - narrowest
      <4>1. Len(heard') \in DOMAIN heard'
        BY <2>2
      <4> QED
        BY <4>1, <2>2, <2>6
    <3>2. k \in entries
      <4>1. CASE k = Len(heard')
        BY <4>1, <2>2
      <4>2. CASE k # Len(heard')
        <5>1. k \in DOMAIN heard
          BY <4>2, <2>2
        <5>2. \A j \in DOMAIN heard : heard[k] >= heard[j] - narrowest
          BY <5>1, <2>2, <2>6
        <5>3. Len(heard) - k < tightest
          BY <5>1, <2>2, <2>6
        <5> QED
          BY <5>1, <5>2, <5>3 DEF NothingRecentForgotten
      <4> QED
        BY <4>1, <4>2
    <3>3. heard'[k] \in Nat /\ k \in Nat
      BY <2>2, ElementOfSeq
    <3>4. heard'[k] >= at - span /\ Len(heard') - k < limit
      <4>1. /\ narrowest \in Nat /\ span \in Nat /\ narrowest <= span
            /\ tightest \in Nat /\ limit \in Nat /\ tightest <= limit
            /\ Len(heard') \in Nat /\ at \in Nat
        BY <2>2
      <4> HIDE DEF ContextInv, ContextTypeOK, BoundsNarrow
      <4>2. heard'[k] >= at - span
        BY <3>1, <3>3, <4>1
      <4>3. Len(heard') - k < limit
        BY <3>3, <4>1, <2>6
      <4> QED
        BY <4>2, <4>3
    <3> QED
      BY <3>2, <3>4, <2>4
  <2>7. NothingRecentForgotten'
    BY <2>1, <2>6 DEF NothingRecentForgotten
  <2> QED
    BY <2>1, <2>2, <2>5, <2>7
<1>3. ASSUME NEW w \in Windows, NEW l \in Limits, Reconfigure(w, l) PROVE ContextInv'
  <2>1. /\ span' = w /\ limit' = l /\ w \in Nat \ {0} /\ l \in Nat \ {0}
        /\ narrowest' <= narrowest /\ narrowest' <= w /\ narrowest' \in Nat
        /\ tightest' <= tightest /\ tightest' <= l /\ tightest' \in Nat
        /\ UNCHANGED << minute, heard, kept >>
    BY <1>3, ContextAssumption DEF Reconfigure, Least
  <2>2. ASSUME NEW k \in DOMAIN heard,
               \A j \in DOMAIN heard : heard[k] >= heard[j] - narrowest',
               Len(heard) - k < tightest'
        PROVE  k \in kept
    <3>1. \A j \in DOMAIN heard : heard[j] \in Nat /\ j \in Nat
      BY ElementOfSeq, LenProperties
    <3>2. \A j \in DOMAIN heard : heard[k] >= heard[j] - narrowest
      <4>1. \A j \in DOMAIN heard : heard[k] >= heard[j] - narrowest'
        BY <2>1, <2>2
      <4>2. narrowest \in Int /\ narrowest' \in Int /\ narrowest' <= narrowest /\ heard[k] \in Int
        BY <2>1, <2>2, <3>1 DEF ContextTypeOK
      <4> QED
        BY <3>1, <4>1, <4>2, SMTT(30)
    <3>3. Len(heard) - k < tightest
      BY <2>1, <2>2, <3>1, LenProperties, SMTT(30)
    <3> QED
      BY <3>2, <3>3 DEF NothingRecentForgotten
  <2>3. NothingRecentForgotten'
    BY <2>1, <2>2 DEF NothingRecentForgotten
  <2> QED
    BY <2>1, <2>3
<1> QED
  BY <1>1, <1>2, <1>3 DEF ContextNext

\* What the buffers of the live context hold always has its type.
THEOREM ContextTyping == ContextSpec => []ContextTypeOK
<1>1. ContextInv => ContextTypeOK
  BY DEF ContextInv
<1> QED
  BY <1>1, ContextInit_Inv, ContextNext_Inv, PTL DEF ContextSpec

-----------------------------------------------------------------------------
(* StreamInfo *)

Metadata == [live : BOOLEAN, game : Game \cup {"", "unknown"}, since : Nat]

InfoTypeOK ==
    /\ tick \in Nat /\ changed \in Nat /\ polled \in Int /\ troubled \in Int
    /\ stream \in Metadata /\ known \in Metadata /\ infoQueue \in Seq(Metadata)
    /\ snapshot \in [of : Metadata, seen : Nat, at : Nat]
    /\ poller \in {"sleep", "fetch", "answered", "fetched", "claimed"}
    /\ \A id \in ids : id[4] \in Int

\* Time only passes, and no claim is of a later minute than the last answer; one of a later
\* minute than Twitch's look is the claim of that very snapshot.
InOrder ==
    /\ changed <= tick /\ snapshot.at <= tick /\ snapshot.seen <= tick /\ polled <= snapshot.seen
    /\ poller \in {"fetched", "claimed"} => snapshot.seen <= snapshot.at
    /\ \A id \in ids : id[4] <= Bucket(snapshot.at)

ClaimsSeen ==
    poller \in {"answered", "fetched", "claimed"} =>
        \A id \in ids : \/ id[4] <= Bucket(snapshot.seen)
                        \/ poller = "claimed" /\ id = SnapshotId(snapshot)

\* What Twitch saw since the stream last changed is true.
SnapshotTrue == changed < snapshot.seen => snapshot.of = stream

\* What sub-llm will know when it has caught up.
Latest == IF infoQueue = << >> THEN known ELSE infoQueue[Len(infoQueue)]
Described(m) == m.live = stream.live /\ m.game = stream.game

\* Neither did the stream change nor did anything fail since minute m began.
Quiet(m) == Bucket(changed) < m /\ Bucket(troubled) < m

\* The claim of the stream as it is in a quiet minute was followed by its publishing, or is
\* about to be.
LatestTrue ==
    /\ Quiet(Bucket(polled)) => Described(Latest)
    /\ \A id \in ids : Quiet(id[4]) /\ id[1] = stream.live /\ id[2] = stream.game =>
          Described(Latest) \/ (poller = "claimed" /\ id = SnapshotId(snapshot))

InfoInv == InfoTypeOK /\ InOrder /\ ClaimsSeen /\ SnapshotTrue /\ LatestTrue

LEMMA BucketGrows ==
    /\ \A t \in Int : Bucket(t) \in Int
    /\ \A t, u \in Int : t <= u => Bucket(t) <= Bucket(u)
BY DEF Bucket, Half

\* The minute and the content of a snapshot are in its id.
LEMMA SnapshotMinute ==
    ASSUME NEW s
    PROVE  /\ SnapshotId(s)[4] = Bucket(s.at)
           /\ SnapshotId(s)[1] = s.of.live /\ SnapshotId(s)[2] = s.of.game
BY DEF SnapshotId

LEMMA InfoInit_Inv == InfoInit => InfoInv
<1> SUFFICES ASSUME InfoInit PROVE InfoInv
  OBVIOUS
<1>1. Offline \in Metadata /\ Unknown \in Metadata
  BY DEF Offline, Unknown, Metadata
<1>2. InfoTypeOK /\ InOrder /\ ClaimsSeen /\ SnapshotTrue
  BY <1>1 DEF InfoInit, InfoTypeOK, InOrder, ClaimsSeen, SnapshotTrue, Never, Half
<1>3. LatestTrue
  <2>1. ids = {} /\ changed = 0 /\ polled = 0 - 2
    BY DEF InfoInit, Never, Half
  <2>2. ~Quiet(Bucket(polled))
    BY <2>1 DEF Quiet, Bucket, Half
  <2> QED
    BY <2>1, <2>2 DEF LatestTrue
<1> QED
  BY <1>2, <1>3 DEF InfoInv

\* What Twitch saw in a quiet minute is the stream.
LEMMA QuietSeen ==
    ASSUME InfoTypeOK, SnapshotTrue, Quiet(Bucket(snapshot.seen))
    PROVE  snapshot.of = stream
<1>1. changed \in Int /\ snapshot.seen \in Int
  BY DEF InfoTypeOK
<1>2. Bucket(changed) \in Int /\ Bucket(snapshot.seen) \in Int
  BY <1>1, BucketGrows
<1>3. ~(snapshot.seen <= changed)
  <2>1. snapshot.seen <= changed => Bucket(snapshot.seen) <= Bucket(changed)
    BY <1>1, BucketGrows
  <2> QED
    BY <1>2, <2>1 DEF Quiet
<1> QED
  BY <1>1, <1>3 DEF SnapshotTrue

LEMMA InfoNext_Inv == InfoInv /\ [InfoNext]_infoVars => InfoInv'
<1> SUFFICES ASSUME InfoInv, [InfoNext]_infoVars PROVE InfoInv'
  OBVIOUS
<1> USE DEF InfoInv, InfoTypeOK, InOrder, SnapshotTrue
<1>0. CASE UNCHANGED infoVars
  <2>1. LatestTrue' /\ ClaimsSeen'
    BY <1>0 DEF infoVars, LatestTrue, Latest, Described, ClaimsSeen, Quiet, Bucket, SnapshotId
  <2> QED
    BY <1>0, <2>1 DEF infoVars, Bucket
<1>1. CASE InfoTick \/ Wake
  <2>1. /\ UNCHANGED << stream, changed, snapshot, ids, infoQueue, known, polled, troubled >>
        /\ tick' \in Nat /\ tick' >= tick
        /\ poller' = poller \/ (poller = "sleep" /\ poller' = "fetch")
    BY <1>1 DEF InfoTick, Wake, world
  <2>2. LatestTrue' /\ ClaimsSeen'
    BY <2>1 DEF LatestTrue, Latest, Described, ClaimsSeen, Quiet, Bucket, SnapshotId
  <2> QED
    BY <2>1, <2>2 DEF Bucket
<1>2. ASSUME NEW s \in Streams, StreamChanges(s) PROVE InfoInv'
  <2>1. /\ stream' = s /\ changed' = tick
        /\ UNCHANGED << tick, poller, snapshot, ids, infoQueue, known, polled, troubled >>
    BY <1>2 DEF StreamChanges
  <2>2. s \in Metadata
    <3>1. Offline \in Metadata
      BY DEF Offline, Metadata
    <3>2. stream.since \in Nat
      BY DEF Metadata
    <3>3. ASSUME NEW g \in Game
          PROVE  [live |-> TRUE, game |-> g, since |-> IF stream.live THEN stream.since ELSE tick]
                    \in Metadata
      <4>1. (IF stream.live THEN stream.since ELSE tick) \in Nat
        BY <3>2
      <4> QED
        BY <4>1 DEF Metadata
    <3> QED
      BY <3>1, <3>3 DEF Streams
  <2>3. Bucket(snapshot.at) <= Bucket(tick) /\ Bucket(snapshot.at) \in Int
        /\ Bucket(polled) <= Bucket(tick) /\ Bucket(polled) \in Int /\ Bucket(tick) \in Int
    BY BucketGrows
  <2>4. ~Quiet(Bucket(polled))' /\ \A id \in ids : ~Quiet(id[4])'
    BY <2>1, <2>3 DEF Quiet, Bucket
  <2>5. LatestTrue'
    BY <2>1, <2>4 DEF LatestTrue
  <2>6. ClaimsSeen'
    BY <2>1 DEF ClaimsSeen, Bucket, SnapshotId
  <2> QED
    BY <2>1, <2>2, <2>3, <2>5, <2>6 DEF Bucket
<1>9. CASE Look
  <2>1. /\ UNCHANGED << tick, stream, changed, ids, infoQueue, known, polled, troubled >>
        /\ poller = "fetch" /\ poller' = "answered"
        /\ snapshot' \in [of : Metadata, seen : Nat, at : Nat]
        /\ snapshot'.of = stream /\ snapshot'.seen = tick /\ snapshot'.at = snapshot.at
    BY <1>9 DEF Look, world
  <2>2. Bucket(snapshot.at) <= Bucket(tick) /\ Bucket(snapshot.at) \in Int
        /\ Bucket(tick) \in Int
    BY BucketGrows
  <2>3. LatestTrue'
    BY <2>1 DEF LatestTrue, Latest, Described, Quiet, Bucket
  <2>4. \A id \in ids : id[4] <= Bucket(tick)
    BY <2>2
  <2>5. ClaimsSeen'
    BY <2>1, <2>4 DEF ClaimsSeen, Bucket
  <2> QED
    BY <2>1, <2>3, <2>5 DEF Bucket
<1>3. ASSUME NEW outcome \in {"ok", "failed", "unreadable"}, Fetch(outcome) PROVE InfoInv'
  <2>1. /\ UNCHANGED << tick, stream, changed, ids, infoQueue, known, polled, troubled >>
        /\ poller \in {"fetch", "answered"}
        /\ \/ snapshot' = snapshot /\ poller' \in {"sleep", "fetch"}
           \/ /\ snapshot' = [snapshot EXCEPT !.at = tick]
              /\ poller = "answered" /\ poller' = "fetched"
    BY <1>3 DEF Fetch, world
  <2>2. Bucket(snapshot.at) <= Bucket(tick) /\ Bucket(snapshot.at) \in Int
        /\ Bucket(tick) \in Int
    BY BucketGrows
  <2>3. LatestTrue'
    BY <2>1 DEF LatestTrue, Latest, Described, Quiet, Bucket
  <2>4. CASE snapshot' = snapshot /\ poller' \in {"sleep", "fetch"}
    BY <2>1, <2>3, <2>4 DEF Bucket, ClaimsSeen
  <2>5. CASE /\ snapshot' = [snapshot EXCEPT !.at = tick]
             /\ poller = "answered" /\ poller' = "fetched"
    <3>1. /\ snapshot' \in [of : Metadata, seen : Nat, at : Nat]
          /\ snapshot'.at = tick /\ snapshot'.of = snapshot.of /\ snapshot'.seen = snapshot.seen
      BY <2>5
    <3>2. \A id \in ids : id[4] <= Bucket(tick)
      BY <2>2
    <3>3. InOrder'
      BY <2>1, <3>1, <3>2 DEF Bucket
    <3>4. ClaimsSeen'
      BY <2>1, <2>5, <3>1 DEF ClaimsSeen, Bucket
    <3> QED
      BY <2>1, <2>3, <2>5, <3>1, <3>3, <3>4
  <2> QED
    BY <2>1, <2>4, <2>5
<1>4. CASE ClaimSnapshot
  <2> DEFINE id == SnapshotId(snapshot)
  <2>1. /\ UNCHANGED << tick, stream, changed, snapshot, infoQueue, known, troubled >>
        /\ poller = "fetched"
        /\ id[4] = Bucket(snapshot.at) /\ id[4] \in Int
        /\ id[1] = snapshot.of.live /\ id[2] = snapshot.of.game
    <3>1. /\ id[4] = Bucket(snapshot.at) /\ id[1] = snapshot.of.live
          /\ id[2] = snapshot.of.game
      BY SnapshotMinute
    <3>2. id[4] \in Int
      BY <3>1, BucketGrows
    <3> HIDE DEF id
    <3> QED
      BY <1>4, <3>1, <3>2 DEF ClaimSnapshot, world
  <2>2. CASE id \in ids
    <3>1. poller' = "sleep" /\ polled' = snapshot.seen /\ ids' = ids
      BY <1>4, <2>2 DEF ClaimSnapshot
    <3>2. Quiet(Bucket(snapshot.seen)) => Described(Latest)
      <4> HIDE DEF id
      <4> SUFFICES ASSUME Quiet(Bucket(snapshot.seen)) PROVE Described(Latest)
        OBVIOUS
      <4>1. snapshot.of = stream
        BY QuietSeen, Zenon DEF InfoInv
      <4>2. Quiet(id[4])
        <5>1. /\ snapshot.seen <= snapshot.at /\ snapshot.seen \in Int /\ snapshot.at \in Int
              /\ changed \in Int /\ troubled \in Int
          BY <2>1
        <5>2. /\ Bucket(snapshot.seen) <= Bucket(snapshot.at) /\ Bucket(snapshot.at) \in Int
              /\ Bucket(changed) \in Int /\ Bucket(troubled) \in Int
              /\ Bucket(snapshot.seen) \in Int
          BY <5>1, BucketGrows
        <5> QED
          BY <2>1, <5>2 DEF Quiet
      <4> QED
        BY <2>1, <2>2, <4>1, <4>2 DEF LatestTrue
    <3>3. LatestTrue'
      BY <2>1, <3>1, <3>2 DEF LatestTrue, Latest, Described, Quiet, Bucket
    <3> QED
      BY <2>1, <3>1, <3>3 DEF Bucket, ClaimsSeen
  <2>3. CASE id \notin ids
    <3>1. poller' = "claimed" /\ polled' = polled /\ ids' = ids \cup {id}
      BY <1>4, <2>3 DEF ClaimSnapshot
    <3>2. LatestTrue' /\ ClaimsSeen'
      BY <2>1, <3>1 DEF LatestTrue, Latest, Described, ClaimsSeen, Quiet, Bucket, SnapshotId
    <3>3. InfoTypeOK' /\ InOrder'
      <4> HIDE DEF id
      <4> QED
        BY <2>1, <3>1 DEF Bucket
    <3> QED
      BY <2>1, <3>1, <3>2, <3>3
  <2> QED
    BY <2>2, <2>3
<1>5. CASE PublishSnapshot
  <2>1. /\ UNCHANGED << tick, stream, changed, snapshot, ids, known, troubled >>
        /\ poller = "claimed" /\ poller' = "sleep" /\ polled' = snapshot.seen
        /\ infoQueue' = Append(infoQueue, snapshot.of) /\ snapshot.of \in Metadata
    BY <1>5 DEF PublishSnapshot, world
  <2>2. /\ infoQueue' \in Seq(Metadata) /\ infoQueue' # << >>
        /\ infoQueue'[Len(infoQueue')] = snapshot.of
    BY <2>1, AppendProperties
  <2>3. Latest' = snapshot.of
    BY <2>2 DEF Latest
  <2>4. Quiet(Bucket(snapshot.seen)) => Described(snapshot.of)
    BY QuietSeen DEF Described
  <2>5. ASSUME NEW id \in ids, Quiet(id[4]), id[1] = stream.live, id[2] = stream.game
        PROVE  Described(snapshot.of)
    <3>1. CASE id[4] <= Bucket(snapshot.seen)
      <4>1. Quiet(Bucket(snapshot.seen))
        <5>1. snapshot.seen \in Int /\ changed \in Int /\ troubled \in Int /\ id[4] \in Int
          OBVIOUS
        <5>2. /\ Bucket(changed) \in Int /\ Bucket(troubled) \in Int
              /\ Bucket(snapshot.seen) \in Int
          BY <5>1, BucketGrows
        <5> QED
          BY <2>5, <3>1, <5>1, <5>2 DEF Quiet
      <4> QED
        BY <2>4, <4>1
    <3>2. CASE id = SnapshotId(snapshot)
      BY <2>5, <3>2, SnapshotMinute DEF Described
    <3> QED
      BY <2>1, <3>1, <3>2 DEF ClaimsSeen
  <2>6. LatestTrue'
    <3>1. Bucket(polled)' = Bucket(snapshot.seen)
      BY <2>1 DEF Bucket
    <3>2. \A m : Quiet(m)' <=> Quiet(m)
      BY <2>1 DEF Quiet, Bucket
    <3>3. Described(Latest)' <=> Described(snapshot.of)
      BY <2>1, <2>3 DEF Described
    <3> QED
      BY <2>1, <2>4, <2>5, <3>1, <3>2, <3>3 DEF LatestTrue
  <2> QED
    BY <2>1, <2>2, <2>6 DEF Bucket, ClaimsSeen
<1>6. CASE PublishFails
  <2>1. /\ UNCHANGED << tick, stream, changed, snapshot, ids, infoQueue, known, polled >>
        /\ poller = "claimed" /\ poller' = "sleep" /\ troubled' = snapshot.at
    BY <1>6 DEF PublishFails, world
  <2>2. Bucket(snapshot.at) \in Int /\ Bucket(polled) \in Int
        /\ Bucket(polled) <= Bucket(snapshot.at)
    <3>1. polled \in Int /\ snapshot.at \in Int /\ polled <= snapshot.at
      BY <2>1
    <3> QED
      BY <3>1, BucketGrows
  <2>3. ~Quiet(Bucket(polled))' /\ \A id \in ids : ~Quiet(id[4])'
    BY <2>1, <2>2 DEF Quiet, Bucket
  <2>4. LatestTrue'
    BY <2>1, <2>3 DEF LatestTrue
  <2> QED
    BY <2>1, <2>4 DEF Bucket, ClaimsSeen
<1>7. CASE KeepMetadata
  <2>1. /\ UNCHANGED << tick, stream, changed, snapshot, ids, poller, polled, troubled >>
        /\ infoQueue # << >> /\ known' = Head(infoQueue) /\ infoQueue' = Tail(infoQueue)
    BY <1>7 DEF KeepMetadata, world
  <2>2. /\ known' \in Metadata /\ infoQueue' \in Seq(Metadata)
        /\ Len(infoQueue') = Len(infoQueue) - 1 /\ Len(infoQueue) \in Nat \ {0}
        /\ known' = infoQueue[1]
        /\ \A k \in 1 .. Len(infoQueue') : infoQueue'[k] = infoQueue[k + 1]
    BY <2>1, HeadTailProperties, EmptySeq, LenProperties
  <2>3. Latest' = Latest
    <3>1. CASE Len(infoQueue) = 1
      <4>1. infoQueue' = << >>
        BY <2>2, <3>1, EmptySeq
      <4> QED
        BY <2>1, <2>2, <3>1, <4>1 DEF Latest
    <3>2. CASE Len(infoQueue) # 1
      <4>1. infoQueue' # << >> /\ infoQueue'[Len(infoQueue')] = infoQueue[Len(infoQueue)]
        BY <2>2, <3>2
      <4> QED
        BY <2>1, <4>1 DEF Latest
    <3> QED
      BY <3>1, <3>2
  <2>4. LatestTrue' /\ ClaimsSeen'
    BY <2>1, <2>3 DEF LatestTrue, Described, ClaimsSeen, Quiet, Bucket, SnapshotId
  <2> QED
    BY <2>1, <2>2, <2>4 DEF Bucket
<1>8. CASE Restart
  <2>1. /\ UNCHANGED << tick, stream, changed, snapshot, ids, infoQueue, poller, polled >>
        /\ known' = Unknown /\ Unknown \in Metadata /\ troubled' = tick
    BY <1>8 DEF Restart, world, Unknown, Metadata
  <2>2. Bucket(snapshot.at) <= Bucket(tick) /\ Bucket(snapshot.at) \in Int
        /\ Bucket(polled) <= Bucket(tick) /\ Bucket(polled) \in Int /\ Bucket(tick) \in Int
    BY BucketGrows
  <2>3. ~Quiet(Bucket(polled))' /\ \A id \in ids : ~Quiet(id[4])'
    BY <2>1, <2>2 DEF Quiet, Bucket
  <2>4. LatestTrue'
    BY <2>1, <2>3 DEF LatestTrue
  <2>5. ClaimsSeen'
    BY <2>1 DEF ClaimsSeen, Bucket, SnapshotId
  <2> QED
    BY <2>1, <2>4, <2>5 DEF Bucket
<1> QED
  BY <1>0, <1>1, <1>2, <1>3, <1>4, <1>5, <1>6, <1>7, <1>8, <1>9 DEF InfoNext

\* What the poller, the queue and sub-llm hold always has its type.
THEOREM InfoTyping == InfoSpec => []InfoTypeOK
<1>1. InfoInv => InfoTypeOK
  BY DEF InfoInv
<1> QED
  BY <1>1, InfoInit_Inv, InfoNext_Inv, PTL DEF InfoSpec

\* The prompts of sub-llm are current in every behaviour of the two parts together: the
\* buffers forget nothing recent (_prune_locked), and once sub-llm has caught up its title
\* and game are the stream's, unless it changed or something failed since the minute began
\* in which Twitch last looked (_snapshot_id, publish_snapshot, fetched_at).
THEOREM PromptsCurrent == ContextSpec /\ InfoSpec => []ContextCurrent
<1>1. ContextInv /\ InfoInv => ContextCurrent
  BY DEF ContextInv, InfoInv, ContextCurrent, MetadataTrue, LatestTrue, Latest, Described, Quiet
<1> QED
  BY <1>1, ContextInit_Inv, ContextNext_Inv, InfoInit_Inv, InfoNext_Inv, PTL
     DEF ContextSpec, InfoSpec

-----------------------------------------------------------------------------
(* LlmSubscriber: the invariant *)

Id         == Nat \ {0}
ContentKey == {"content"} \X Nat \X Question
Waiting    == {askQueue[k] : k \in DOMAIN askQueue}

\* Where a handler stands: with a message; past the claim of the message; past that of
\* the content; with the reply not out yet; without.
Busy      == {"content", "trigger", "ask", "fallback", "publish", "record", "free",
              "freeTrigger", "settle"}
Owning    == {"ask", "fallback", "publish", "record", "free", "freeTrigger"}
Keyed     == {"trigger", "ask", "fallback", "publish", "record", "free"}
Unreplied == {"ask", "fallback", "publish", "free", "freeTrigger"}
Place     == Busy \cup {"down", "greet", "idle"}
Handler   == [pc : Place, msg : Id \cup {NoMessage}, key : ContentKey \cup {<< >>},
              hello : BOOLEAN, linked : BOOLEAN, raised : BOOLEAN]

AskTypeOK ==
    /\ text \in Seq(Question \cup {Other}) /\ askQueue \in Seq(Id) /\ window \in Nat
    /\ llm \in [Instance -> Handler]
    /\ answers \in Seq(Id \X ContentKey)
    /\ unsure \in Nat /\ askFaults \in Nat /\ lonely \in BOOLEAN

\* Every message the processes know of was said, and what is in hand is a question, under
\* its key once the content is claimed.
Known(id) == id \in Waiting \cup Answered \cup blank \/ Trigger(id) \in claims

InPlace(i) ==
    /\ llm[i].pc \in Busy    => llm[i].msg \in DOMAIN text /\ text[llm[i].msg] \in Question
    /\ llm[i].pc \notin Busy => llm[i].msg = NoMessage
    /\ llm[i].pc \in Keyed   => llm[i].key \in ContentKey /\ llm[i].key[3] = text[llm[i].msg]
    /\ llm[i].pc = "down"    => ~llm[i].hello
    /\ llm[i].pc = "record"  => llm[i].msg \in Answered

Placed ==
    /\ \A id \in Id : Known(id) => id \in DOMAIN text
    /\ \A i \in Instance : InPlace(i)

\* A claim made by a handler under way is there, and nobody else's.
MessageHeld ==
    \A i \in Instance : llm[i].pc \in Owning =>
        /\ Trigger(llm[i].msg) \in claims
        /\ \A j \in Instance \ {i} : llm[j].pc \in Owning => llm[j].msg # llm[i].msg

ContentHeld ==
    \A i \in Instance : llm[i].pc \in Keyed =>
        /\ llm[i].key \in claims
        /\ \A j \in Instance \ {i} : llm[j].pc \in Keyed => llm[j].key # llm[i].key

StartupHeld ==
    /\ \A i \in Instance : llm[i].hello =>
         Startup \in claims /\ \A j \in Instance \ {i} : ~llm[j].hello
    /\ Startup \in claims \ orphans => \E i \in Instance : llm[i].hello
    /\ DuplicateExplained

\* A message, a content has at most as many replies as publishes were unsure, or one more
\* and then it is claimed and nobody is about to reply to it.
To(id)   == {k \in DOMAIN answers : answers[k][1] = id}
For(key) == {k \in DOMAIN answers : answers[k][2] = key}

MessageOnce ==
    \A id \in Id :
        \/ Cardinality(To(id)) <= unsure
        \/ /\ Cardinality(To(id)) <= unsure + 1
           /\ Trigger(id) \in claims
           /\ \A i \in Instance : llm[i].pc \in Unreplied => llm[i].msg # id

ContentOnce ==
    \A key \in ContentKey :
        \/ Cardinality(For(key)) <= unsure
        \/ /\ Cardinality(For(key)) <= unsure + 1
           /\ key \in claims
           /\ \A i \in Instance : llm[i].pc \in Keyed \ {"record"} => llm[i].key # key

\* Every claim is left by a process that ended, in the hands of one, or that of a reply -
\* and a handler past its reply finds it among the answers.
Replied(c) == \E k \in DOMAIN answers : c = Trigger(answers[k][1]) \/ c = answers[k][2]

Accounted ==
    /\ \A c \in claims : c \in orphans \/ (\E i \in Instance : c \in Owned(i)) \/ Replied(c)
    /\ \A i \in Instance : llm[i].pc = "record" =>
          \E k \in DOMAIN answers : answers[k] = << llm[i].msg, llm[i].key >>

\* The question is being handled, was handled, or is like one that is or was.
Underway(id) == \E i \in Instance : /\ llm[i].pc \in {"trigger", "ask", "fallback", "publish"}
                                    /\ llm[i].msg = id
Dealt(id)    == id \in Answered \cup blank \/ Underway(id)
Repeated(id) == \E d \in dropped : /\ d[1] = id
                                   /\ \E other \in DOMAIN text \ {id} :
                                         text[other] = text[id] /\ Dealt(other)
Begun(id)    == \E i \in Instance : llm[i].pc = "content" /\ llm[i].msg = id

\* Without a failure: nothing is raised or disconnected, each message is in one place and
\* not claimed before it is begun,
Smooth ==
    /\ \A i \in Instance : ~llm[i].raised /\ (llm[i].pc # "down" => llm[i].linked)
    /\ \A j, k \in DOMAIN askQueue : askQueue[j] = askQueue[k] => j = k
    /\ \A i \in Instance : llm[i].msg \notin Waiting
    /\ \A i, j \in Instance : llm[i].msg = llm[j].msg /\ llm[i].msg # NoMessage => i = j
    /\ \A id \in Waiting : Trigger(id) \notin claims /\ id \notin Answered \cup blank
    /\ \A i \in Instance : llm[i].pc \in {"content", "trigger"} =>
          Trigger(llm[i].msg) \notin claims /\ llm[i].msg \notin Answered \cup blank

\* and every content claimed, every reply given up and every question has its reason.
Reasoned ==
    /\ \A key \in ContentKey : key \in claims =>
          \/ \E id \in DOMAIN text : text[id] = key[3] /\ id \in Answered
          \/ \E i \in Instance : llm[i].pc \in Keyed /\ llm[i].key = key
    /\ \A i \in Instance : llm[i].pc \in {"free", "freeTrigger"} => llm[i].msg \in blank
    /\ \A id \in DOMAIN text : text[id] \in Question /\ id \notin Waiting
          => Dealt(id) \/ Repeated(id) \/ Begun(id)

AskHeld == MessageHeld /\ ContentHeld /\ StartupHeld
AskOnce == MessageOnce /\ ContentOnce
AskInv  == /\ AskTypeOK /\ Placed /\ AskHeld /\ AskOnce /\ Accounted
           /\ (askFaults = 0 => Smooth /\ Reasoned)

-----------------------------------------------------------------------------
(* LlmSubscriber: types and places *)

\* The claims of a message, of a content and of the start are never confused.
LEMMA ClaimsDistinct ==
    /\ \A key \in ContentKey : key # Startup /\ \A id : key # Trigger(id)
    /\ \A id : Trigger(id) # Startup
    /\ \A id, other : Trigger(id) = Trigger(other) => id = other
BY DEF ContentKey, Startup, Trigger

LEMMA AskInit_Inv == AskInit => AskInv
<1> SUFFICES ASSUME AskInit PROVE AskInv
  OBVIOUS
<1> USE DEF AskInit
<1>1. \A i \in Instance : llm[i] = Down
  OBVIOUS
<1>2. Down \in Handler /\ Down.pc \notin Busy /\ Down.pc = "down"
  BY DEF Down, Handler, Place, Busy
<1>3. AskTypeOK
  BY <1>2, EmptySeq DEF AskTypeOK
<1>0. Waiting = {} /\ Answered = {}
  BY DEF Waiting, Answered
<1>4. Placed
  <2>1. \A i \in Instance : llm[i].pc = "down" /\ llm[i].msg = NoMessage /\ ~llm[i].hello
    BY <1>1 DEF Down
  <2> QED
    BY <1>0, <2>1 DEF Placed, InPlace, Known, Busy, Keyed
<1>5. AskHeld
  BY <1>1 DEF AskHeld, MessageHeld, ContentHeld, StartupHeld, DuplicateExplained, Down, Owning, Keyed
<1>6. AskOnce
  <2>1. \A id : To(id) = {} /\ For(id) = {}
    BY DEF To, For
  <2>2. \A id : Cardinality(To(id)) = 0 /\ Cardinality(For(id)) = 0
    BY <2>1, FS_EmptySet
  <2> QED
    BY <2>2 DEF AskOnce, MessageOnce, ContentOnce
<1>7. Accounted
  <2>1. claims = {} /\ \A i \in Instance : llm[i].pc = "down"
    BY <1>1 DEF Down
  <2> QED
    BY <2>1 DEF Accounted
<1>8. Smooth
  BY <1>1 DEF Smooth, Waiting, Down
<1>9. Reasoned
  <2>1. \A i \in Instance : llm[i].pc = "down"
    BY <1>1 DEF Down
  <2>2. DOMAIN text = {} /\ claims = {}
    OBVIOUS
  <2> QED
    BY <2>1, <2>2 DEF Reasoned
<1> QED
  BY <1>3, <1>4, <1>5, <1>6, <1>7, <1>8, <1>9 DEF AskInv

\* What the broker takes back is a sequence of messages.
LEMMA ReturnedType ==
    ASSUME AskTypeOK, NEW i \in Instance
    PROVE  /\ Returned(i) \in Seq(Id)
           /\ {Returned(i)[k] : k \in DOMAIN Returned(i)} \subseteq Waiting \cup {llm[i].msg}
           /\ llm[i].msg \notin Id => Returned(i) = askQueue
<1>1. llm[i].msg \in Id \cup {NoMessage} /\ NoMessage \notin Id
  BY AskAssumption DEF AskTypeOK, Handler, Id
<1>2. CASE Returned(i) = askQueue
  BY <1>2 DEF AskTypeOK, Waiting
<1>3. CASE Returned(i) # askQueue
  <2>1. Returned(i) = << llm[i].msg >> \o askQueue /\ llm[i].msg \in Id
    BY <1>1, <1>3 DEF Returned
  <2>2. << llm[i].msg >> \in Seq(Id) /\ askQueue \in Seq(Id)
    BY <2>1 DEF AskTypeOK
  <2>3. /\ Returned(i) \in Seq(Id)
        /\ DOMAIN Returned(i) = 1 .. Len(Returned(i))
        /\ Len(Returned(i)) = Len(askQueue) + 1
        /\ \A k \in 1 .. Len(Returned(i)) :
              Returned(i)[k] = IF k = 1 THEN llm[i].msg ELSE askQueue[k - 1]
    BY <2>1, <2>2, ConcatProperties, LenProperties
  <2>4. \A k \in DOMAIN Returned(i) : k = 1 \/ k - 1 \in DOMAIN askQueue
    BY <2>2, <2>3, LenProperties
  <2> QED
    BY <2>1, <2>3, <2>4 DEF Waiting
<1> QED
  BY <1>2, <1>3

\* One process acts at a time, and the messages said stay.
LEMMA OneActs ==
    ASSUME AskTypeOK, NEW i \in Instance, Instances(i)
    PROVE  /\ text' = text /\ window' = window
           /\ \A j \in Instance \ {i} : llm'[j] = llm[j]
<1> USE DEF AskTypeOK
<1>1. CASE Start(i) \/ Greet(i) \/ GreetFails(i) \/ Interrupt(i) \/ KillAsk(i)
  BY <1>1 DEF Start, Greet, GreetFails, Interrupt, KillAsk, Leave, Goto
<1>2. CASE Hear(i) \/ Take(i) \/ ClaimContent(i) \/ ClaimTrigger(i) \/ TableFails(i)
  BY <1>2 DEF Hear, Take, ClaimContent, ClaimTrigger, TableFails, Leave, Goto
<1>3. CASE \/ Grounding(i) \/ (\E empty \in BOOLEAN : Reply(i, empty)) \/ AskFails(i)
           \/ HeartbeatLost(i) \/ PublishReply(i) \/ PublishUnsure(i)
  BY <1>3 DEF Grounding, Reply, AskFails, HeartbeatLost, PublishReply, PublishUnsure, Goto,
              askHistory
<1>4. CASE \/ (\E worthy \in BOOLEAN : PublishRecord(i, worthy)) \/ RecordFails(i)
           \/ FreeContent(i) \/ FreeTrigger(i) \/ Settle(i)
  BY <1>4 DEF PublishRecord, RecordFails, FreeContent, FreeTrigger, Settle, Leave, Goto
<1> QED
  BY <1>1, <1>2, <1>3, <1>4 DEF Instances

-----------------------------------------------------------------------------
(* LlmSubscriber: what a step does, field by field *)

Same(i) == /\ llm'[i].msg = llm[i].msg /\ llm'[i].key = llm[i].key
           /\ llm'[i].hello = llm[i].hello
Calm(i) == llm'[i].raised = llm[i].raised /\ llm'[i].linked = llm[i].linked
Goes(i, pc) == llm'[i].pc = pc /\ Same(i) /\ Calm(i)

\* The start, and every way to the end of a process.
Begins(i) ==
    /\ llm[i].pc = "down" /\ llm'[i].pc \in {"greet", "idle"} /\ llm'[i].msg = NoMessage
    /\ llm'[i].hello = (Startup \notin claims) /\ llm'[i].linked /\ ~llm'[i].raised
    /\ claims' = claims \cup {Startup} /\ askQueue' = askQueue
    /\ lonely' = (lonely \/ (Startup \in claims /\ \A j \in Instance \ {i} : llm[j].pc = "down"))
    /\ UNCHANGED << answers, blank, dropped, unsure, orphans >>

Ends(i) ==
    /\ llm'[i] = Down
    /\ \/ orphans' = orphans \cup Owned(i) /\ askFaults' > 0 /\ claims' = claims
       \/ /\ claims' = IF llm[i].hello THEN claims \ {Startup} ELSE claims
          /\ \/ orphans' = orphans \cup (Owned(i) \ {Startup}) /\ askFaults' > 0
             \/ /\ orphans' = orphans
                /\ \/ llm[i].pc = "idle" /\ askQueue' = Returned(i)
                   \/ llm[i].pc = "settle" /\ (llm[i].raised \/ ~llm[i].linked)
    /\ UNCHANGED << answers, blank, dropped, unsure, lonely >>

\* A message is taken, put aside, or begun.
Takes(i) ==
    /\ askQueue # << >> /\ text[Head(askQueue)] \in Question /\ askQueue' = Tail(askQueue)
    /\ llm[i].pc = "idle" /\ llm'[i].pc = "content" /\ llm'[i].msg = Head(askQueue)
    /\ llm'[i].hello = llm[i].hello /\ Calm(i)
    /\ UNCHANGED << claims, answers, blank, dropped, unsure, lonely, orphans >>

Rests(i) ==
    /\ llm[i].pc = "settle" /\ llm'[i].pc = "idle" /\ llm'[i].msg = NoMessage
    /\ llm'[i].hello = llm[i].hello /\ Calm(i)
    /\ UNCHANGED << askQueue, claims, answers, blank, dropped, unsure, lonely, orphans >>

\* The two claims: found taken, or made.
Repeats(i) ==
    /\ llm[i].pc = "content" /\ Goes(i, "settle") /\ Content(llm[i].msg) \in claims
    /\ dropped' = dropped \cup {<< llm[i].msg, Content(llm[i].msg) >>}
    /\ UNCHANGED << askQueue, claims, answers, blank, unsure, lonely, orphans >>

Enters(i) ==
    /\ llm[i].pc = "content" /\ llm'[i].pc = "trigger" /\ Content(llm[i].msg) \notin claims
    /\ llm'[i].key = Content(llm[i].msg) /\ claims' = claims \cup {Content(llm[i].msg)}
    /\ llm'[i].msg = llm[i].msg /\ llm'[i].hello = llm[i].hello /\ Calm(i)
    /\ UNCHANGED << askQueue, answers, blank, dropped, unsure, lonely, orphans >>

Knows(i) ==
    /\ llm[i].pc = "trigger" /\ Goes(i, "settle") /\ Trigger(llm[i].msg) \in claims
    /\ claims' = claims \ {llm[i].key}
    /\ UNCHANGED << askQueue, answers, blank, dropped, unsure, lonely, orphans >>

Owns(i) ==
    /\ llm[i].pc = "trigger" /\ Goes(i, "ask") /\ Trigger(llm[i].msg) \notin claims
    /\ claims' = claims \cup {Trigger(llm[i].msg)}
    /\ UNCHANGED << askQueue, answers, blank, dropped, unsure, lonely, orphans >>

\* On the way to the reply and after it; a reply that is empty leaves its message in blank.
Walks(i) ==
    /\ Same(i)
    /\ \/ llm[i].pc = "greet" /\ llm'[i].pc = "idle" /\ blank' = blank
       \/ llm[i].pc = "ask" /\ llm'[i].pc = "fallback" /\ blank' = blank
       \/ llm[i].pc \in {"ask", "fallback"} /\ llm'[i].pc = "publish" /\ blank' = blank
       \/ /\ llm[i].pc \in {"ask", "fallback"} /\ llm'[i].pc = "free"
          /\ blank' = blank \cup {llm[i].msg}
       \/ llm[i].pc = "record" /\ llm'[i].pc = "settle" /\ blank' = blank
    /\ Calm(i)
    /\ UNCHANGED << askQueue, claims, answers, dropped, unsure, lonely, orphans >>

\* Something fails: an exception, or the connection.
Stumbles(i) ==
    /\ Same(i)
    /\ \/ llm[i].pc \in {"ask", "fallback", "publish"} /\ llm'[i].pc = "free"
       \/ llm[i].pc \in {"ask", "fallback"} /\ llm'[i].pc = llm[i].pc
       \/ llm[i].pc = "record" /\ llm'[i].pc = "settle"
    /\ askFaults' > 0 \/ ~llm[i].linked
    /\ UNCHANGED << claims, answers, blank, dropped, unsure, lonely, orphans >>

\* A reply is published, to its message and under its key.
Publishes(i) ==
    /\ llm[i].pc = "publish" /\ Same(i)
    /\ answers' = Append(answers, << llm[i].msg, llm[i].key >>)
    /\ \/ llm'[i].pc = "record" /\ unsure' = unsure /\ Calm(i)
       \/ llm'[i].pc = "free" /\ unsure' = unsure + 1 /\ askFaults' > 0
    /\ UNCHANGED << askQueue, claims, blank, dropped, lonely, orphans >>

\* The claims are given back.
Frees(i) ==
    /\ llm[i].pc = "free" /\ Goes(i, "freeTrigger") /\ claims' = claims \ {llm[i].key}
    /\ UNCHANGED << askQueue, answers, blank, dropped, unsure, lonely, orphans >>

Releases(i) ==
    /\ llm[i].pc = "freeTrigger" /\ Goes(i, "settle")
    /\ claims' = claims \ {Trigger(llm[i].msg)}
    /\ UNCHANGED << askQueue, answers, blank, dropped, unsure, lonely, orphans >>

Moves(i) ==
    \/ Begins(i) \/ Ends(i) \/ Hear(i) \/ Takes(i) \/ Rests(i)
    \/ Repeats(i) \/ Enters(i) \/ Knows(i) \/ Owns(i)
    \/ Walks(i) \/ Stumbles(i) \/ Publishes(i) \/ Frees(i) \/ Releases(i)

LEMMA GotoGoes ==
    ASSUME llm \in [Instance -> Handler], NEW i \in Instance, NEW pc, Goto(i, pc)
    PROVE  Goes(i, pc)
BY DEF Goto, Goes, Same, Calm, Handler

LEMMA RaisedSame ==
    ASSUME llm \in [Instance -> Handler], NEW i \in Instance, NEW pc,
           llm' = [llm EXCEPT ![i].pc = pc, ![i].raised = TRUE]
    PROVE  llm'[i].pc = pc /\ Same(i)
BY DEF Same, Handler

LEMMA StepMoves == ASSUME AskTypeOK, NEW i \in Instance, Instances(i) PROVE Moves(i)
<1>0. llm \in [Instance -> Handler] /\ askFaults \in Nat
  BY DEF AskTypeOK
<1>1. CASE Start(i)
  <2>1. /\ llm'[i].pc \in {"greet", "idle"} /\ llm'[i].msg = NoMessage /\ llm'[i].linked
        /\ llm'[i].hello = (Startup \notin claims) /\ ~llm'[i].raised
    BY <1>0, <1>1 DEF Start, Down
  <2>2. lonely' = (lonely \/ (Startup \in claims /\ \A j \in Instance \ {i} : llm[j].pc = "down"))
    BY <1>1, Zenon DEF Start, At
  <2> QED
    BY <1>1, <2>1, <2>2 DEF Start, Begins, Moves, At
<1>2. CASE GreetFails(i) \/ KillAsk(i)
  <2>1. llm'[i] = Down
    BY <1>0, <1>2 DEF GreetFails, KillAsk
  <2>2. askFaults' > 0
    BY <1>0, <1>2 DEF GreetFails, KillAsk, Fault
  <2>3. /\ orphans' = orphans \cup Owned(i) /\ claims' = claims
        /\ UNCHANGED << answers, blank, dropped, unsure, lonely >>
    BY <1>2 DEF GreetFails, KillAsk
  <2> QED
    BY <2>1, <2>2, <2>3 DEF Ends, Moves
<1>3. CASE Interrupt(i)
  BY <1>0, <1>3 DEF Interrupt, Leave, At, Ends, Moves, askHistory
<1>4. CASE TableFails(i)
  <2>0. Fault
    BY <1>4 DEF TableFails
  <2>1. askFaults' > 0
    BY <1>0, <2>0 DEF Fault
  <2> QED
    BY <1>0, <1>4, <2>1 DEF TableFails, Leave, Ends, Moves, askHistory
<1>5. CASE Settle(i)
  <2>1. CASE llm[i].raised \/ ~llm[i].linked
    BY <1>0, <1>5, <2>1 DEF Settle, Leave, At, Ends, Moves, askHistory
  <2>2. CASE ~(llm[i].raised \/ ~llm[i].linked)
    <3>1. llm' = [llm EXCEPT ![i].pc = "idle", ![i].msg = NoMessage, ![i].key = << >>]
      BY <1>5, <2>2 DEF Settle
    <3>2. /\ llm'[i].pc = "idle" /\ llm'[i].msg = NoMessage /\ llm'[i].hello = llm[i].hello
          /\ Calm(i)
      BY <1>0, <3>1 DEF Calm, Handler
    <3>3. /\ llm[i].pc = "settle"
          /\ UNCHANGED << askQueue, claims, answers, blank, dropped, unsure, lonely, orphans >>
      BY <1>5, <2>2 DEF Settle, At, askHistory
    <3> QED
      BY <3>2, <3>3 DEF Rests, Moves
  <2> QED
    BY <2>1, <2>2
<1>6. CASE Hear(i)
  BY <1>6 DEF Moves
<1>7. CASE Take(i)
  <2>1. /\ llm'[i].pc = "content" /\ llm'[i].msg = Head(askQueue)
        /\ llm'[i].hello = llm[i].hello /\ Calm(i)
    BY <1>0, <1>7 DEF Take, Calm, Handler
  <2> QED
    BY <1>7, <2>1 DEF Take, At, Takes, Moves, askHistory
<1>8. CASE ClaimContent(i)
  <2>1. CASE Content(llm[i].msg) \in claims
    <3>1. Goto(i, "settle")
      BY <1>8, <2>1 DEF ClaimContent
    <3> QED
      BY <1>0, <1>8, <2>1, <3>1, GotoGoes DEF ClaimContent, At, Repeats, Moves
  <2>2. CASE Content(llm[i].msg) \notin claims
    <3>1. llm' = [llm EXCEPT ![i].pc = "trigger", ![i].key = Content(llm[i].msg)]
      BY <1>8, <2>2 DEF ClaimContent
    <3>2. /\ llm'[i].pc = "trigger" /\ llm'[i].key = Content(llm[i].msg)
          /\ llm'[i].msg = llm[i].msg /\ llm'[i].hello = llm[i].hello /\ Calm(i)
      BY <1>0, <3>1 DEF Calm, Handler
    <3> QED
      BY <1>8, <2>2, <3>2 DEF ClaimContent, At, Enters, Moves
  <2> QED
    BY <2>1, <2>2
<1>9. CASE ClaimTrigger(i)
  <2>1. CASE Trigger(llm[i].msg) \in claims
    <3>1. Goes(i, "settle")
      BY <1>0, <1>9, <2>1, GotoGoes DEF ClaimTrigger
    <3> QED
      BY <1>9, <2>1, <3>1 DEF ClaimTrigger, At, Knows, Moves, askHistory
  <2>2. CASE Trigger(llm[i].msg) \notin claims
    <3>1. Goes(i, "ask")
      BY <1>0, <1>9, <2>2, GotoGoes DEF ClaimTrigger
    <3> QED
      BY <1>9, <2>2, <3>1 DEF ClaimTrigger, At, Owns, Moves, askHistory
  <2> QED
    BY <2>1, <2>2
<1>10. CASE Greet(i)
  <2>1. Goes(i, "idle")
    BY <1>0, <1>10, GotoGoes DEF Greet
  <2> QED
    BY <1>10, <2>1 DEF Greet, At, Goes, Walks, Moves, askHistory
<1>11. CASE Grounding(i)
  <2>1. Goes(i, "fallback")
    BY <1>0, <1>11, GotoGoes DEF Grounding
  <2> QED
    BY <1>11, <2>1 DEF Grounding, At, Goes, Walks, Moves, askHistory
<1>12. ASSUME NEW empty \in BOOLEAN, Reply(i, empty) PROVE Moves(i)
  <2>1. Goes(i, IF empty THEN "free" ELSE "publish")
    BY <1>0, <1>12, GotoGoes DEF Reply
  <2> QED
    BY <1>12, <2>1 DEF Reply, At, Goes, Walks, Moves
<1>13. ASSUME NEW worthy \in BOOLEAN, PublishRecord(i, worthy) PROVE Moves(i)
  <2>1. Goes(i, "settle")
    BY <1>0, <1>13, GotoGoes DEF PublishRecord
  <2> QED
    BY <1>13, <2>1 DEF PublishRecord, At, Goes, Walks, Moves
<1>14. CASE AskFails(i)
  <2>1. llm'[i].pc = "free" /\ Same(i)
    BY <1>0, <1>14, RaisedSame DEF AskFails
  <2>2. askFaults' > 0
    BY <1>0, <1>14 DEF AskFails, Fault
  <2> QED
    BY <1>14, <2>1, <2>2 DEF AskFails, Stumbles, Moves, askHistory
<1>15. CASE RecordFails(i)
  <2>1. llm'[i].pc = "settle" /\ Same(i)
    BY <1>0, <1>15, RaisedSame DEF RecordFails
  <2>2. askFaults' > 0
    BY <1>0, <1>15 DEF RecordFails, Fault
  <2> QED
    BY <1>15, <2>1, <2>2 DEF RecordFails, At, Stumbles, Moves, askHistory
<1>16. CASE HeartbeatLost(i)
  <2>1. llm' = [llm EXCEPT ![i].linked = FALSE] /\ askFaults' > 0
    BY <1>0, <1>16 DEF HeartbeatLost, Fault
  <2>2. llm'[i].pc = llm[i].pc /\ Same(i)
    BY <1>0, <2>1 DEF Same, Handler
  <2> QED
    BY <1>16, <2>1, <2>2 DEF HeartbeatLost, Stumbles, Moves, askHistory
<1>17. CASE PublishReply(i)
  <2>1. CASE llm[i].linked
    <3>1. Goes(i, "record")
      BY <1>0, <1>17, <2>1, GotoGoes DEF PublishReply
    <3> QED
      BY <1>17, <2>1, <3>1 DEF PublishReply, At, Goes, Publishes, Moves, askHistory
  <2>2. CASE ~llm[i].linked
    <3>1. llm'[i].pc = "free" /\ Same(i)
      BY <1>0, <1>17, <2>2, RaisedSame DEF PublishReply
    <3> QED
      BY <1>17, <2>2, <3>1 DEF PublishReply, At, Stumbles, Moves, askHistory
  <2> QED
    BY <2>1, <2>2
<1>18. CASE PublishUnsure(i)
  <2>1. llm'[i].pc = "free" /\ Same(i)
    BY <1>0, <1>18, RaisedSame DEF PublishUnsure
  <2>2. askFaults' > 0
    BY <1>0, <1>18 DEF PublishUnsure, Fault
  <2> QED
    BY <1>18, <2>1, <2>2 DEF PublishUnsure, At, Publishes, Moves
<1>19. CASE FreeContent(i)
  <2>1. Goes(i, "freeTrigger")
    BY <1>0, <1>19, GotoGoes DEF FreeContent
  <2> QED
    BY <1>19, <2>1 DEF FreeContent, At, Frees, Moves, askHistory
<1>20. CASE FreeTrigger(i)
  <2>1. Goes(i, "settle")
    BY <1>0, <1>20, GotoGoes DEF FreeTrigger
  <2> QED
    BY <1>20, <2>1 DEF FreeTrigger, At, Releases, Moves, askHistory
<1> QED
  BY <1>1, <1>2, <1>3, <1>4, <1>5, <1>6, <1>7, <1>8, <1>9, <1>10, <1>11, <1>12, <1>13, <1>14,
     <1>15, <1>16, <1>17, <1>18, <1>19, <1>20 DEF Instances

\* The handlers keep their types.
LEMMA AskNext_Llm ==
    ASSUME AskTypeOK, Placed, NEW i \in Instance, Instances(i)
    PROVE  llm' \in [Instance -> Handler]
<1>0. llm \in [Instance -> Handler]
  BY DEF AskTypeOK
<1> USE DEF Place, Busy
<1>1. CASE \/ Greet(i) \/ ClaimTrigger(i) \/ Grounding(i)
           \/ (\E empty \in BOOLEAN : Reply(i, empty))
           \/ (\E worthy \in BOOLEAN : PublishRecord(i, worthy))
           \/ FreeContent(i) \/ FreeTrigger(i)
  <2>1. \A pc \in Place : [llm[i] EXCEPT !.pc = pc] \in Handler
    BY <1>0 DEF Handler
  <2>2. \E pc \in Place : llm' = [llm EXCEPT ![i].pc = pc]
    BY <1>1 DEF Greet, ClaimTrigger, Grounding, Reply, PublishRecord, FreeContent, FreeTrigger,
                Goto
  <2> QED
    BY <1>0, <2>1, <2>2
<1>2. CASE AskFails(i) \/ PublishReply(i) \/ PublishUnsure(i) \/ RecordFails(i)
  <2>1. \A pc \in Place : /\ [llm[i] EXCEPT !.pc = pc] \in Handler
                          /\ [llm[i] EXCEPT !.pc = pc, !.raised = TRUE] \in Handler
    BY <1>0 DEF Handler
  <2>2. \E pc \in Place : \/ llm' = [llm EXCEPT ![i].pc = pc]
                          \/ llm' = [llm EXCEPT ![i].pc = pc, ![i].raised = TRUE]
    BY <1>2 DEF AskFails, PublishReply, PublishUnsure, RecordFails, Goto
  <2> QED
    BY <1>0, <2>1, <2>2
<1>3. CASE GreetFails(i) \/ Interrupt(i) \/ KillAsk(i) \/ TableFails(i) \/ Hear(i)
  <2>1. Down \in Handler
    BY DEF Down, Handler
  <2>2. llm' = llm \/ llm' = [llm EXCEPT ![i] = Down]
    BY <1>3 DEF GreetFails, Interrupt, KillAsk, TableFails, Hear, Leave
  <2> QED
    BY <1>0, <2>1, <2>2
<1>4. CASE Start(i)
  <2>1. \A pc \in {"greet", "idle"}, first \in BOOLEAN :
           [Down EXCEPT !.pc = pc, !.hello = first, !.linked = TRUE] \in Handler
    BY DEF Down, Handler
  <2> QED
    BY <1>0, <1>4, <2>1 DEF Start
<1>5. CASE Take(i)
  <2>1. askQueue # << >> => Head(askQueue) \in Id
    BY HeadTailProperties DEF AskTypeOK
  <2>2. \A id \in Id : [llm[i] EXCEPT !.pc = "content", !.msg = id] \in Handler
    BY <1>0 DEF Handler
  <2> QED
    BY <1>0, <1>5, <2>1, <2>2 DEF Take
<1>6. CASE ClaimContent(i)
  <2>1. llm[i].msg \in DOMAIN text /\ text[llm[i].msg] \in Question
    BY <1>6 DEF ClaimContent, At, Placed, InPlace
  <2>2. Content(llm[i].msg) \in ContentKey
    BY <2>1 DEF Content, ContentKey, AskTypeOK
  <2>3. /\ [llm[i] EXCEPT !.pc = "settle"] \in Handler
        /\ \A key \in ContentKey : [llm[i] EXCEPT !.pc = "trigger", !.key = key] \in Handler
    BY <1>0 DEF Handler
  <2> QED
    BY <1>0, <1>6, <2>2, <2>3 DEF ClaimContent, Goto
<1>7. CASE HeartbeatLost(i)
  <2>1. [llm[i] EXCEPT !.linked = FALSE] \in Handler
    BY <1>0 DEF Handler
  <2> QED
    BY <1>0, <1>7, <2>1 DEF HeartbeatLost
<1>8. CASE Settle(i)
  <2>1. Down \in Handler
    BY DEF Down, Handler
  <2>2. [llm[i] EXCEPT !.pc = "idle", !.msg = NoMessage, !.key = << >>] \in Handler
    BY <1>0 DEF Handler
  <2>3. \/ llm' = [llm EXCEPT ![i] = Down]
        \/ llm' = [llm EXCEPT ![i].pc = "idle", ![i].msg = NoMessage, ![i].key = << >>]
    BY <1>8 DEF Settle, Leave
  <2> QED
    BY <1>0, <2>1, <2>2, <2>3
<1> QED
  BY <1>1, <1>2, <1>3, <1>4, <1>5, <1>6, <1>7, <1>8 DEF Instances

\* The queue gets back what was delivered, or gives its head away.
LEMMA QueueStep ==
    ASSUME AskTypeOK, NEW i \in Instance, Instances(i)
    PROVE  \/ askQueue' = askQueue \/ askQueue' = Returned(i)
           \/ askQueue # << >> /\ askQueue' = Tail(askQueue) /\ (Hear(i) \/ Take(i))
<1>1. CASE Start(i) \/ Greet(i) \/ GreetFails(i) \/ Interrupt(i) \/ KillAsk(i)
  BY <1>1 DEF Start, Greet, GreetFails, Interrupt, KillAsk, Leave
<1>2. CASE Hear(i) \/ Take(i) \/ ClaimContent(i) \/ ClaimTrigger(i) \/ TableFails(i)
  BY <1>2 DEF Hear, Take, ClaimContent, ClaimTrigger, TableFails, Leave
<1>3. CASE \/ Grounding(i) \/ (\E empty \in BOOLEAN : Reply(i, empty)) \/ AskFails(i)
           \/ HeartbeatLost(i) \/ PublishReply(i) \/ PublishUnsure(i)
  BY <1>3 DEF Grounding, Reply, AskFails, HeartbeatLost, PublishReply, PublishUnsure
<1>4. CASE \/ (\E worthy \in BOOLEAN : PublishRecord(i, worthy)) \/ RecordFails(i)
           \/ FreeContent(i) \/ FreeTrigger(i) \/ Settle(i)
  BY <1>4 DEF PublishRecord, RecordFails, FreeContent, FreeTrigger, Settle, Leave
<1> QED
  BY <1>1, <1>2, <1>3, <1>4 DEF Instances

\* Only a publishing adds to the answers.
LEMMA AnswersStep ==
    ASSUME AskTypeOK, NEW i \in Instance, Instances(i)
    PROVE  Publishes(i) \/ (answers' = answers /\ unsure' = unsure)
BY StepMoves DEF Moves, Begins, Ends, Hear, Takes, Rests, Repeats, Enters, Knows, Owns, Walks,
                 Stumbles, Frees, Releases, askHistory

LEMMA HistoryStep ==
    ASSUME AskTypeOK, NEW i \in Instance, Instances(i)
    PROVE  askFaults' \in Nat /\ askFaults' >= askFaults /\ lonely' \in BOOLEAN
<1>0. askFaults \in Nat /\ lonely \in BOOLEAN
  BY DEF AskTypeOK
<1>2. askFaults' = askFaults \/ askFaults' = askFaults + 1
  <2>1. CASE Start(i) \/ Greet(i) \/ GreetFails(i) \/ Interrupt(i) \/ KillAsk(i)
    BY <2>1 DEF Start, Greet, GreetFails, Interrupt, KillAsk, Fault
  <2>2. CASE Hear(i) \/ Take(i) \/ ClaimContent(i) \/ ClaimTrigger(i) \/ TableFails(i)
    BY <2>2 DEF Hear, Take, ClaimContent, ClaimTrigger, TableFails, Fault
  <2>3. CASE \/ Grounding(i) \/ (\E empty \in BOOLEAN : Reply(i, empty)) \/ AskFails(i)
             \/ HeartbeatLost(i) \/ PublishReply(i) \/ PublishUnsure(i)
    BY <2>3 DEF Grounding, Reply, AskFails, HeartbeatLost, PublishReply, PublishUnsure, Fault
  <2>4. CASE \/ (\E worthy \in BOOLEAN : PublishRecord(i, worthy)) \/ RecordFails(i)
             \/ FreeContent(i) \/ FreeTrigger(i) \/ Settle(i)
    BY <2>4 DEF PublishRecord, RecordFails, FreeContent, FreeTrigger, Settle, Fault
  <2> QED
    BY <2>1, <2>2, <2>3, <2>4 DEF Instances
<1>3. lonely' \in BOOLEAN
  <2>1. CASE Start(i)
    BY <2>1 DEF Start
  <2>2. CASE ~Start(i)
    <3>1. lonely' = lonely
      BY <2>2 DEF Instances, Greet, GreetFails, Interrupt, KillAsk, Hear, Take, ClaimContent,
                  ClaimTrigger, TableFails, Grounding, Reply, AskFails, HeartbeatLost,
                  PublishReply, PublishUnsure, PublishRecord, RecordFails, FreeContent,
                  FreeTrigger, Settle, askHistory
    <3> QED
      BY <1>0, <3>1
  <2> QED
    BY <2>1, <2>2
<1> QED
  BY <1>0, <1>2, <1>3

LEMMA AskNext_Type == AskTypeOK /\ Placed /\ [AskNext]_askVars => AskTypeOK'
<1> SUFFICES ASSUME AskTypeOK, Placed, [AskNext]_askVars PROVE AskTypeOK'
  OBVIOUS
<1>0. CASE UNCHANGED askVars
  BY <1>0 DEF askVars, AskTypeOK
<1>1. ASSUME NEW what \in Question \cup {Other}, Say(what) PROVE AskTypeOK'
  <2>1. Len(text) + 1 \in Id
    BY LenProperties DEF AskTypeOK, Id
  <2> QED
    BY <1>1, <2>1, AppendProperties DEF Say, AskTypeOK, askHistory
<1>2. CASE NextWindow
  BY <1>2 DEF NextWindow, AskTypeOK, askHistory
<1>3. ASSUME NEW i \in Instance, Instances(i) PROVE AskTypeOK'
  <2>1. askQueue' \in Seq(Id)
    BY <1>3, QueueStep, ReturnedType, HeadTailProperties DEF AskTypeOK
  <2>2. answers' \in Seq(Id \X ContentKey) /\ unsure' \in Nat
    <3>1. CASE Publishes(i)
      <4>1. llm[i].msg \in Id /\ llm[i].key \in ContentKey
        <5>1. llm[i].msg \in DOMAIN text /\ llm[i].key \in ContentKey
          BY <3>1 DEF Publishes, Placed, InPlace, Busy, Keyed
        <5> QED
          BY <5>1, LenProperties DEF Id, AskTypeOK
      <4> QED
        BY <3>1, <4>1, AppendProperties DEF Publishes, AskTypeOK
    <3> QED
      BY <1>3, <3>1, AnswersStep DEF AskTypeOK
  <2> QED
    BY <1>3, <2>1, <2>2, OneActs, AskNext_Llm, HistoryStep DEF AskTypeOK
<1> QED
  BY <1>0, <1>1, <1>2, <1>3 DEF AskNext

\* Publishing answers the message and nothing else.
LEMMA AnsweredGrows ==
    ASSUME AskTypeOK, NEW i \in Instance, Instances(i)
    PROVE  /\ Publishes(i) => Answered' = Answered \cup {llm[i].msg}
           /\ ~Publishes(i) => Answered' = Answered
<1>1. CASE Publishes(i)
  <2>1. answers' = Append(answers, << llm[i].msg, llm[i].key >>)
    BY <1>1 DEF Publishes
  <2>2. answers \in Seq(Id \X ContentKey)
    BY DEF AskTypeOK
  <2> DEFINE reply == << llm[i].msg, llm[i].key >>
  <2>3. /\ Len(answers) \in Nat
        /\ DOMAIN answers = 1 .. Len(answers) /\ DOMAIN answers' = 1 .. Len(answers) + 1
        /\ \A k \in 1 .. Len(answers) : answers'[k] = answers[k]
        /\ answers'[Len(answers) + 1] = reply
    <3> HIDE DEF reply
    <3>1. answers' = Append(answers, reply)
      BY <2>1 DEF reply
    <3>2. answers \in Seq((Id \X ContentKey) \cup {reply})
      BY <2>2
    <3> QED
      BY <3>1, <3>2, AppendProperties, LenProperties
  <2>4. Answered' = Answered \cup {llm[i].msg}
    BY <2>3 DEF Answered
  <2> QED
    BY <1>1, <2>4
<1>2. CASE ~Publishes(i)
  BY <1>2, AnswersStep DEF Answered
<1> QED
  BY <1>1, <1>2

\* A process learns of no message but the one it has in hand.
LEMMA KnownStep ==
    ASSUME AskTypeOK, Placed, NEW i \in Instance, Instances(i), NEW id \in Id, Known(id)'
    PROVE  id \in DOMAIN text
<1>1. llm[i].msg \in Id => llm[i].msg \in DOMAIN text
  BY AskAssumption DEF Placed, InPlace, Id
<1>2. CASE id \in Waiting'
  <2>1. CASE askQueue' = askQueue
    BY <1>2, <2>1 DEF Waiting, Placed, Known
  <2>2. CASE askQueue' = Returned(i)
    BY <1>1, <1>2, <2>2, ReturnedType DEF Waiting, Placed, Known
  <2>3. CASE askQueue # << >> /\ askQueue' = Tail(askQueue)
    <3>1. askQueue \in Seq(Id)
      BY DEF AskTypeOK
    <3>2. \A k \in DOMAIN askQueue' : k + 1 \in DOMAIN askQueue /\ askQueue'[k] = askQueue[k + 1]
      BY <2>3, <3>1, HeadTailProperties, LenProperties, EmptySeq
    <3> QED
      BY <1>2, <3>2 DEF Waiting, Placed, Known
  <2> QED
    BY <2>1, <2>2, <2>3, QueueStep
<1>3. CASE id \in Answered'
  <2>1. Publishes(i) => llm[i].msg \in DOMAIN text
    BY DEF Publishes, Placed, InPlace, Busy
  <2> QED
    BY <1>3, <2>1, AnsweredGrows DEF Placed, Known
<1>4. CASE id \in blank'
  <2>1. blank' = blank \/ (blank' = blank \cup {llm[i].msg} /\ llm[i].pc \in Busy)
    BY StepMoves DEF Moves, Begins, Ends, Hear, Takes, Rests, Repeats, Enters, Knows, Owns, Walks,
                     Stumbles, Publishes, Frees, Releases, Busy, askHistory
  <2> QED
    BY <1>4, <2>1 DEF Placed, InPlace, Known
<1>5. CASE Trigger(id) \in claims'
  <2>1. Enters(i) => Content(llm[i].msg) \in ContentKey
    BY DEF Enters, Placed, InPlace, Busy, Content, ContentKey, AskTypeOK
  <2>2. Trigger(id) \in claims \/ (id = llm[i].msg /\ llm[i].pc \in Busy)
    <3>1. CASE Enters(i)
      BY <1>5, <2>1, <3>1, ClaimsDistinct DEF Enters
    <3>2. CASE Owns(i)
      BY <1>5, <3>2, ClaimsDistinct DEF Owns, Busy
    <3>3. CASE Begins(i)
      BY <1>5, <3>3, ClaimsDistinct DEF Begins
    <3>4. CASE ~Enters(i) /\ ~Owns(i) /\ ~Begins(i)
      <4>1. claims' \subseteq claims
        BY <3>4, StepMoves DEF Moves, Ends, Hear, Takes, Rests, Repeats, Knows, Walks, Stumbles,
                               Publishes, Frees, Releases
      <4> QED
        BY <1>5, <4>1
    <3> QED
      BY <3>1, <3>2, <3>3, <3>4
  <2> QED
    BY <2>2 DEF Placed, InPlace, Known
<1> QED
  BY <1>2, <1>3, <1>4, <1>5 DEF Known

\* The process that acts has what its place demands.
LEMMA InPlaceStep ==
    ASSUME AskTypeOK, Placed, NEW i \in Instance, Instances(i)
    PROVE  InPlace(i)'
<1>0. InPlace(i) /\ text' = text /\ Answered \subseteq Answered'
  BY OneActs, AnsweredGrows DEF Placed
<1>1. CASE Begins(i) \/ Rests(i)
  BY <1>1 DEF Begins, Rests, InPlace, Busy, Keyed
<1>7. CASE Ends(i)
  <2>1. llm'[i].pc = "down" /\ llm'[i].msg = NoMessage /\ ~llm'[i].hello
    BY <1>7 DEF Ends, Down
  <2> QED
    BY <2>1 DEF InPlace, Busy, Keyed
<1>2. CASE Hear(i)
  BY <1>0, <1>2 DEF Hear, InPlace
<1>3. CASE Takes(i)
  <2>1. Head(askQueue) = askQueue[1] /\ 1 \in DOMAIN askQueue /\ Head(askQueue) \in Id
    BY <1>3, HeadTailProperties, LenProperties, EmptySeq DEF AskTypeOK, Takes
  <2>2. Head(askQueue) \in DOMAIN text
    BY <2>1 DEF Placed, Known, Waiting
  <2> QED
    BY <1>0, <1>3, <2>2 DEF Takes, InPlace, Busy, Keyed
<1>4. CASE Enters(i)
  <2>1. text[llm[i].msg] \in Question
    BY <1>0, <1>4 DEF Enters, InPlace, Busy
  <2>2. Content(llm[i].msg) \in ContentKey /\ Content(llm[i].msg)[3] = text[llm[i].msg]
    BY <2>1 DEF Content, ContentKey, AskTypeOK
  <2> QED
    BY <1>0, <1>4, <2>2 DEF Enters, InPlace, Busy, Keyed
<1>5. CASE Repeats(i) \/ Knows(i) \/ Owns(i) \/ Walks(i) \/ Stumbles(i) \/ Frees(i) \/ Releases(i)
  BY <1>0, <1>5 DEF Repeats, Knows, Owns, Walks, Stumbles, Frees, Releases, Goes, Same, InPlace,
                    Busy, Keyed
<1>6. CASE Publishes(i)
  <2>1. llm[i].msg \in Answered'
    BY <1>6, AnsweredGrows
  <2> QED
    BY <1>0, <1>6, <2>1 DEF Publishes, Same, InPlace, Busy, Keyed
<1> QED
  BY <1>1, <1>2, <1>3, <1>4, <1>5, <1>6, <1>7, StepMoves DEF Moves

LEMMA AskNext_Placed == AskTypeOK /\ Placed /\ [AskNext]_askVars => Placed'
<1> SUFFICES ASSUME AskTypeOK, Placed, [AskNext]_askVars PROVE Placed'
  OBVIOUS
<1>0. CASE UNCHANGED askVars \/ NextWindow
  <2>1. UNCHANGED << text, askQueue, claims, llm, answers, blank >>
    BY <1>0 DEF askVars, NextWindow, askHistory
  <2> QED
    BY <2>1 DEF Placed, InPlace, Known, Waiting, Answered
<1>1. ASSUME NEW what \in Question \cup {Other}, Say(what) PROVE Placed'
  <2>1. /\ text' = Append(text, what) /\ askQueue' = Append(askQueue, Len(text) + 1)
        /\ UNCHANGED << claims, llm, answers, blank >>
    BY <1>1 DEF Say, askHistory
  <2>2. /\ Len(text) \in Nat /\ DOMAIN text = 1 .. Len(text)
        /\ DOMAIN text' = 1 .. Len(text) + 1
        /\ \A id \in DOMAIN text : text'[id] = text[id]
    BY <2>1, AppendProperties, LenProperties DEF AskTypeOK
  <2>3. Waiting' \subseteq Waiting \cup {Len(text) + 1}
    BY <2>1, <2>2, AppendProperties, LenProperties DEF AskTypeOK, Waiting, Id
  <2>4. \A id \in Id : Known(id)' => id \in DOMAIN text'
    BY <2>1, <2>2, <2>3 DEF Placed, Known, Answered
  <2>5. \A i \in Instance : InPlace(i)'
    <3> TAKE i \in Instance
    <3>1. InPlace(i) /\ llm'[i] = llm[i] /\ Answered' = Answered
      BY <2>1 DEF Placed, Answered
    <3>2. \A id \in DOMAIN text : id \in DOMAIN text' /\ text'[id] = text[id]
      BY <2>2
    <3> QED
      BY <3>1, <3>2 DEF InPlace, Busy, Keyed
  <2> QED
    BY <2>4, <2>5 DEF Placed
<1>2. ASSUME NEW i \in Instance, Instances(i) PROVE Placed'
  <2>1. /\ text' = text /\ \A j \in Instance \ {i} : llm'[j] = llm[j]
        /\ Answered \subseteq Answered'
    BY <1>2, OneActs, AnsweredGrows
  <2>2. \A j \in Instance \ {i} : InPlace(j)'
    BY <2>1 DEF Placed, InPlace
  <2> QED
    BY <1>2, <2>1, <2>2, KnownStep, InPlaceStep DEF Placed
<1> QED
  BY <1>0, <1>1, <1>2 DEF AskNext

-----------------------------------------------------------------------------
(* LlmSubscriber: whose claims they are *)

LEMMA AskNext_MessageHeld ==
    ASSUME AskTypeOK, Placed, MessageHeld, NEW i \in Instance, Instances(i)
    PROVE  MessageHeld'
<1>0. \A j \in Instance \ {i} : llm'[j] = llm[j]
  BY OneActs
<1>1. CASE Owns(i)
  <2>1. /\ llm'[i].pc = "ask" /\ llm'[i].msg = llm[i].msg /\ Trigger(llm[i].msg) \notin claims
        /\ claims' = claims \cup {Trigger(llm[i].msg)}
    BY <1>1 DEF Owns, Goes, Same
  <2> QED
    BY <1>0, <2>1, ZenonT(30) DEF MessageHeld, Owning
<1>2. CASE Releases(i)
  <2>1. /\ llm'[i].pc = "settle" /\ llm[i].pc = "freeTrigger"
        /\ claims' = claims \ {Trigger(llm[i].msg)}
    BY <1>2 DEF Releases, Goes
  <2>2. \A j \in Instance \ {i} : llm[j].pc \in Owning => llm[j].msg # llm[i].msg
    BY <2>1 DEF MessageHeld, Owning
  <2>3. \A j \in Instance \ {i} : llm[j].pc \in Owning => Trigger(llm[j].msg) \in claims'
    BY <2>1, <2>2, ClaimsDistinct DEF MessageHeld
  <2>4. llm'[i].pc \notin Owning
    BY <2>1 DEF Owning
  <2> QED
    BY <1>0, <2>3, <2>4 DEF MessageHeld
<1>3. CASE ~Owns(i) /\ ~Releases(i)
  <2>1. llm'[i].pc \in Owning => llm[i].pc \in Owning /\ llm'[i].msg = llm[i].msg
    <3>1. CASE Begins(i) \/ Takes(i) \/ Rests(i) \/ Enters(i)
      BY <3>1 DEF Begins, Takes, Rests, Enters, Owning
    <3>2. CASE Ends(i)
      <4>1. llm'[i].pc = "down"
        BY <3>2 DEF Ends, Down
      <4> QED
        BY <4>1 DEF Owning
    <3>5. CASE Hear(i)
      BY <3>5 DEF Hear
    <3>3. CASE Repeats(i) \/ Knows(i) \/ Frees(i)
      BY <3>3 DEF Repeats, Knows, Frees, Goes, Same, Owning
    <3>4. CASE Walks(i) \/ Stumbles(i) \/ Publishes(i)
      BY <3>4 DEF Walks, Stumbles, Publishes, Same, Owning
    <3> QED
      BY <1>3, <3>1, <3>2, <3>3, <3>4, <3>5, StepMoves DEF Moves
  <2>2. \A id : Trigger(id) \in claims => Trigger(id) \in claims'
    <3>1. Knows(i) \/ Frees(i) => llm[i].key \in ContentKey
      BY DEF Knows, Frees, Placed, InPlace, Keyed
    <3> QED
      BY <1>3, <3>1, StepMoves, ClaimsDistinct
         DEF Moves, Begins, Ends, Hear, Takes, Rests, Repeats, Enters, Knows, Walks, Stumbles,
             Publishes, Frees
  <2> QED
    BY <1>0, <2>1, <2>2 DEF MessageHeld
<1> QED
  BY <1>1, <1>2, <1>3

LEMMA AskNext_ContentHeld ==
    ASSUME AskTypeOK, Placed, ContentHeld, NEW i \in Instance, Instances(i)
    PROVE  ContentHeld'
<1>0. \A j \in Instance \ {i} : llm'[j] = llm[j]
  BY OneActs
<1>1. CASE Enters(i)
  BY <1>0, <1>1 DEF Enters, ContentHeld, Keyed
<1>2. CASE Knows(i) \/ Frees(i)
  <2>1. /\ llm'[i].pc \notin Keyed /\ llm[i].pc \in Keyed /\ claims' = claims \ {llm[i].key}
    BY <1>2 DEF Knows, Frees, Goes, Keyed
  <2> QED
    BY <1>0, <2>1 DEF ContentHeld
<1>3. CASE ~Enters(i) /\ ~Knows(i) /\ ~Frees(i)
  <2>1. llm'[i].pc \in Keyed => llm[i].pc \in Keyed /\ llm'[i].key = llm[i].key
    <3>1. CASE Begins(i) \/ Takes(i) \/ Rests(i)
      BY <3>1 DEF Begins, Takes, Rests, Keyed
    <3>2. CASE Ends(i) \/ Hear(i)
      BY <3>2 DEF Ends, Hear, Down, Keyed
    <3>3. CASE Repeats(i) \/ Owns(i) \/ Releases(i)
      BY <3>3 DEF Repeats, Owns, Releases, Goes, Same, Keyed
    <3>4. CASE Walks(i) \/ Stumbles(i) \/ Publishes(i)
      BY <3>4 DEF Walks, Stumbles, Publishes, Same, Keyed
    <3> QED
      BY <1>3, <3>1, <3>2, <3>3, <3>4, StepMoves DEF Moves
  <2>2. \A key \in ContentKey : key \in claims => key \in claims'
    BY <1>3, StepMoves, ClaimsDistinct
       DEF Moves, Begins, Ends, Hear, Takes, Rests, Repeats, Owns, Walks, Stumbles, Publishes,
           Releases
  <2>3. \A j \in Instance : llm[j].pc \in Keyed => llm[j].key \in ContentKey
    BY DEF Placed, InPlace
  <2> QED
    BY <1>0, <2>1, <2>2, <2>3 DEF ContentHeld
<1> QED
  BY <1>1, <1>2, <1>3

LEMMA AskNext_StartupHeld ==
    ASSUME AskTypeOK, Placed, StartupHeld, NEW i \in Instance, Instances(i)
    PROVE  StartupHeld'
<1>0. \A j \in Instance \ {i} : llm'[j] = llm[j]
  BY OneActs
<1> USE DEF DuplicateExplained
<1>1. CASE Begins(i)
  <2>1. \A j \in Instance : llm[j].pc = "down" => ~llm[j].hello
    BY DEF Placed, InPlace
  <2>2. CASE Startup \in claims
    <3>1. ~llm'[i].hello /\ ~llm[i].hello /\ claims' = claims /\ orphans' = orphans
      BY <1>1, <2>1, <2>2 DEF Begins
    <3>2. lonely' => Startup \in orphans
      <4>1. CASE lonely
        BY <4>1 DEF StartupHeld
      <4>2. CASE \A j \in Instance \ {i} : llm[j].pc = "down"
        BY <1>0, <2>1, <2>2, <3>1, <4>2 DEF StartupHeld
      <4> QED
        BY <1>1, <4>1, <4>2 DEF Begins
    <3> QED
      BY <1>0, <3>1, <3>2 DEF StartupHeld
  <2>3. CASE Startup \notin claims
    BY <1>0, <1>1, <2>3 DEF Begins, StartupHeld
  <2> QED
    BY <2>2, <2>3
<1>2. CASE Ends(i)
  <2>1. ~llm'[i].hello /\ lonely' = lonely /\ orphans \subseteq orphans'
    BY <1>2 DEF Ends, Down
  <2>2. CASE orphans' = orphans \cup Owned(i) /\ claims' = claims
    <3>1. Startup \in claims /\ llm[i].hello => Startup \in orphans'
      BY <2>2 DEF Owned
    <3> QED
      BY <1>0, <2>1, <2>2, <3>1 DEF StartupHeld
  <2>3. CASE claims' = IF llm[i].hello THEN claims \ {Startup} ELSE claims
    BY <1>0, <2>1, <2>3 DEF StartupHeld
  <2> QED
    BY <1>2, <2>2, <2>3 DEF Ends
<1>3. CASE ~Begins(i) /\ ~Ends(i)
  <2>1. llm'[i].hello = llm[i].hello
    BY <1>3, StepMoves DEF Moves, Hear, Takes, Rests, Repeats, Enters, Knows, Owns, Walks,
                           Stumbles, Publishes, Frees, Releases, Goes, Same
  <2>2. orphans' = orphans /\ lonely' = lonely
    BY <1>3, StepMoves DEF Moves, Hear, Takes, Rests, Repeats, Enters, Knows, Owns, Walks,
                           Stumbles, Publishes, Frees, Releases, askHistory
  <2>3. Startup \in claims' <=> Startup \in claims
    <3>1. Knows(i) \/ Frees(i) => llm[i].key \in ContentKey
      BY DEF Knows, Frees, Placed, InPlace, Keyed
    <3>2. Enters(i) => Content(llm[i].msg) \in ContentKey
      BY DEF Enters, Placed, InPlace, Busy, Content, ContentKey, AskTypeOK
    <3>3. CASE Enters(i) \/ Knows(i) \/ Frees(i) \/ Owns(i) \/ Releases(i)
      BY <3>1, <3>2, <3>3, ClaimsDistinct DEF Enters, Knows, Frees, Owns, Releases
    <3>4. CASE \/ Hear(i) \/ Takes(i) \/ Rests(i) \/ Repeats(i) \/ Walks(i) \/ Stumbles(i)
               \/ Publishes(i)
      BY <3>4 DEF Hear, Takes, Rests, Repeats, Walks, Stumbles, Publishes
    <3> QED
      BY <1>3, <3>1, <3>2, <3>3, <3>4, StepMoves DEF Moves
  <2> QED
    BY <1>0, <2>1, <2>2, <2>3 DEF StartupHeld
<1> QED
  BY <1>1, <1>2, <1>3

LEMMA AskNext_Held == AskTypeOK /\ Placed /\ AskHeld /\ [AskNext]_askVars => AskHeld'
<1> SUFFICES ASSUME AskTypeOK, Placed, AskHeld, [AskNext]_askVars PROVE AskHeld'
  OBVIOUS
<1>1. CASE UNCHANGED askVars \/ NextWindow \/ \E what \in Question \cup {Other} : Say(what)
  <2>1. UNCHANGED << claims, llm, orphans, lonely >>
    BY <1>1 DEF askVars, NextWindow, Say, askHistory
  <2> QED
    BY <2>1 DEF AskHeld, MessageHeld, ContentHeld, StartupHeld, DuplicateExplained
<1>2. ASSUME NEW i \in Instance, Instances(i) PROVE AskHeld'
  BY <1>2, AskNext_MessageHeld, AskNext_ContentHeld, AskNext_StartupHeld DEF AskHeld
<1> QED
  BY <1>1, <1>2 DEF AskNext

\* The answers are kept in order: one more at the end, or none.
LEMMA AnswersKept ==
    ASSUME AskTypeOK, NEW i \in Instance, Instances(i)
    PROVE  /\ \A k \in DOMAIN answers : k \in DOMAIN answers' /\ answers'[k] = answers[k]
           /\ Publishes(i) => \E k \in DOMAIN answers' :
                                 answers'[k] = << llm[i].msg, llm[i].key >>
<1>1. CASE Publishes(i)
  <2>1. answers' = Append(answers, << llm[i].msg, llm[i].key >>)
    BY <1>1 DEF Publishes
  <2>2. /\ Len(answers) \in Nat /\ DOMAIN answers = 1 .. Len(answers)
        /\ DOMAIN answers' = 1 .. Len(answers) + 1
        /\ \A k \in 1 .. Len(answers) : answers'[k] = answers[k]
        /\ answers'[Len(answers) + 1] = << llm[i].msg, llm[i].key >>
    BY <2>1, AppendProperties, LenProperties DEF AskTypeOK
  <2> QED
    BY <2>2
<1>2. CASE ~Publishes(i)
  BY <1>2, AnswersStep
<1> QED
  BY <1>1, <1>2

LEMMA RepliedStays ==
    ASSUME AskTypeOK, NEW i \in Instance, Instances(i), NEW c, Replied(c)
    PROVE  Replied(c)'
BY AnswersKept DEF Replied

\* What a step claims is the actor's.
LEMMA ClaimMade ==
    ASSUME AskTypeOK, Placed, NEW i \in Instance, Instances(i), NEW c \in claims', c \notin claims
    PROVE  c \in Owned(i)'
<1>1. CASE Begins(i)
  BY <1>1 DEF Begins, Owned
<1>2. CASE Enters(i)
  BY <1>2 DEF Enters, Owned
<1>3. CASE Owns(i)
  <2>1. /\ llm'[i].pc = "ask" /\ llm'[i].msg = llm[i].msg /\ c = Trigger(llm[i].msg)
    BY <1>3 DEF Owns, Goes, Same
  <2>2. llm[i].msg \in DOMAIN text
    BY <1>3 DEF Owns, Placed, InPlace, Busy
  <2>3. llm[i].msg # NoMessage
    BY <2>2, AskAssumption, LenProperties DEF AskTypeOK
  <2> QED
    BY <2>1, <2>3 DEF Owned
<1>4. CASE ~(Begins(i) \/ Enters(i) \/ Owns(i))
  BY <1>4, StepMoves DEF Moves, Ends, Hear, Takes, Rests, Repeats, Knows, Walks, Stumbles,
                         Publishes, Frees, Releases
<1> QED
  BY <1>1, <1>2, <1>3, <1>4

\* Past the reply its pair is among the answers.
LEMMA RecordOut ==
    ASSUME AskTypeOK, Accounted, NEW i \in Instance, Instances(i),
           NEW j \in Instance, llm'[j].pc = "record"
    PROVE  \E k \in DOMAIN answers' : answers'[k] = << llm'[j].msg, llm'[j].key >>
<1>1. CASE j # i
  <2>1. llm'[j] = llm[j]
    BY <1>1, OneActs
  <2> QED
    BY <2>1, AnswersKept DEF Accounted
<1>2. CASE j = i /\ Publishes(i)
  <2>1. llm'[i].msg = llm[i].msg /\ llm'[i].key = llm[i].key
    BY <1>2 DEF Publishes, Same
  <2>2. PICK k \in DOMAIN answers' : answers'[k] = << llm[i].msg, llm[i].key >>
    BY <1>2, AnswersKept
  <2>3. answers'[k] = << llm'[j].msg, llm'[j].key >>
    BY <1>2, <2>1, <2>2
  <2> QED
    BY <2>3
<1>3. CASE j = i /\ ~Publishes(i)
  <2>1. Hear(i)
    BY <1>3, StepMoves DEF Moves, Begins, Ends, Down, Takes, Rests, Repeats, Enters, Knows, Owns,
                           Walks, Stumbles, Frees, Releases, Goes
  <2>2. llm'[j] = llm[j]
    BY <1>3, <2>1 DEF Hear
  <2> QED
    BY <2>2, AnswersKept DEF Accounted
<1> QED
  BY <1>1, <1>2, <1>3

\* What the actor held and did not give back it still holds, has answered under, or leaves.
LEMMA ClaimPassedOn ==
    ASSUME AskTypeOK, Placed, Accounted, NEW i \in Instance, Instances(i),
           NEW c \in claims', c \in Owned(i)
    PROVE  c \in orphans' \/ c \in Owned(i)' \/ Replied(c)'
<1>1. CASE Ends(i)
  <2>1. CASE orphans' = orphans \cup Owned(i)
    BY <2>1
  <2>2. CASE /\ orphans' = orphans \cup (Owned(i) \ {Startup})
             /\ claims' = IF llm[i].hello THEN claims \ {Startup} ELSE claims
    <3>1. c # Startup
      <4>1. llm[i].pc \in Keyed => llm[i].key \in ContentKey
        BY DEF Placed, InPlace
      <4>2. c = Startup => llm[i].hello
        BY <4>1, ClaimsDistinct DEF Owned, Keyed
      <4> QED
        BY <2>2, <4>2
    <3> QED
      BY <2>2, <3>1
  <2>3. CASE /\ llm[i].pc \in {"idle", "settle"}
             /\ claims' = IF llm[i].hello THEN claims \ {Startup} ELSE claims
    BY <2>3 DEF Owned
  <2> QED
    BY <1>1, <2>1, <2>2, <2>3 DEF Ends
<1>2. CASE Knows(i) \/ Frees(i) \/ Releases(i)
  BY <1>2 DEF Knows, Frees, Releases, Goes, Same, Owned
<1>3. CASE (Walks(i) \/ Stumbles(i)) /\ llm[i].pc = "record"
  <2>1. PICK k \in DOMAIN answers : answers[k] = << llm[i].msg, llm[i].key >>
    BY <1>3 DEF Accounted
  <2>2. (c = Startup /\ llm[i].hello) \/ Replied(c)
    BY <1>3, <2>1 DEF Owned, Replied
  <2>3. llm'[i].hello = llm[i].hello
    BY <1>3 DEF Walks, Stumbles, Same
  <2> QED
    BY <2>2, <2>3, RepliedStays DEF Owned
<1>4. CASE (Walks(i) \/ Stumbles(i)) /\ llm[i].pc # "record"
  BY <1>4 DEF Walks, Stumbles, Same, Owned
<1>5. CASE Publishes(i)
  BY <1>5 DEF Publishes, Same, Owned
<1>8. CASE Enters(i)
  <2>1. c = Startup /\ llm[i].hello
    BY <1>8 DEF Enters, Owned
  <2>2. llm'[i].hello = llm[i].hello
    BY <1>8 DEF Enters
  <2> QED
    BY <2>1, <2>2 DEF Owned
<1>9. CASE Owns(i) \/ Repeats(i)
  BY <1>9 DEF Owns, Repeats, Goes, Same, Owned
<1>6. CASE Begins(i)
  <2>1. llm[i].pc = "down" /\ ~llm[i].hello
    BY <1>6 DEF Begins, Placed, InPlace
  <2> QED
    BY <2>1 DEF Owned
<1>10. CASE Takes(i) \/ Rests(i)
  <2>1. c = Startup /\ llm[i].hello
    BY <1>10 DEF Takes, Rests, Owned
  <2>2. llm'[i].hello = llm[i].hello
    BY <1>10 DEF Takes, Rests
  <2> QED
    BY <2>1, <2>2 DEF Owned
<1>7. CASE Hear(i)
  BY <1>7 DEF Hear, Owned
<1> QED
  BY <1>1, <1>2, <1>3, <1>4, <1>5, <1>6, <1>7, <1>8, <1>9, <1>10, StepMoves DEF Moves

\* A claim is where Accounted says before and after a step: who ends leaves what it held.
LEMMA AskNext_Accounted ==
    AskTypeOK /\ Placed /\ Accounted /\ [AskNext]_askVars => Accounted'
<1> SUFFICES ASSUME AskTypeOK, Placed, Accounted, [AskNext]_askVars PROVE Accounted'
  OBVIOUS
<1>1. CASE UNCHANGED askVars \/ NextWindow \/ \E what \in Question \cup {Other} : Say(what)
  <2>1. UNCHANGED << claims, llm, orphans, answers >>
    BY <1>1 DEF askVars, NextWindow, Say, askHistory
  <2> QED
    BY <2>1 DEF Accounted, Replied, Owned
<1>2. ASSUME NEW i \in Instance, Instances(i) PROVE Accounted'
  <2>0. \A j \in Instance \ {i} : llm'[j] = llm[j]
    BY <1>2, OneActs
  <2>1. \A c : Replied(c) => Replied(c)'
    BY <1>2, RepliedStays
  <2>2. orphans \subseteq orphans'
    BY <1>2, StepMoves
       DEF Moves, Begins, Ends, Hear, Takes, Rests, Repeats, Enters, Knows, Owns, Walks, Stumbles,
           Publishes, Frees, Releases, askHistory
  <2>3. ASSUME NEW c \in claims', c \notin claims PROVE c \in Owned(i)'
    BY <1>2, <2>3, ClaimMade
  <2>4. ASSUME NEW c \in claims', c \in Owned(i)
        PROVE  c \in orphans' \/ c \in Owned(i)' \/ Replied(c)'
    BY <1>2, <2>4, ClaimPassedOn
  <2>5. ASSUME NEW j \in Instance \ {i}, NEW c \in claims', c \in Owned(j) PROVE c \in Owned(j)'
    BY <2>0, <2>5 DEF Owned
  <2>6. \A c \in claims' : c \in orphans' \/ (\E j \in Instance : c \in Owned(j)') \/ Replied(c)'
    BY <2>1, <2>2, <2>3, <2>4, <2>5 DEF Accounted
  <2>7. \A j \in Instance : llm'[j].pc = "record" =>
          \E k \in DOMAIN answers' : answers'[k] = << llm'[j].msg, llm'[j].key >>
    BY <1>2, RecordOut
  <2> QED
    BY <2>6, <2>7 DEF Accounted
<1> QED
  BY <1>1, <1>2 DEF AskNext

-----------------------------------------------------------------------------
(* LlmSubscriber: how many replies *)

\* The replies to a message, or under a key, are finitely many.
LEMMA CountType ==
    ASSUME AskTypeOK
    PROVE  \A x : /\ IsFiniteSet(To(x)) /\ Cardinality(To(x)) \in Nat
                  /\ IsFiniteSet(For(x)) /\ Cardinality(For(x)) \in Nat
<1> TAKE x
<1>1. DOMAIN answers = 1 .. Len(answers) /\ Len(answers) \in Nat
  BY LenProperties DEF AskTypeOK
<1>2. To(x) \subseteq 1 .. Len(answers) /\ For(x) \subseteq 1 .. Len(answers)
  BY <1>1 DEF To, For
<1>3. IsFiniteSet(1 .. Len(answers))
  BY <1>1, FS_Interval
<1> QED
  BY <1>2, <1>3, FS_Subset, FS_CardinalityType

\* A publishing adds one reply to its message and one under its key.
LEMMA CountStep ==
    ASSUME AskTypeOK, NEW i \in Instance, Publishes(i)
    PROVE  /\ \A id : Cardinality(To(id)') = Cardinality(To(id))
                                             + IF id = llm[i].msg THEN 1 ELSE 0
           /\ \A key : Cardinality(For(key)') = Cardinality(For(key))
                                                + IF key = llm[i].key THEN 1 ELSE 0
<1> DEFINE new == Len(answers) + 1
           reply == << llm[i].msg, llm[i].key >>
<1>1. /\ Len(answers) \in Nat
      /\ DOMAIN answers = 1 .. Len(answers) /\ DOMAIN answers' = 1 .. new
      /\ \A k \in 1 .. Len(answers) : answers'[k] = answers[k]
      /\ answers'[new] = reply
  <2>1. answers \in Seq((Id \X ContentKey) \cup {reply})
    BY DEF AskTypeOK
  <2>2. answers' = Append(answers, reply)
    BY DEF Publishes
  <2> HIDE DEF reply
  <2> QED
    BY <2>1, <2>2, AppendProperties, LenProperties
<1>2. ASSUME NEW id
      PROVE  Cardinality(To(id)') = Cardinality(To(id)) + IF id = llm[i].msg THEN 1 ELSE 0
  <2>1. CASE id = llm[i].msg
    <3>1. To(id)' = To(id) \cup {new} /\ new \notin To(id)
      BY <1>1, <2>1 DEF To
    <3> QED
      BY <2>1, <3>1, CountType, FS_AddElement
  <2>2. CASE id # llm[i].msg
    <3>1. To(id)' = To(id)
      BY <1>1, <2>2 DEF To
    <3> QED
      BY <2>2, <3>1, CountType
  <2> QED
    BY <2>1, <2>2
<1>3. ASSUME NEW key
      PROVE  Cardinality(For(key)') = Cardinality(For(key)) + IF key = llm[i].key THEN 1 ELSE 0
  <2>1. CASE key = llm[i].key
    <3>1. For(key)' = For(key) \cup {new} /\ new \notin For(key)
      BY <1>1, <2>1 DEF For
    <3> QED
      BY <2>1, <3>1, CountType, FS_AddElement
  <2>2. CASE key # llm[i].key
    <3>1. For(key)' = For(key)
      BY <1>1, <2>2 DEF For
    <3> QED
      BY <2>2, <3>1, CountType
  <2> QED
    BY <2>1, <2>2
<1> QED
  BY <1>2, <1>3

\* What publishing, releasing and beginning a reply mean for the count of a message.
LEMMA AskNext_MessageOnce ==
    ASSUME AskTypeOK, Placed, MessageHeld, MessageOnce, NEW i \in Instance, Instances(i)
    PROVE  MessageOnce'
<1>0. unsure \in Nat /\ \A j \in Instance \ {i} : llm'[j] = llm[j]
  BY OneActs DEF AskTypeOK
<1> SUFFICES ASSUME NEW id \in Id
             PROVE  \/ Cardinality(To(id)') <= unsure'
                    \/ /\ Cardinality(To(id)') <= unsure' + 1
                       /\ Trigger(id) \in claims'
                       /\ \A j \in Instance : llm'[j].pc \in Unreplied => llm'[j].msg # id
  BY DEF MessageOnce
<1>1. Cardinality(To(id)) \in Nat
  BY CountType
<1>2. CASE Publishes(i)
  <2>1. CASE id = llm[i].msg
    <3>1. Cardinality(To(id)') = Cardinality(To(id)) + 1
      BY <1>2, <2>1, CountStep
    <3>2. llm[i].pc = "publish" /\ claims' = claims
      BY <1>2 DEF Publishes
    <3>3. Cardinality(To(id)) <= unsure
      BY <2>1, <3>2 DEF MessageOnce, Unreplied
    <3>4. CASE unsure' = unsure + 1
      BY <1>0, <1>1, <3>1, <3>3, <3>4
    <3>5. CASE llm'[i].pc = "record" /\ unsure' = unsure
      <4>1. \A j \in Instance \ {i} : llm[j].pc \in Unreplied => llm[j].msg # id
        BY <2>1, <3>2 DEF MessageHeld, Owning, Unreplied
      <4>2. \A j \in Instance : llm'[j].pc \in Unreplied => llm'[j].msg # id
        BY <1>0, <3>5, <4>1 DEF Unreplied
      <4>3. Trigger(id) \in claims'
        BY <2>1, <3>2 DEF MessageHeld, Owning
      <4> QED
        BY <1>0, <1>1, <3>1, <3>3, <3>5, <4>2, <4>3
    <3> QED
      BY <1>2, <3>4, <3>5 DEF Publishes
  <2>2. CASE id # llm[i].msg
    <3>1. Cardinality(To(id)') = Cardinality(To(id))
      BY <1>1, <1>2, <2>2, CountStep
    <3>2. llm'[i].msg = llm[i].msg /\ claims' = claims
          /\ (unsure' = unsure \/ unsure' = unsure + 1)
      BY <1>2 DEF Publishes, Same
    <3>3. \A j \in Instance : (llm[j].pc \in Unreplied => llm[j].msg # id)
                                 => (llm'[j].pc \in Unreplied => llm'[j].msg # id)
      BY <1>0, <2>2, <3>2
    <3> QED
      BY <1>0, <1>1, <3>1, <3>2, <3>3 DEF MessageOnce
  <2> QED
    BY <2>1, <2>2
<1>3. CASE ~Publishes(i)
  <2>1. unsure' = unsure /\ Cardinality(To(id)') = Cardinality(To(id))
    BY <1>3, AnswersStep DEF To
  <2>2. CASE Owns(i)
    <3>1. /\ llm'[i].msg = llm[i].msg /\ Trigger(llm[i].msg) \notin claims
          /\ claims' = claims \cup {Trigger(llm[i].msg)}
      BY <2>2 DEF Owns, Goes, Same
    <3>2. CASE id = llm[i].msg
      BY <2>1, <3>1, <3>2 DEF MessageOnce
    <3>3. CASE id # llm[i].msg
      BY <1>0, <2>1, <3>1, <3>3, ClaimsDistinct DEF MessageOnce
    <3> QED
      BY <3>2, <3>3
  <2>3. CASE Releases(i)
    <3>1. /\ llm'[i].msg = llm[i].msg /\ llm[i].pc = "freeTrigger"
          /\ claims' = claims \ {Trigger(llm[i].msg)}
      BY <2>3 DEF Releases, Goes, Same
    <3>2. CASE id = llm[i].msg
      BY <2>1, <3>1, <3>2 DEF MessageOnce, Unreplied
    <3>3. CASE id # llm[i].msg
      BY <1>0, <2>1, <3>1, <3>3, ClaimsDistinct DEF MessageOnce
    <3> QED
      BY <3>2, <3>3
  <2>4. CASE ~Owns(i) /\ ~Releases(i)
    <3>1. llm'[i].pc \in Unreplied => llm[i].pc \in Unreplied /\ llm'[i].msg = llm[i].msg
      <4>1. CASE Begins(i) \/ Takes(i) \/ Rests(i) \/ Enters(i)
        BY <4>1 DEF Begins, Takes, Rests, Enters, Unreplied
      <4>2. CASE Ends(i)
        <5>1. llm'[i].pc = "down"
          BY <4>2 DEF Ends, Down
        <5> QED
          BY <5>1 DEF Unreplied
      <4>3. CASE Hear(i)
        BY <4>3 DEF Hear
      <4>4. CASE Repeats(i) \/ Knows(i) \/ Frees(i)
        BY <4>4 DEF Repeats, Knows, Frees, Goes, Same, Unreplied
      <4>5. CASE Walks(i) \/ Stumbles(i)
        BY <4>5 DEF Walks, Stumbles, Same, Unreplied
      <4> QED
        BY <1>3, <2>4, <4>1, <4>2, <4>3, <4>4, <4>5, StepMoves DEF Moves
    <3>2. Trigger(id) \in claims => Trigger(id) \in claims'
      <4>1. Knows(i) \/ Frees(i) => llm[i].key \in ContentKey
        BY DEF Knows, Frees, Placed, InPlace, Keyed
      <4> QED
        BY <1>3, <2>4, <4>1, StepMoves, ClaimsDistinct
           DEF Moves, Begins, Ends, Hear, Takes, Rests, Repeats, Enters, Knows, Walks, Stumbles,
               Frees
    <3> QED
      BY <1>0, <2>1, <3>1, <3>2 DEF MessageOnce
  <2> QED
    BY <2>2, <2>3, <2>4
<1> QED
  BY <1>2, <1>3

LEMMA AskNext_ContentOnce ==
    ASSUME AskTypeOK, Placed, ContentHeld, ContentOnce, NEW i \in Instance, Instances(i)
    PROVE  ContentOnce'
<1>0. unsure \in Nat /\ \A j \in Instance \ {i} : llm'[j] = llm[j]
  BY OneActs DEF AskTypeOK
<1> DEFINE Late == Keyed \ {"record"}
<1> SUFFICES ASSUME NEW key \in ContentKey
             PROVE  \/ Cardinality(For(key)') <= unsure'
                    \/ /\ Cardinality(For(key)') <= unsure' + 1
                       /\ key \in claims'
                       /\ \A j \in Instance : llm'[j].pc \in Late => llm'[j].key # key
  BY DEF ContentOnce
<1>1. /\ Cardinality(For(key)) \in Nat
      /\ \/ Cardinality(For(key)) <= unsure
         \/ /\ Cardinality(For(key)) <= unsure + 1
            /\ key \in claims
            /\ \A j \in Instance : llm[j].pc \in Late => llm[j].key # key
  BY CountType DEF ContentOnce
<1>2. CASE Publishes(i)
  <2>0. llm[i].pc \in Keyed /\ llm[i].pc \in Late /\ claims' = claims
    BY <1>2 DEF Publishes, Keyed
  <2>1. CASE key = llm[i].key
    <3>1. Cardinality(For(key)') = Cardinality(For(key)) + 1
      BY <1>2, <2>1, CountStep
    <3>2. Cardinality(For(key)) <= unsure
      BY <1>1, <2>0, <2>1
    <3>3. CASE unsure' = unsure + 1
      BY <1>0, <1>1, <3>1, <3>2, <3>3
    <3>4. CASE llm'[i].pc = "record" /\ unsure' = unsure
      <4>1. \A j \in Instance \ {i} : llm[j].pc \in Late => llm[j].key # key
        BY <2>0, <2>1 DEF ContentHeld
      <4>2. \A j \in Instance : llm'[j].pc \in Late => llm'[j].key # key
        BY <1>0, <3>4, <4>1
      <4>3. key \in claims'
        BY <2>0, <2>1 DEF ContentHeld
      <4> QED
        BY <1>0, <1>1, <3>1, <3>2, <3>4, <4>2, <4>3
    <3> QED
      BY <1>2, <3>3, <3>4 DEF Publishes
  <2>2. CASE key # llm[i].key
    <3>1. Cardinality(For(key)') = Cardinality(For(key))
      BY <1>1, <1>2, <2>2, CountStep
    <3>2. llm'[i].key = llm[i].key /\ (unsure' = unsure \/ unsure' = unsure + 1)
      BY <1>2 DEF Publishes, Same
    <3>3. \A j \in Instance : (llm[j].pc \in Late => llm[j].key # key)
                                 => (llm'[j].pc \in Late => llm'[j].key # key)
      BY <1>0, <2>2, <3>2
    <3> QED
      BY <1>0, <1>1, <2>0, <3>1, <3>2, <3>3
  <2> QED
    BY <2>1, <2>2
<1>3. CASE ~Publishes(i)
  <2>1. unsure' = unsure /\ Cardinality(For(key)') = Cardinality(For(key))
    BY <1>3, AnswersStep DEF For
  <2>2. CASE Enters(i)
    <3>1. /\ llm'[i].key = Content(llm[i].msg) /\ Content(llm[i].msg) \notin claims
          /\ claims' = claims \cup {Content(llm[i].msg)}
      BY <2>2 DEF Enters
    <3>2. CASE key = Content(llm[i].msg)
      BY <1>1, <2>1, <3>1, <3>2
    <3>3. CASE key # Content(llm[i].msg)
      BY <1>0, <1>1, <2>1, <3>1, <3>3
    <3> QED
      BY <3>2, <3>3
  <2>3. CASE Knows(i) \/ Frees(i)
    <3>1. /\ llm[i].pc \in Late /\ llm'[i].pc \notin Late
          /\ claims' = claims \ {llm[i].key}
      BY <2>3 DEF Knows, Frees, Goes, Keyed
    <3>2. CASE key = llm[i].key
      BY <1>1, <2>1, <3>1, <3>2
    <3>3. CASE key # llm[i].key
      BY <1>0, <1>1, <2>1, <3>1, <3>3
    <3> QED
      BY <3>2, <3>3
  <2>4. CASE ~Enters(i) /\ ~Knows(i) /\ ~Frees(i)
    <3>1. llm'[i].pc \in Late => llm[i].pc \in Late /\ llm'[i].key = llm[i].key
      <4>1. CASE Begins(i) \/ Takes(i) \/ Rests(i)
        BY <4>1 DEF Begins, Takes, Rests, Keyed
      <4>2. CASE Ends(i)
        <5>1. llm'[i].pc = "down"
          BY <4>2 DEF Ends, Down
        <5> QED
          BY <5>1 DEF Keyed
      <4>3. CASE Hear(i)
        BY <4>3 DEF Hear
      <4>4. CASE Repeats(i) \/ Owns(i) \/ Releases(i)
        BY <4>4 DEF Repeats, Owns, Releases, Goes, Same, Keyed
      <4>5. CASE Walks(i) \/ Stumbles(i)
        BY <4>5 DEF Walks, Stumbles, Same, Keyed
      <4> QED
        BY <1>3, <2>4, <4>1, <4>2, <4>3, <4>4, <4>5, StepMoves DEF Moves
    <3>2. key \in claims => key \in claims'
      BY <1>3, <2>4, StepMoves, ClaimsDistinct
         DEF Moves, Begins, Ends, Hear, Takes, Rests, Repeats, Owns, Walks, Stumbles, Releases
    <3> QED
      BY <1>0, <1>1, <2>1, <3>1, <3>2
  <2> QED
    BY <2>2, <2>3, <2>4
<1> QED
  BY <1>2, <1>3

LEMMA AskNext_Once == AskTypeOK /\ Placed /\ AskHeld /\ AskOnce /\ [AskNext]_askVars => AskOnce'
<1> SUFFICES ASSUME AskTypeOK, Placed, AskHeld, AskOnce, [AskNext]_askVars PROVE AskOnce'
  OBVIOUS
<1>1. CASE UNCHANGED askVars \/ NextWindow \/ \E what \in Question \cup {Other} : Say(what)
  <2>1. UNCHANGED << claims, llm, answers, unsure >>
    BY <1>1 DEF askVars, NextWindow, Say, askHistory
  <2> QED
    BY <2>1 DEF AskOnce, MessageOnce, ContentOnce, To, For
<1>2. ASSUME NEW i \in Instance, Instances(i) PROVE AskOnce'
  BY <1>2, AskNext_MessageOnce, AskNext_ContentOnce DEF AskHeld, AskOnce
<1> QED
  BY <1>1, <1>2 DEF AskNext

-----------------------------------------------------------------------------
(* LlmSubscriber: without a failure *)

\* What is left of a queue stood one place further.
LEMMA TailShape ==
    ASSUME NEW S, NEW q \in Seq(S), q # << >>, NEW k \in DOMAIN Tail(q)
    PROVE  k \in Nat /\ k + 1 \in DOMAIN q /\ Tail(q)[k] = q[k + 1]
<1>1. /\ Tail(q) \in Seq(S) /\ Len(Tail(q)) = Len(q) - 1
      /\ \A n \in 1 .. Len(Tail(q)) : Tail(q)[n] = q[n + 1]
  BY HeadTailProperties
<1>2. Len(q) \in Nat /\ DOMAIN q = 1 .. Len(q) /\ DOMAIN Tail(q) = 1 .. Len(Tail(q))
  BY <1>1, LenProperties
<1>3. k \in 1 .. (Len(q) - 1)
  BY <1>1, <1>2
<1> QED
  BY <1>1, <1>2, <1>3

LEMMA SmoothStep ==
    ASSUME AskTypeOK, Placed, Smooth, NEW i \in Instance, Instances(i), askFaults' = 0
    PROVE  Smooth'
<1>0. /\ llm \in [Instance -> Handler] /\ llm' \in [Instance -> Handler]
      /\ askQueue \in Seq(Id) /\ askQueue' \in Seq(Id)
      /\ NoMessage \notin Id /\ \A j \in Instance \ {i} : llm'[j] = llm[j]
      /\ \A j \in Instance : llm[j].msg \in Id \cup {NoMessage}
  BY OneActs, AskNext_Type, AskAssumption DEF AskTypeOK, AskNext, Id, Handler
<1>1. llm[i].linked \/ llm[i].pc = "down"
  BY DEF Smooth
<1>2. ~Stumbles(i)
  BY <1>1 DEF Stumbles, Smooth
<1>3. Ends(i) => llm[i].pc = "idle" /\ askQueue' = askQueue
  <2>1. llm[i].pc = "idle" => Returned(i) = askQueue
    <3>1. llm[i].pc = "idle" => llm[i].msg = NoMessage
      BY DEF Placed, InPlace, Busy
    <3> QED
      BY <1>0, <3>1, ReturnedType
  <2> QED
    BY <1>1, <2>1 DEF Ends, Smooth
<1>4. /\ ~llm'[i].raised /\ (llm'[i].pc # "down" => llm'[i].linked)
  <2>1. CASE Begins(i) \/ Ends(i)
    BY <2>1 DEF Begins, Ends, Down
  <2>2. CASE ~Begins(i) /\ ~Ends(i)
    <3>1. llm[i].linked /\ ~llm[i].raised
      <4>1. llm[i].pc # "down"
        BY <2>2, <1>2, StepMoves DEF Moves, Hear, At, Takes, Rests, Repeats, Enters, Knows, Owns,
                                     Walks, Publishes, Frees, Releases
      <4> QED
        BY <1>1, <4>1 DEF Smooth
    <3>2. CASE Hear(i)
      BY <3>1, <3>2 DEF Hear
    <3>3. CASE Publishes(i)
      <4>1. Calm(i)
        BY <3>3 DEF Publishes
      <4> QED
        BY <3>1, <4>1 DEF Calm
    <3>4. CASE ~Hear(i) /\ ~Publishes(i)
      BY <1>2, <2>2, <3>1, <3>4, StepMoves
         DEF Moves, Takes, Rests, Repeats, Enters, Knows, Owns, Walks, Frees, Releases, Goes, Calm
    <3> QED
      BY <3>2, <3>3, <3>4
  <2> QED
    BY <2>1, <2>2
<1>5. \/ askQueue' = askQueue
      \/ askQueue # << >> /\ askQueue' = Tail(askQueue)
  BY <1>2, <1>3, StepMoves
     DEF Moves, Begins, Hear, Takes, Rests, Repeats, Enters, Knows, Owns, Walks, Publishes, Frees,
         Releases
<1>6. /\ Len(askQueue) \in Nat /\ Len(askQueue') \in Nat
      /\ DOMAIN askQueue = 1 .. Len(askQueue) /\ DOMAIN askQueue' = 1 .. Len(askQueue')
      /\ \/ askQueue' = askQueue
         \/ /\ Len(askQueue') = Len(askQueue) - 1 /\ Head(askQueue) = askQueue[1]
            /\ \A k \in 1 .. Len(askQueue') : askQueue'[k] = askQueue[k + 1]
  BY <1>0, <1>5, HeadTailProperties, LenProperties, SMTT(30)
<1>7. \A j, k \in DOMAIN askQueue' : askQueue'[j] = askQueue'[k] => j = k
  <2>1. CASE askQueue' = askQueue
    BY <2>1 DEF Smooth
  <2>2. CASE askQueue' # askQueue
    <3> SUFFICES ASSUME NEW j \in DOMAIN askQueue', NEW k \in DOMAIN askQueue',
                        askQueue'[j] = askQueue'[k]
                 PROVE  j = k
      OBVIOUS
    <3>0. askQueue # << >> /\ askQueue' = Tail(askQueue)
      BY <1>5, <2>2
    <3>1. /\ j + 1 \in DOMAIN askQueue /\ k + 1 \in DOMAIN askQueue /\ j \in Nat /\ k \in Nat
          /\ askQueue'[j] = askQueue[j + 1] /\ askQueue'[k] = askQueue[k + 1]
      BY <1>0, <3>0, TailShape
    <3>2. askQueue[j + 1] = askQueue[k + 1]
      BY <3>1
    <3>3. j + 1 = k + 1
      BY <3>1, <3>2 DEF Smooth
    <3> QED
      BY <3>1, <3>3
  <2> QED
    BY <2>1, <2>2
<1>8. Waiting' \subseteq Waiting /\ Waiting \subseteq Id
  <2>1. Waiting \subseteq Id
    <3>1. \A k \in DOMAIN askQueue : askQueue[k] \in Id
      BY <1>0, <1>6, ElementOfSeq
    <3> QED
      BY <3>1 DEF Waiting
  <2>2. Waiting' \subseteq Waiting
    <3>1. CASE askQueue' = askQueue
      BY <3>1 DEF Waiting
    <3>2. CASE askQueue' # askQueue
      <4>1. \A k \in DOMAIN askQueue' : k + 1 \in DOMAIN askQueue /\ askQueue'[k] = askQueue[k + 1]
        BY <1>0, <1>5, <3>2, TailShape
      <4> QED
        BY <4>1 DEF Waiting
    <3> QED
      BY <3>1, <3>2
  <2> QED
    BY <2>1, <2>2
<1>9. Takes(i) => Head(askQueue) \in Waiting \ Waiting'
  <2> SUFFICES ASSUME Takes(i) PROVE Head(askQueue) \in Waiting \ Waiting'
    OBVIOUS
  <2>1. /\ askQueue # << >> /\ askQueue' = Tail(askQueue) /\ Head(askQueue) = askQueue[1]
        /\ Len(askQueue') = Len(askQueue) - 1 /\ Len(askQueue) >= 1
        /\ \A k \in 1 .. Len(askQueue') : askQueue'[k] = askQueue[k + 1]
    BY <1>0, HeadTailProperties, LenProperties, EmptySeq DEF Takes
  <2>2. askQueue[1] \in Waiting
    BY <1>6, <2>1 DEF Waiting
  <2>3. \A k \in DOMAIN askQueue' : askQueue'[k] # askQueue[1]
    BY <1>6, <2>1 DEF Smooth
  <2> QED
    BY <2>1, <2>2, <2>3 DEF Waiting
<1>10. \/ llm'[i].msg = llm[i].msg \/ llm'[i].msg = NoMessage
       \/ Takes(i) /\ llm'[i].msg = Head(askQueue)
  <2>1. Ends(i) => llm'[i].msg = NoMessage
    BY DEF Ends, Down
  <2> QED
    BY <1>2, <2>1, StepMoves
       DEF Moves, Begins, Hear, Takes, Rests, Repeats, Enters, Knows, Owns, Walks, Publishes,
           Frees, Releases, Goes, Same
<1>11. \A j \in Instance : llm'[j].msg \notin Waiting'
  BY <1>0, <1>8, <1>9, <1>10 DEF Smooth
<1>12. \A j, k \in Instance : llm'[j].msg = llm'[k].msg /\ llm'[j].msg # NoMessage => j = k
  BY <1>0, <1>9, <1>10, SMTT(30) DEF Smooth
<1>13. \A id \in Id : Trigger(id) \in claims' => Trigger(id) \in claims \/ (Owns(i) /\ id = llm[i].msg)
  <2>1. Enters(i) => Content(llm[i].msg) \in ContentKey
    BY DEF Enters, Placed, InPlace, Busy, Content, ContentKey, AskTypeOK
  <2>2. CASE Enters(i)
    BY <2>1, <2>2, ClaimsDistinct DEF Enters
  <2>3. CASE Owns(i)
    BY <2>3, ClaimsDistinct DEF Owns
  <2>4. CASE Begins(i)
    BY <2>4, ClaimsDistinct DEF Begins
  <2>5. CASE ~Enters(i) /\ ~Owns(i) /\ ~Begins(i)
    <3>1. claims' \subseteq claims
      BY <2>5, StepMoves DEF Moves, Ends, Hear, Takes, Rests, Repeats, Knows, Walks, Stumbles,
                             Publishes, Frees, Releases
    <3> QED
      BY <3>1
  <2> QED
    BY <2>2, <2>3, <2>4, <2>5
<1>14. \/ Answered' \cup blank' = Answered \cup blank
       \/ /\ Answered' \cup blank' = Answered \cup blank \cup {llm[i].msg}
          /\ llm[i].pc \in Busy /\ llm'[i].pc \notin {"content", "trigger"}
  <2>1. CASE Publishes(i)
    <3>1. Answered' = Answered \cup {llm[i].msg} /\ blank' = blank
      BY <2>1, AnsweredGrows DEF Publishes
    <3> QED
      BY <2>1, <3>1 DEF Publishes, Busy
  <2>2. CASE ~Publishes(i)
    <3>1. Answered' = Answered
      BY <2>2, AnsweredGrows
    <3>2. \/ blank' = blank
          \/ /\ blank' = blank \cup {llm[i].msg} /\ llm[i].pc \in Busy
             /\ llm'[i].pc \notin {"content", "trigger"}
      BY <2>2, StepMoves
         DEF Moves, Begins, Ends, Hear, Takes, Rests, Repeats, Enters, Knows, Owns, Walks,
             Stumbles, Frees, Releases, askHistory, Busy
    <3> QED
      BY <3>1, <3>2
  <2> QED
    BY <2>1, <2>2
<1>15. llm[i].pc \in Busy => llm[i].msg \in Id /\ llm[i].msg \notin Waiting
  <2>1. llm[i].pc \in Busy => llm[i].msg \in DOMAIN text
    BY DEF Placed, InPlace
  <2> QED
    BY <1>0, <2>1, LenProperties DEF Smooth, AskTypeOK, Id
<1>16. \A id \in Waiting' : Trigger(id) \notin claims' /\ id \notin Answered' \cup blank'
  <2>1. Owns(i) => llm[i].pc \in Busy
    BY DEF Owns, Busy
  <2> QED
    BY <1>8, <1>13, <1>14, <1>15, <2>1 DEF Smooth
<1>17. ASSUME NEW j \in Instance, llm'[j].pc \in {"content", "trigger"}
       PROVE  Trigger(llm'[j].msg) \notin claims' /\ llm'[j].msg \notin Answered' \cup blank'
  <2>1. CASE j # i
    <3>1. llm'[j] = llm[j] /\ llm[j].pc \in {"content", "trigger"}
      BY <1>0, <1>17, <2>1
    <3>2. llm[j].msg \in DOMAIN text
      BY <3>1 DEF Placed, InPlace, Busy
    <3>3. llm[j].msg \in Id /\ llm[j].msg # NoMessage
      BY <1>0, <3>2, LenProperties DEF AskTypeOK, Id
    <3>4. llm[j].msg # llm[i].msg
      BY <2>1, <3>3 DEF Smooth
    <3> QED
      BY <1>13, <1>14, <3>1, <3>3, <3>4 DEF Smooth
  <2>2. CASE j = i
    <3>1. ~Owns(i)
      BY <1>17, <2>2 DEF Owns, Goes
    <3>2. CASE Takes(i)
      <4>1. llm'[i].msg = Head(askQueue) /\ claims' = claims /\ answers' = answers
            /\ blank' = blank
        BY <3>2 DEF Takes
      <4>2. Answered' = Answered
        BY <4>1 DEF Answered
      <4> QED
        BY <1>9, <2>2, <3>2, <4>1, <4>2 DEF Smooth
    <3>3. CASE ~Takes(i)
      <4>1. llm[i].pc \in {"content", "trigger"} /\ llm'[i].msg = llm[i].msg
        <5>1. ~Ends(i)
          BY <1>17, <2>2 DEF Ends, Down
        <5> QED
          BY <1>2, <1>17, <2>2, <3>1, <3>3, <5>1, StepMoves
             DEF Moves, Begins, Hear, Rests, Repeats, Enters, Knows, Walks, Publishes,
                 Frees, Releases, Goes, Same
      <4>2. llm[i].msg \in Id
        BY <1>15, <4>1 DEF Busy
      <4> QED
        BY <1>13, <1>14, <1>17, <2>2, <3>1, <4>1, <4>2 DEF Smooth
    <3> QED
      BY <3>2, <3>3
  <2> QED
    BY <2>1, <2>2
<1>18. \A j \in Instance : ~llm'[j].raised /\ (llm'[j].pc # "down" => llm'[j].linked)
  BY <1>0, <1>4 DEF Smooth
<1> QED
  BY <1>7, <1>11, <1>12, <1>16, <1>17, <1>18 DEF Smooth

\* Outside the processes nothing but the end of the queue changes.
LEMMA SmoothOutside ==
    ASSUME AskTypeOK, Placed, Smooth,
           \/ UNCHANGED askVars \/ NextWindow \/ \E what \in Question \cup {Other} : Say(what)
    PROVE  Smooth'
<1>1. CASE UNCHANGED askVars \/ NextWindow
  <2>1. UNCHANGED << askQueue, claims, llm, answers, blank >>
    BY <1>1 DEF askVars, NextWindow, askHistory
  <2> QED
    BY <2>1 DEF Smooth, Waiting, Answered
<1>2. ASSUME NEW what \in Question \cup {Other}, Say(what) PROVE Smooth'
  <2> DEFINE new == Len(text) + 1
  <2>1. UNCHANGED << claims, llm, answers, blank >> /\ askQueue' = Append(askQueue, new)
    BY <1>2 DEF Say, askHistory
  <2>2. Len(text) \in Nat /\ DOMAIN text = 1 .. Len(text) /\ askQueue \in Seq(Id)
    BY LenProperties DEF AskTypeOK
  <2>3. new \in Id /\ new \notin DOMAIN text
    BY <2>2 DEF Id
  <2> HIDE DEF new
  <2>4. ~Known(new) /\ Answered' = Answered
    BY <2>1, <2>3 DEF Placed, Answered
  <2>5. /\ Len(askQueue) \in Nat /\ DOMAIN askQueue = 1 .. Len(askQueue)
        /\ DOMAIN askQueue' = 1 .. (Len(askQueue) + 1)
        /\ askQueue'[Len(askQueue) + 1] = new
        /\ \A k \in 1 .. Len(askQueue) : askQueue'[k] = askQueue[k]
    BY <2>1, <2>2, <2>3, AppendProperties, LenProperties
  <2>6. \A k \in DOMAIN askQueue' : \/ k \in DOMAIN askQueue /\ askQueue'[k] = askQueue[k]
                                    \/ k = Len(askQueue) + 1 /\ askQueue'[k] = new
    BY <2>5
  <2>7. Waiting' = Waiting \cup {new}
    <3>1. Waiting' \subseteq Waiting \cup {new}
      BY <2>6 DEF Waiting
    <3>2. \A k \in DOMAIN askQueue : k \in DOMAIN askQueue' /\ askQueue'[k] = askQueue[k]
      BY <2>5
    <3>3. new \in Waiting'
      BY <2>5 DEF Waiting
    <3> QED
      BY <3>1, <3>2, <3>3 DEF Waiting
  <2>8. \A j, k \in DOMAIN askQueue' : askQueue'[j] = askQueue'[k] => j = k
    <3>1. \A k \in DOMAIN askQueue : askQueue[k] # new
      BY <2>4 DEF Known, Waiting
    <3> QED
      BY <2>6, <3>1 DEF Smooth
  <2>9. \A j \in Instance : llm[j].msg # new
    <3>1. new # NoMessage
      BY <2>3, AskAssumption DEF Id
    <3> QED
      BY <2>3, <3>1 DEF Placed, InPlace
  <2>10. \A j \in Instance : llm'[j].msg \notin Waiting'
    BY <2>1, <2>7, <2>9 DEF Smooth
  <2>11. \A id \in Waiting' : Trigger(id) \notin claims' /\ id \notin Answered' \cup blank'
    BY <2>1, <2>4, <2>7 DEF Smooth, Known
  <2> QED
    BY <2>1, <2>4, <2>8, <2>10, <2>11 DEF Smooth
<1> QED
  BY <1>1, <1>2

\* Without a failure nobody stumbles, no message is found handled before, and a process
\* ends only between two messages.
LEMMA QuietStep ==
    ASSUME AskTypeOK, Placed, Smooth, NEW i \in Instance, Instances(i), askFaults' = 0
    PROVE  /\ ~Stumbles(i) /\ ~Knows(i)
           /\ Ends(i) => llm[i].pc = "idle" /\ askQueue' = askQueue
           /\ Publishes(i) => llm'[i].pc = "record"
<1>1. llm[i].linked \/ llm[i].pc = "down"
  BY DEF Smooth
<1>2. ~Stumbles(i)
  BY <1>1 DEF Stumbles, Smooth
<1>3. ~Knows(i)
  BY DEF Knows, Smooth
<1>4. llm[i].pc = "idle" => Returned(i) = askQueue
  <2>1. llm[i].pc = "idle" => llm[i].msg = NoMessage
    BY DEF Placed, InPlace, Busy
  <2> QED
    BY <2>1, ReturnedType, AskAssumption DEF Id
<1>5. Ends(i) => llm[i].pc = "idle" /\ askQueue' = askQueue
  BY <1>1, <1>4 DEF Ends, Smooth
<1> QED
  BY <1>2, <1>3, <1>5 DEF Publishes

\* What was said, answered, left blank or put aside stays so.
LEMMA PastGrows ==
    ASSUME AskTypeOK, NEW i \in Instance, Instances(i)
    PROVE  /\ Answered \subseteq Answered' /\ blank \subseteq blank' /\ dropped \subseteq dropped'
           /\ text' = text /\ \A j \in Instance \ {i} : llm'[j] = llm[j]
<1>1. text' = text /\ \A j \in Instance \ {i} : llm'[j] = llm[j]
  BY OneActs
<1>2. Answered \subseteq Answered'
  BY AnsweredGrows
<1>3. blank \subseteq blank' /\ dropped \subseteq dropped'
  <2>1. CASE Hear(i) \/ Walks(i) \/ Repeats(i)
    BY <2>1 DEF Hear, Walks, Repeats, askHistory
  <2>2. CASE ~Hear(i) /\ ~Walks(i) /\ ~Repeats(i)
    BY <2>2, StepMoves
       DEF Moves, Begins, Ends, Takes, Rests, Enters, Knows, Owns, Stumbles, Publishes, Frees,
           Releases
  <2> QED
    BY <2>1, <2>2
<1> QED
  BY <1>1, <1>2, <1>3

\* A content stays claimed by its handler, or its question was answered.
LEMMA KeysReasoned ==
    ASSUME AskTypeOK, Placed, Smooth, Reasoned, NEW i \in Instance, Instances(i), askFaults' = 0,
           NEW key \in ContentKey, key \in claims'
    PROVE  \/ \E id \in DOMAIN text' : text'[id] = key[3] /\ id \in Answered'
           \/ \E j \in Instance : llm'[j].pc \in Keyed /\ llm'[j].key = key
<1>0. /\ Answered \subseteq Answered' /\ text' = text
      /\ \A j \in Instance \ {i} : llm'[j] = llm[j]
  BY PastGrows
<1>1. CASE Enters(i)
  <2>1. /\ llm'[i].pc \in Keyed /\ llm'[i].key = Content(llm[i].msg)
        /\ claims' = claims \cup {Content(llm[i].msg)} /\ llm[i].pc \notin Keyed
    BY <1>1 DEF Enters, Keyed
  <2>2. CASE key = Content(llm[i].msg)
    BY <2>1, <2>2
  <2>3. CASE key \in claims
    <3>1. \/ \E id \in DOMAIN text : text[id] = key[3] /\ id \in Answered
          \/ \E j \in Instance : llm[j].pc \in Keyed /\ llm[j].key = key
      BY <2>3 DEF Reasoned
    <3> QED
      BY <1>0, <2>1, <3>1
  <2> QED
    BY <2>1, <2>2, <2>3
<1>2. CASE ~Enters(i)
  <2>1. key \in claims
    <3>1. CASE Begins(i)
      BY <3>1, ClaimsDistinct DEF Begins
    <3>2. CASE Owns(i)
      BY <3>2, ClaimsDistinct DEF Owns
    <3>3. CASE ~Begins(i) /\ ~Owns(i)
      <4>1. claims' \subseteq claims
        BY <1>2, <3>3, StepMoves
           DEF Moves, Ends, Hear, Takes, Rests, Repeats, Knows, Walks, Stumbles, Publishes, Frees,
               Releases
      <4> QED
        BY <4>1
    <3> QED
      BY <3>1, <3>2, <3>3
  <2>2. CASE \E id \in DOMAIN text : text[id] = key[3] /\ id \in Answered
    BY <1>0, <2>2
  <2>3. CASE llm[i].pc \in Keyed /\ llm[i].key = key
    <3>1. llm[i].msg \in DOMAIN text /\ key[3] = text[llm[i].msg]
      BY <2>3 DEF Placed, InPlace, Busy, Keyed
    <3>2. CASE llm[i].pc = "record"
      BY <1>0, <3>1, <3>2 DEF Placed, InPlace
    <3>3. CASE llm[i].pc # "record"
      <4>1. ~Frees(i)
        BY <2>3 DEF Frees
      <4>2. ~(Begins(i) \/ Ends(i) \/ Takes(i) \/ Rests(i) \/ Repeats(i) \/ Releases(i))
        BY <2>3, QuietStep DEF Begins, Takes, Rests, Repeats, Releases, Keyed
      <4>3. CASE Hear(i)
        BY <2>3, <4>3 DEF Hear
      <4>4. CASE Owns(i)
        BY <2>3, <4>4 DEF Owns, Goes, Same, Keyed
      <4>5. CASE Publishes(i)
        BY <2>3, <4>5, QuietStep DEF Publishes, Same, Keyed
      <4>6. CASE Walks(i)
        <5>1. llm'[i].key = key
          BY <2>3, <4>6 DEF Walks, Same
        <5>2. llm'[i].pc \in Keyed
          BY <2>3, <3>3, <4>6 DEF Walks, Keyed
        <5> QED
          BY <5>1, <5>2
      <4> QED
        BY <1>2, <4>1, <4>2, <4>3, <4>4, <4>5, <4>6, QuietStep, StepMoves DEF Moves
    <3> QED
      BY <3>2, <3>3
  <2>4. CASE \E j \in Instance \ {i} : llm[j].pc \in Keyed /\ llm[j].key = key
    BY <1>0, <2>4
  <2> QED
    BY <2>1, <2>2, <2>3, <2>4 DEF Reasoned
<1> QED
  BY <1>1, <1>2

\* A reply is given up only when it was empty.
LEMMA BlanksReasoned ==
    ASSUME AskTypeOK, Placed, Smooth, Reasoned, NEW i \in Instance, Instances(i), askFaults' = 0,
           NEW j \in Instance, llm'[j].pc \in {"free", "freeTrigger"}
    PROVE  llm'[j].msg \in blank'
<1>0. blank \subseteq blank' /\ \A k \in Instance \ {i} : llm'[k] = llm[k]
  BY PastGrows
<1>1. CASE j # i
  BY <1>0, <1>1 DEF Reasoned
<1>2. CASE j = i
  <2>1. ~Ends(i)
    <3>1. llm'[i].pc # "down"
      BY <1>2
    <3>2. Ends(i) => llm'[i] = Down
      BY DEF Ends
    <3>3. Down.pc = "down"
      BY DEF Down
    <3> QED
      BY <3>1, <3>2, <3>3
  <2>2. CASE Walks(i)
    <3>1. llm'[i].msg = llm[i].msg /\ llm'[i].pc \in {"free", "freeTrigger"}
      BY <1>2, <2>2 DEF Walks, Same
    <3> QED
      BY <1>2, <2>2, <3>1 DEF Walks
  <2>3. CASE Hear(i) \/ Frees(i)
    BY <1>0, <1>2, <2>3 DEF Hear, Frees, Goes, Same, Reasoned
  <2>4. CASE ~(Walks(i) \/ Hear(i) \/ Frees(i))
    BY <1>2, <2>1, <2>4, QuietStep, StepMoves
       DEF Moves, Begins, Takes, Rests, Repeats, Enters, Owns, Publishes, Releases, Goes
  <2> QED
    BY <2>2, <2>3, <2>4
<1> QED
  BY <1>1, <1>2

\* A question dealt with stays so.
LEMMA DealtStays ==
    ASSUME AskTypeOK, Placed, Smooth, NEW i \in Instance, Instances(i), askFaults' = 0,
           NEW id, Dealt(id)
    PROVE  Dealt(id)'
<1>0. /\ Answered \subseteq Answered' /\ blank \subseteq blank'
      /\ \A k \in Instance \ {i} : llm'[k] = llm[k]
  BY PastGrows
<1>1. CASE id \in Answered \cup blank
  BY <1>0, <1>1 DEF Dealt
<1>2. CASE id \notin Answered \cup blank
  <2>1. PICK j \in Instance : /\ llm[j].pc \in {"trigger", "ask", "fallback", "publish"}
                              /\ llm[j].msg = id
    BY <1>2 DEF Dealt, Underway
  <2>2. CASE j # i
    BY <1>0, <2>1, <2>2 DEF Dealt, Underway
  <2>3. CASE j = i
    <3>1. CASE Hear(i)
      BY <2>1, <2>3, <3>1 DEF Hear, At
    <3>2. CASE Owns(i)
      BY <2>1, <2>3, <3>2 DEF Owns, Goes, Same, Dealt, Underway
    <3>3. CASE Publishes(i)
      BY <2>1, <2>3, <3>3, AnsweredGrows DEF Dealt
    <3>4. CASE Walks(i)
      <4>1. llm'[i].msg = id
        BY <2>1, <2>3, <3>4 DEF Walks, Same
      <4>2. llm'[i].pc \in {"fallback", "publish"} \/ id \in blank'
        BY <2>1, <2>3, <3>4 DEF Walks
      <4> QED
        BY <4>1, <4>2 DEF Dealt, Underway
    <3>5. ~(Begins(i) \/ Ends(i) \/ Takes(i) \/ Rests(i) \/ Repeats(i) \/ Enters(i) \/ Frees(i)
            \/ Releases(i))
      BY <2>1, <2>3, QuietStep DEF Begins, Takes, Rests, Repeats, Enters, Frees, Releases
    <3> QED
      BY <3>1, <3>2, <3>3, <3>4, <3>5, QuietStep, StepMoves DEF Moves
  <2> QED
    BY <2>2, <2>3
<1> QED
  BY <1>1, <1>2

\* A question found to be a repetition repeats one that was or is being dealt with.
LEMMA RepeatReasoned ==
    ASSUME AskTypeOK, Placed, Smooth, Reasoned, NEW i \in Instance, Repeats(i)
    PROVE  \E other \in DOMAIN text \ {llm[i].msg} :
              text[other] = text[llm[i].msg] /\ Dealt(other)
<1> DEFINE id  == llm[i].msg
           key == Content(id)
<1>0. llm[i].pc = "content" /\ key \in claims
  BY DEF Repeats
<1>1. id \in DOMAIN text /\ text[id] \in Question
  BY <1>0 DEF Placed, InPlace, Busy
<1>2. key \in ContentKey /\ key[3] = text[id]
  BY <1>1 DEF Content, ContentKey, AskTypeOK
<1> HIDE DEF key
<1>3. id \notin Answered /\ id # NoMessage
  <2>1. DOMAIN text = 1 .. Len(text) /\ Len(text) \in Nat
    BY LenProperties DEF AskTypeOK
  <2> QED
    BY <1>0, <1>1, <2>1, AskAssumption DEF Smooth
<1>4. CASE \E other \in DOMAIN text : text[other] = key[3] /\ other \in Answered
  <2>1. PICK other \in DOMAIN text : text[other] = key[3] /\ other \in Answered
    BY <1>4
  <2>2. other # id /\ Dealt(other)
    BY <1>3, <2>1 DEF Dealt
  <2> QED
    BY <1>2, <2>1, <2>2
<1>5. CASE \E j \in Instance : llm[j].pc \in Keyed /\ llm[j].key = key
  <2>1. PICK j \in Instance : llm[j].pc \in Keyed /\ llm[j].key = key
    BY <1>5
  <2>2. llm[j].msg \in DOMAIN text /\ text[llm[j].msg] = key[3]
    BY <2>1 DEF Placed, InPlace, Busy, Keyed
  <2>3. j # i
    BY <1>0, <2>1 DEF Keyed
  <2>4. llm[j].msg # id
    BY <1>3, <2>3 DEF Smooth
  <2>5. Dealt(llm[j].msg)
    <3>1. CASE llm[j].pc = "record"
      BY <3>1 DEF Placed, InPlace, Dealt
    <3>2. CASE llm[j].pc = "free"
      BY <3>2 DEF Reasoned, Dealt
    <3>3. CASE llm[j].pc \in {"trigger", "ask", "fallback", "publish"}
      BY <3>3 DEF Dealt, Underway
    <3> QED
      BY <2>1, <3>1, <3>2, <3>3 DEF Keyed
  <2> QED
    BY <1>2, <2>2, <2>4, <2>5
<1> QED
  BY <1>0, <1>2, <1>4, <1>5 DEF Reasoned

\* No question is passed over.
LEMMA QuestionsReasoned ==
    ASSUME AskTypeOK, Placed, Smooth, Reasoned, NEW i \in Instance, Instances(i), askFaults' = 0,
           NEW id \in DOMAIN text, text[id] \in Question, id \notin Waiting'
    PROVE  Dealt(id)' \/ Repeated(id)' \/ Begun(id)'
<1>0. /\ dropped \subseteq dropped' /\ text' = text
      /\ \A k \in Instance \ {i} : llm'[k] = llm[k]
  BY PastGrows
<1>1. CASE id \in Waiting
  <2>1. /\ askQueue # << >> /\ askQueue' = Tail(askQueue) /\ (Hear(i) \/ Takes(i))
    <3>1. askQueue' # askQueue
      BY <1>1 DEF Waiting
    <3> QED
      BY <3>1, QuietStep, StepMoves
         DEF Moves, Begins, Hear, Takes, Rests, Repeats, Enters, Owns, Walks, Publishes, Frees,
             Releases
  <2>2. id = Head(askQueue)
    <3>1. /\ askQueue \in Seq(Id) /\ Len(askQueue) \in Nat /\ DOMAIN askQueue = 1 .. Len(askQueue)
          /\ askQueue # << >> /\ askQueue' = Tail(askQueue)
      BY <2>1, LenProperties DEF AskTypeOK, Hear, Takes
    <3>2. /\ Head(askQueue) = askQueue[1] /\ Tail(askQueue) \in Seq(Id)
          /\ Len(Tail(askQueue)) = Len(askQueue) - 1
          /\ \A k \in 1 .. Len(Tail(askQueue)) : Tail(askQueue)[k] = askQueue[k + 1]
      BY <3>1, HeadTailProperties
    <3>3. DOMAIN askQueue' = 1 .. (Len(askQueue) - 1)
      BY <3>1, <3>2, LenProperties
    <3>4. PICK k \in 1 .. Len(askQueue) : askQueue[k] = id
      BY <1>1, <3>1 DEF Waiting
    <3>5. k # 1 => k - 1 \in DOMAIN askQueue' /\ askQueue'[k - 1] = id
      <4>1. k # 1 => k - 1 \in 1 .. (Len(askQueue) - 1) /\ (k - 1) + 1 = k
        BY <3>1
      <4>2. k # 1 => Tail(askQueue)[k - 1] = askQueue[(k - 1) + 1]
        BY <3>2, <4>1
      <4> QED
        BY <3>1, <3>3, <3>4, <4>1, <4>2
    <3> QED
      BY <3>2, <3>4, <3>5 DEF Waiting
  <2>3. CASE Hear(i)
    BY <2>2, <2>3, AskAssumption DEF Hear
  <2>4. CASE Takes(i)
    BY <2>2, <2>4 DEF Takes, Begun
  <2> QED
    BY <2>1, <2>3, <2>4
<1>2. CASE Dealt(id)
  BY <1>2, DealtStays
<1>3. CASE Repeated(id)
  <2>1. PICK d \in dropped : /\ d[1] = id
                             /\ \E other \in DOMAIN text \ {id} :
                                   text[other] = text[id] /\ Dealt(other)
    BY <1>3 DEF Repeated
  <2>2. PICK other \in DOMAIN text \ {id} : text[other] = text[id] /\ Dealt(other)
    BY <2>1
  <2>3. Dealt(other)'
    BY <2>2, DealtStays
  <2> QED
    BY <1>0, <2>1, <2>2, <2>3 DEF Repeated
<1>4. CASE Begun(id)
  <2>1. PICK j \in Instance : llm[j].pc = "content" /\ llm[j].msg = id
    BY <1>4 DEF Begun
  <2>2. CASE j # i
    BY <1>0, <2>1, <2>2 DEF Begun
  <2>3. CASE j = i
    <3>1. CASE Repeats(i)
      <4>1. PICK other \in DOMAIN text \ {id} : text[other] = text[id] /\ Dealt(other)
        BY <2>1, <2>3, <3>1, RepeatReasoned
      <4>2. Dealt(other)'
        BY <4>1, DealtStays
      <4>3. << id, Content(id) >> \in dropped'
        BY <2>1, <2>3, <3>1 DEF Repeats
      <4> QED
        BY <1>0, <4>1, <4>2, <4>3 DEF Repeated
    <3>2. CASE Enters(i)
      BY <2>1, <2>3, <3>2 DEF Enters, Dealt, Underway
    <3>3. CASE Hear(i)
      BY <2>1, <2>3, <3>3 DEF Hear, At
    <3>4. ~(Begins(i) \/ Ends(i) \/ Takes(i) \/ Rests(i) \/ Owns(i) \/ Walks(i) \/ Publishes(i)
            \/ Frees(i) \/ Releases(i))
      BY <2>1, <2>3, QuietStep
         DEF Begins, Takes, Rests, Owns, Walks, Publishes, Frees, Releases
    <3> QED
      BY <3>1, <3>2, <3>3, <3>4, QuietStep, StepMoves DEF Moves
  <2> QED
    BY <2>2, <2>3
<1> QED
  BY <1>1, <1>2, <1>3, <1>4 DEF Reasoned

LEMMA ReasonedStep ==
    ASSUME AskTypeOK, Placed, Smooth, Reasoned, NEW i \in Instance, Instances(i), askFaults' = 0
    PROVE  Reasoned'
<1>1. text' = text
  BY PastGrows
<1>2. \A key \in ContentKey : key \in claims' =>
         \/ \E id \in DOMAIN text' : text'[id] = key[3] /\ id \in Answered'
         \/ \E j \in Instance : llm'[j].pc \in Keyed /\ llm'[j].key = key
  BY KeysReasoned
<1>3. \A j \in Instance : llm'[j].pc \in {"free", "freeTrigger"} => llm'[j].msg \in blank'
  BY BlanksReasoned
<1>4. \A id \in DOMAIN text' : text'[id] \in Question /\ id \notin Waiting'
         => Dealt(id)' \/ Repeated(id)' \/ Begun(id)'
  BY <1>1, QuestionsReasoned
<1> QED
  BY <1>2, <1>3, <1>4 DEF Reasoned

\* A message said is waiting; the others keep their reasons.
LEMMA ReasonedOutside ==
    ASSUME AskTypeOK, Reasoned,
           \/ UNCHANGED askVars \/ NextWindow \/ \E what \in Question \cup {Other} : Say(what)
    PROVE  Reasoned'
<1>0. /\ UNCHANGED << claims, llm, answers, blank, dropped >>
      /\ Answered' = Answered /\ \A id : Dealt(id)' = Dealt(id) /\ Begun(id)' = Begun(id)
  <2>1. UNCHANGED << claims, llm, answers, blank, dropped >>
    BY DEF askVars, NextWindow, Say, askHistory
  <2> QED
    BY <2>1 DEF Dealt, Underway, Begun, Answered
<1>1. /\ DOMAIN text \subseteq DOMAIN text' /\ \A id \in DOMAIN text : text'[id] = text[id]
      /\ Waiting \subseteq Waiting'
      /\ \A id \in DOMAIN text' \ DOMAIN text : id \in Waiting'
  <2>1. CASE UNCHANGED askVars \/ NextWindow
    BY <2>1 DEF askVars, NextWindow, Waiting
  <2>2. ASSUME NEW what \in Question \cup {Other}, Say(what)
        PROVE  /\ DOMAIN text \subseteq DOMAIN text'
               /\ \A id \in DOMAIN text : text'[id] = text[id]
               /\ Waiting \subseteq Waiting'
               /\ \A id \in DOMAIN text' \ DOMAIN text : id \in Waiting'
    <3>1. text \in Seq(Question \cup {Other}) /\ askQueue \in Seq(Id) /\ Len(text) + 1 \in Id
      BY LenProperties DEF AskTypeOK, Id
    <3>2. text' = Append(text, what) /\ askQueue' = Append(askQueue, Len(text) + 1)
      BY <2>2 DEF Say
    <3>3. /\ Len(text) \in Nat /\ DOMAIN text = 1 .. Len(text)
          /\ DOMAIN text' = 1 .. (Len(text) + 1)
          /\ \A id \in 1 .. Len(text) : text'[id] = text[id]
      BY <3>1, <3>2, AppendProperties, LenProperties
    <3>4. /\ Len(askQueue) \in Nat /\ DOMAIN askQueue = 1 .. Len(askQueue)
          /\ DOMAIN askQueue' = 1 .. (Len(askQueue) + 1)
          /\ askQueue'[Len(askQueue) + 1] = Len(text) + 1
          /\ \A k \in 1 .. Len(askQueue) : askQueue'[k] = askQueue[k]
      BY <3>1, <3>2, AppendProperties, LenProperties
    <3>5. \A k \in DOMAIN askQueue : k \in DOMAIN askQueue' /\ askQueue'[k] = askQueue[k]
      BY <3>4
    <3>6. Len(askQueue) + 1 \in DOMAIN askQueue'
      BY <3>4
    <3>7. \A id \in DOMAIN text' \ DOMAIN text : id = Len(text) + 1
      BY <3>3
    <3>8. Waiting \subseteq Waiting' /\ Len(text) + 1 \in Waiting'
      BY <3>4, <3>5, <3>6 DEF Waiting
    <3>9. DOMAIN text \subseteq DOMAIN text'
      BY <3>3
    <3> QED
      BY <3>3, <3>7, <3>8, <3>9
  <2> QED
    BY <2>1, <2>2
<1>2. \A id \in DOMAIN text : Repeated(id) => Repeated(id)'
  <2> SUFFICES ASSUME NEW id \in DOMAIN text, Repeated(id) PROVE Repeated(id)'
    OBVIOUS
  <2>1. PICK d \in dropped : /\ d[1] = id
                             /\ \E other \in DOMAIN text \ {id} :
                                   text[other] = text[id] /\ Dealt(other)
    BY DEF Repeated
  <2>2. PICK other \in DOMAIN text \ {id} : text[other] = text[id] /\ Dealt(other)
    BY <2>1
  <2>3. other \in DOMAIN text' \ {id} /\ text'[other] = text'[id] /\ Dealt(other)'
    BY <1>0, <1>1, <2>2
  <2> QED
    BY <1>0, <2>1, <2>3 DEF Repeated
<1>3. \A id \in DOMAIN text' : text'[id] \in Question /\ id \notin Waiting'
         => Dealt(id)' \/ Repeated(id)' \/ Begun(id)'
  <2> SUFFICES ASSUME NEW id \in DOMAIN text', text'[id] \in Question, id \notin Waiting'
               PROVE  Dealt(id)' \/ Repeated(id)' \/ Begun(id)'
    OBVIOUS
  <2>1. id \in DOMAIN text /\ text[id] \in Question /\ id \notin Waiting
    BY <1>1
  <2>2. Dealt(id) \/ Repeated(id) \/ Begun(id)
    BY <2>1 DEF Reasoned
  <2> QED
    BY <1>0, <1>2, <2>1, <2>2
<1>4. \A key \in ContentKey : key \in claims' =>
         \/ \E id \in DOMAIN text' : text'[id] = key[3] /\ id \in Answered'
         \/ \E j \in Instance : llm'[j].pc \in Keyed /\ llm'[j].key = key
  BY <1>0, <1>1 DEF Reasoned
<1>5. \A j \in Instance : llm'[j].pc \in {"free", "freeTrigger"} => llm'[j].msg \in blank'
  BY <1>0 DEF Reasoned
<1> QED
  BY <1>3, <1>4, <1>5 DEF Reasoned

-----------------------------------------------------------------------------
(* LlmSubscriber: the theorems *)

LEMMA AskNext_Inv == AskInv /\ [AskNext]_askVars => AskInv'
<1> SUFFICES ASSUME AskInv, [AskNext]_askVars PROVE AskInv'
  OBVIOUS
<1>0. AskTypeOK /\ Placed /\ AskHeld /\ AskOnce /\ Accounted
  BY DEF AskInv
<1>1. AskTypeOK' /\ Placed' /\ AskHeld' /\ AskOnce' /\ Accounted'
  BY <1>0, AskNext_Type, AskNext_Placed, AskNext_Held, AskNext_Once, AskNext_Accounted
<1>2. ASSUME askFaults' = 0 PROVE Smooth' /\ Reasoned'
  <2>1. CASE UNCHANGED askVars \/ NextWindow \/ \E what \in Question \cup {Other} : Say(what)
    <3>1. askFaults = 0
      BY <1>2, <2>1 DEF askVars, NextWindow, Say
    <3>2. Smooth /\ Reasoned
      BY <3>1 DEF AskInv
    <3> QED
      BY <1>0, <2>1, <3>2, SmoothOutside, ReasonedOutside
  <2>2. ASSUME NEW i \in Instance, Instances(i) PROVE Smooth' /\ Reasoned'
    <3>1. askFaults \in Nat /\ askFaults' >= askFaults
      BY <1>0, <2>2, HistoryStep DEF AskTypeOK
    <3>2. Smooth /\ Reasoned
      BY <1>2, <3>1 DEF AskInv
    <3> QED
      BY <1>0, <1>2, <2>2, <3>2, SmoothStep, ReasonedStep
  <2> QED
    BY <2>1, <2>2 DEF AskNext
<1> QED
  BY <1>1, <1>2 DEF AskInv

LEMMA AskSpec_Inv == AskSpec => []AskInv
<1> QED
  BY AskInit_Inv, AskNext_Inv, PTL DEF AskSpec

\* Every variable of the subscriber stays within its type.
THEOREM AskTyping == AskSpec => []AskTypeOK
<1>1. AskInv => AskTypeOK
  BY DEF AskInv
<1> QED
  BY <1>1, AskSpec_Inv, PTL

\* A message and a content are replied to once, whatever is redelivered or crashes, unless a
\* publish raised after the broker had the reply (_handle_chat_message's two claims).
THEOREM AskAnsweredOnce == AskSpec => []AnsweredOnce
<1>1. AskInv => AnsweredOnce
  <2> SUFFICES ASSUME AskInv PROVE AnsweredOnce
    OBVIOUS
  <2>1. AskTypeOK /\ AskOnce /\ unsure \in Nat
    BY DEF AskInv, AskTypeOK
  <2>2. \A k \in DOMAIN answers : answers[k] \in Id \X ContentKey
    <3>1. answers \in Seq(Id \X ContentKey) /\ DOMAIN answers = 1 .. Len(answers)
      BY <2>1, LenProperties DEF AskTypeOK
    <3> QED
      BY <3>1, ElementOfSeq
  <2>3. ASSUME NEW id \in DOMAIN text
        PROVE  Replies({id} \X {answers[k][2] : k \in DOMAIN answers}) <= 1 + unsure
    <3> DEFINE under == {answers[k][2] : k \in DOMAIN answers}
    <3>1. {k \in DOMAIN answers : answers[k] \in {id} \X under} = To(id)
      <4>1. \A k \in DOMAIN answers : answers[k] = << answers[k][1], answers[k][2] >>
        BY <2>2
      <4>2. \A k \in DOMAIN answers : answers[k] \in {id} \X under <=> answers[k][1] = id
        BY <4>1
      <4> QED
        BY <4>2 DEF To
    <3>2. id \in Id
      BY <2>1, LenProperties DEF AskTypeOK, Id
    <3>3. Cardinality(To(id)) <= unsure + 1
      BY <2>1, <3>2, CountType DEF AskOnce, MessageOnce
    <3> QED
      BY <2>1, <3>1, <3>3 DEF Replies
  <2>4. ASSUME NEW n \in DOMAIN answers PROVE Replies(Answered \X {answers[n][2]}) <= 1 + unsure
    <3> DEFINE key == answers[n][2]
    <3>1. {k \in DOMAIN answers : answers[k] \in Answered \X {key}} = For(key)
      <4>1. \A k \in DOMAIN answers : /\ answers[k] = << answers[k][1], answers[k][2] >>
                                      /\ answers[k][1] \in Answered
        BY <2>2 DEF Answered
      <4>2. \A k \in DOMAIN answers : answers[k] \in Answered \X {key} <=> answers[k][2] = key
        BY <4>1
      <4> QED
        BY <4>2 DEF For
    <3>2. key \in ContentKey
      BY <2>2
    <3>3. Cardinality(For(key)) <= unsure + 1
      BY <2>1, <3>2, CountType DEF AskOnce, ContentOnce
    <3> QED
      BY <2>1, <3>1, <3>3 DEF Replies
  <2> QED
    BY <2>3, <2>4 DEF AnsweredOnce
<1> QED
  BY <1>1, AskSpec_Inv, PTL

\* Without a failure no question is passed over in silence: it is answered, its reply was
\* empty, or it repeats one that is or was dealt with (_handle_chat_message).
THEOREM AskSilenceExplained == AskSpec => []SilenceExplained
<1>1. AskInv => SilenceExplained
  <2> SUFFICES ASSUME AskInv, askFaults = 0,
                      NEW id \in DOMAIN text, text[id] \in Question, id \notin Pending
               PROVE  \/ id \in Answered \cup blank
                      \/ \E d \in dropped :
                            /\ d[1] = id
                            /\ \E other \in DOMAIN text \ {id} :
                                  /\ text[other] = text[id]
                                  /\ other \in Answered \cup blank \cup Pending
    BY DEF SilenceExplained
  <2>1. id \notin Waiting /\ \A i \in Instance : llm[i].msg # id
    BY DEF Pending, Waiting
  <2>2. Dealt(id) \/ Repeated(id) \/ Begun(id)
    BY <2>1 DEF AskInv, Reasoned
  <2>3. ~Underway(id) /\ ~Begun(id)
    BY <2>1 DEF Underway, Begun
  <2>4. \A other : Dealt(other) => other \in Answered \cup blank \cup Pending
    BY DEF Dealt, Underway, Pending
  <2>5. CASE Repeated(id)
    BY <2>4, <2>5 DEF Repeated
  <2> QED
    BY <2>2, <2>3, <2>5 DEF Dealt
<1> QED
  BY <1>1, AskSpec_Inv, PTL

\* Every claim, of a content, of a message or of the start, is an instance's that is at
\* work, a reply's, or was left by a process that was killed, whose greeting raised or to
\* which the table failed; nobody loses a claim it counts on; and a start that is told of
\* another instance is told so by one, or by such a leftover
\* (__main__.main, _handle_chat_message's finally).
THEOREM AskClaimsExplained == AskSpec => []ClaimsExplained
<1>1. AskInv => ClaimsExplained
  <2> SUFFICES ASSUME AskInv PROVE ClaimsExplained
    OBVIOUS
  <2>1. DuplicateExplained
    BY DEF AskInv, AskHeld, StartupHeld
  <2>2. \A c \in claims : c \in
             orphans \cup (UNION {Owned(i) : i \in Instance})
                     \cup (UNION {{Trigger(answers[k][1]), answers[k][2]} : k \in DOMAIN answers})
    <3> TAKE c \in claims
    <3>0. Accounted
      BY DEF AskInv
    <3>1. c \in orphans \/ (\E i \in Instance : c \in Owned(i)) \/ Replied(c)
      BY <3>0 DEF Accounted
    <3>2. Replied(c) => \E k \in DOMAIN answers : c \in {Trigger(answers[k][1]), answers[k][2]}
      BY DEF Replied
    <3> QED
      BY <3>1, <3>2
  <2>3. \A i \in Instance :
           /\ llm[i].hello => Startup \in claims
           /\ llm[i].pc \in Keyed => llm[i].key \in claims
           /\ llm[i].pc \in Owning => Trigger(llm[i].msg) \in claims
    BY DEF AskInv, AskHeld, MessageHeld, ContentHeld, StartupHeld
  <2>4. ClaimsOwned
    BY <2>2, <2>3 DEF ClaimsOwned, Keyed, Owning
  <2> QED
    BY <2>1, <2>4 DEF ClaimsExplained
<1> QED
  BY <1>1, AskSpec_Inv, PTL
=============================================================================

---------------------------- MODULE Edges_proofs ----------------------------
(***************************************************************************)
(* Proofs about the edges: chat and speech that come in, what goes to the  *)
(* screens and the loudspeaker, and the tokens, for any number of          *)
(* messages, viewers, chunks, screens and faults.                          *)
(*                                                                         *)
(* Each component has an inductive invariant of its own: its type, what    *)
(* its queues hold, and the property.                                      *)
(*   TtsInv       the queue is newer than what was spoken                  *)
(*   AudioInv     every chunk is in one place, or was dropped by a queue   *)
(*   BoardInv     what a page does not show, some poll will make it load   *)
(*   OAuthInv     expiry counts from the issue; newer tokens are in a file *)
(*   OverlayInv   a full queue keeps its newest; no page is ahead          *)
(*   SubtitleInv  a saved version has its notice, or has been read         *)
(*   TubeInv      polled, queued and sent follow the order of the chat     *)
(*   ChatInv      what was published was claimed, by one handler alone     *)
(*   CharacterInv the queues and what is made of a turn tell its one text  *)
(*   LensInv      a read let go is over, and its lines leave in order      *)
(***************************************************************************)
EXTENDS MCEdges, MemoryBoard, FiniteSetTheorems, FunctionTheorems, SequenceTheorems, TLAPS

-----------------------------------------------------------------------------
(* Queues *)

\* What is in a queue; a queue in ascending order.
Elems(q)  == {q[k] : k \in DOMAIN q}
Rising(q) == \A j, k \in DOMAIN q : j < k => q[j] < q[k]

LEMMA SeqEmpty ==
    ASSUME NEW S
    PROVE  << >> \in Seq(S) /\ Elems(<< >>) = {} /\ Rising(<< >>) /\ Len(<< >>) = 0
BY DEF Elems, Rising

LEMMA SeqShape ==
    ASSUME NEW S, NEW q \in Seq(S)
    PROVE  /\ Len(q) \in Nat /\ DOMAIN q = 1 .. Len(q)
           /\ Elems(q) \subseteq S /\ \A k \in DOMAIN q : q[k] \in S /\ q[k] \in Elems(q)
           /\ q = << >> <=> Len(q) = 0
<1>1. Len(q) \in Nat /\ DOMAIN q = 1 .. Len(q)
  BY LenProperties
<1>2. \A k \in DOMAIN q : q[k] \in S
  BY <1>1, ElementOfSeq
<1>3. q = << >> <=> Len(q) = 0
  BY EmptySeq
<1> QED
  BY <1>1, <1>2, <1>3 DEF Elems

\* A queue with one element more at its end.
LEMMA SeqPush ==
    ASSUME NEW S, NEW q \in Seq(S), NEW x \in S
    PROVE  /\ Append(q, x) \in Seq(S) /\ Len(Append(q, x)) = Len(q) + 1 /\ Append(q, x) # << >>
           /\ DOMAIN Append(q, x) = DOMAIN q \cup {Len(q) + 1} /\ Len(q) + 1 \notin DOMAIN q
           /\ Append(q, x)[Len(q) + 1] = x
           /\ \A k \in DOMAIN q : Append(q, x)[k] = q[k] /\ k < Len(q) + 1
           /\ Elems(Append(q, x)) = Elems(q) \cup {x}
<1>1. /\ Append(q, x) \in Seq(S) /\ Len(Append(q, x)) = Len(q) + 1 /\ Append(q, x)[Len(q) + 1] = x
      /\ \A k \in 1 .. Len(q) : Append(q, x)[k] = q[k]
  BY AppendProperties
<1>2. /\ Len(q) \in Nat /\ DOMAIN q = 1 .. Len(q) /\ DOMAIN Append(q, x) = 1 .. (Len(q) + 1)
  BY <1>1, LenProperties
<1>3. /\ DOMAIN Append(q, x) = DOMAIN q \cup {Len(q) + 1} /\ Len(q) + 1 \notin DOMAIN q
      /\ \A k \in DOMAIN q : k < Len(q) + 1
  BY <1>2
<1>4. Append(q, x) # << >>
  BY <1>1, <1>2, EmptySeq
<1>5. Elems(Append(q, x)) = Elems(q) \cup {x}
  BY <1>1, <1>2, <1>3 DEF Elems
<1> QED
  BY <1>1, <1>2, <1>3, <1>4, <1>5

\* A queue without its first element.
LEMMA SeqPop ==
    ASSUME NEW S, NEW q \in Seq(S), q # << >>
    PROVE  /\ Tail(q) \in Seq(S) /\ Len(Tail(q)) = Len(q) - 1 /\ Len(q) >= 1
           /\ Head(q) \in S /\ Head(q) = q[1] /\ 1 \in DOMAIN q
           /\ \A k \in DOMAIN Tail(q) : k \in Nat /\ k + 1 \in DOMAIN q /\ Tail(q)[k] = q[k + 1]
           /\ \A k \in DOMAIN q : k # 1 => k - 1 \in DOMAIN Tail(q) /\ Tail(q)[k - 1] = q[k]
           /\ Elems(q) = {Head(q)} \cup Elems(Tail(q))
<1>1. /\ Tail(q) \in Seq(S) /\ Len(Tail(q)) = Len(q) - 1 /\ Head(q) \in S /\ Head(q) = q[1]
      /\ \A n \in 1 .. Len(Tail(q)) : Tail(q)[n] = q[n + 1]
  BY HeadTailProperties
<1>2. /\ Len(q) \in Nat /\ DOMAIN q = 1 .. Len(q) /\ Len(q) # 0
      /\ DOMAIN Tail(q) = 1 .. (Len(q) - 1)
  BY <1>1, LenProperties, EmptySeq
<1>3. Len(q) >= 1 /\ 1 \in DOMAIN q
  BY <1>2
<1>4. \A k \in DOMAIN Tail(q) : k \in Nat /\ k + 1 \in DOMAIN q
  BY <1>2
<1>5. \A k \in DOMAIN q : k # 1 => k - 1 \in 1 .. (Len(q) - 1) /\ (k - 1) + 1 = k
  BY <1>2
<1>6. \A k \in DOMAIN Tail(q) : Tail(q)[k] = q[k + 1]
  BY <1>1, <1>2
<1>7. \A k \in DOMAIN q : k # 1 => k - 1 \in DOMAIN Tail(q) /\ Tail(q)[k - 1] = q[k]
  BY <1>2, <1>5, <1>6
<1>8. Elems(q) = {Head(q)} \cup Elems(Tail(q))
  <2>1. Elems(q) \subseteq {Head(q)} \cup Elems(Tail(q))
    <3> SUFFICES ASSUME NEW k \in DOMAIN q PROVE q[k] \in {Head(q)} \cup Elems(Tail(q))
      BY DEF Elems
    <3> QED
      BY <1>1, <1>7 DEF Elems
  <2>2. {Head(q)} \cup Elems(Tail(q)) \subseteq Elems(q)
    BY <1>1, <1>3, <1>4, <1>6 DEF Elems
  <2> QED
    BY <2>1, <2>2
<1> QED
  BY <1>1, <1>3, <1>4, <1>6, <1>7, <1>8

LEMMA RisingPush ==
    ASSUME NEW q \in Seq(Nat), Rising(q), NEW x \in Nat, \A a \in Elems(q) : a < x
    PROVE  Rising(Append(q, x))
<1>1. \A j, k \in DOMAIN q : j < k => q[j] < q[k]
  BY DEF Rising
<1>2. Len(q) \in Nat /\ DOMAIN q = 1 .. Len(q) /\ \A k \in DOMAIN q : q[k] < x
  BY SeqShape
<1>3. /\ DOMAIN Append(q, x) = 1 .. (Len(q) + 1) /\ Append(q, x)[Len(q) + 1] = x
      /\ \A k \in 1 .. Len(q) : Append(q, x)[k] = q[k]
  BY AppendProperties, LenProperties
<1> QED
  BY <1>1, <1>2, <1>3 DEF Rising

LEMMA RisingPop ==
    ASSUME NEW q \in Seq(Nat), Rising(q), q # << >>
    PROVE  Rising(Tail(q)) /\ \A b \in Elems(Tail(q)) : Head(q) < b
<1>1. Rising(Tail(q))
  <2> SUFFICES ASSUME NEW j \in DOMAIN Tail(q), NEW k \in DOMAIN Tail(q), j < k
               PROVE  Tail(q)[j] < Tail(q)[k]
    BY DEF Rising
  <2>1. /\ j \in Nat /\ j + 1 \in DOMAIN q /\ Tail(q)[j] = q[j + 1]
        /\ k \in Nat /\ k + 1 \in DOMAIN q /\ Tail(q)[k] = q[k + 1]
    BY SeqPop, SMTT(30)
  <2>2. j + 1 < k + 1
    BY <2>1
  <2> QED
    BY <2>1, <2>2 DEF Rising
<1>2. \A k \in DOMAIN Tail(q) : Head(q) < Tail(q)[k]
  <2> SUFFICES ASSUME NEW k \in DOMAIN Tail(q) PROVE Head(q) < Tail(q)[k]
    OBVIOUS
  <2>1. /\ k \in Nat /\ k + 1 \in DOMAIN q /\ Tail(q)[k] = q[k + 1] /\ Head(q) = q[1]
        /\ 1 \in DOMAIN q /\ DOMAIN Tail(q) = 1 .. Len(Tail(q)) /\ Len(Tail(q)) \in Nat
    BY SeqPop, SeqShape
  <2>2. 1 < k + 1
    BY <2>1
  <2> QED
    BY <2>1, <2>2 DEF Rising
<1> QED
  BY <1>1, <1>2 DEF Elems

\* A full queue gives up its oldest element for a new one.
LEMMA SeqShift ==
    ASSUME NEW S, NEW q \in Seq(S), q # << >>, NEW x \in S
    PROVE  /\ Append(Tail(q), x) \in Seq(S) /\ Len(Append(Tail(q), x)) = Len(q)
           /\ Elems(Append(Tail(q), x)) = Elems(Tail(q)) \cup {x}
<1> DEFINE t == Tail(q)
<1>1. t \in Seq(S) /\ Len(t) = Len(q) - 1 /\ Len(q) \in Nat
  BY SeqPop, SeqShape
<1> HIDE DEF t
<1>2. /\ Append(t, x) \in Seq(S) /\ Len(Append(t, x)) = Len(t) + 1
      /\ Elems(Append(t, x)) = Elems(t) \cup {x}
  BY <1>1, SeqPush, SMTT(30)
<1>3. Len(Append(t, x)) = Len(q)
  BY <1>1, <1>2
<1> QED
  BY <1>2, <1>3 DEF t

LEMMA RisingShift ==
    ASSUME NEW q \in Seq(Nat), Rising(q), q # << >>, NEW x \in Nat, \A a \in Elems(q) : a < x
    PROVE  Rising(Append(Tail(q), x))
<1> DEFINE t == Tail(q)
<1>1. t \in Seq(Nat) /\ Rising(t) /\ \A a \in Elems(t) : a < x
  BY SeqPop, RisingPop
<1> HIDE DEF t
<1>2. Rising(Append(t, x))
  BY <1>1, RisingPush
<1> QED
  BY <1>2 DEF t

\* A queue that holds nothing twice.
Distinct(q) == \A j, k \in DOMAIN q : q[j] = q[k] => j = k

LEMMA DistinctPush ==
    ASSUME NEW S, NEW q \in Seq(S), Distinct(q), NEW x \in S, x \notin Elems(q)
    PROVE  Distinct(Append(q, x))
<1>1. /\ DOMAIN Append(q, x) = DOMAIN q \cup {Len(q) + 1} /\ Append(q, x)[Len(q) + 1] = x
      /\ \A k \in DOMAIN q : Append(q, x)[k] = q[k]
  BY SeqPush, SMTT(30)
<1>2. \A k \in DOMAIN q : q[k] # x
  BY DEF Elems
<1> QED
  BY <1>1, <1>2 DEF Distinct

LEMMA DistinctPop ==
    ASSUME NEW S, NEW q \in Seq(S), Distinct(q), q # << >>
    PROVE  Distinct(Tail(q)) /\ Head(q) \notin Elems(Tail(q))
<1>1. \A k \in DOMAIN Tail(q) : k \in Nat /\ k + 1 \in DOMAIN q /\ Tail(q)[k] = q[k + 1]
  BY SeqPop, SMTT(30)
<1>2. Head(q) = q[1] /\ 1 \in DOMAIN q
  BY SeqPop, SMTT(30)
<1>3. Distinct(Tail(q))
  <2> SUFFICES ASSUME NEW j \in DOMAIN Tail(q), NEW k \in DOMAIN Tail(q), Tail(q)[j] = Tail(q)[k]
               PROVE  j = k
    BY DEF Distinct
  <2>1. j + 1 = k + 1
    BY <1>1 DEF Distinct
  <2> QED
    BY <1>1, <2>1
<1>4. \A k \in DOMAIN Tail(q) : Tail(q)[k] # Head(q)
  <2> SUFFICES ASSUME NEW k \in DOMAIN Tail(q) PROVE Tail(q)[k] # Head(q)
    OBVIOUS
  <2>1. k + 1 # 1 \/ k = 0
    BY <1>1
  <2>2. k # 0
    BY SeqPop, LenProperties
  <2> QED
    BY <1>1, <1>2, <2>1, <2>2 DEF Distinct
<1> QED
  BY <1>3, <1>4 DEF Elems

LEMMA DistinctShift ==
    ASSUME NEW S, NEW q \in Seq(S), Distinct(q), q # << >>, NEW x \in S, x \notin Elems(q)
    PROVE  Distinct(Append(Tail(q), x))
<1> DEFINE t == Tail(q)
<1>1. t \in Seq(S) /\ Distinct(t) /\ x \notin Elems(t)
  BY SeqPop, DistinctPop
<1> HIDE DEF t
<1>2. Distinct(Append(t, x))
  BY <1>1, DistinctPush
<1> QED
  BY <1>2 DEF t

-----------------------------------------------------------------------------
(* TtsQueue *)

TtsTypeOK ==
    /\ said \in Nat /\ speech \in Seq(Nat) /\ mouth \in Nat /\ spoken \in Seq(Nat)
    /\ player \in {"wait", "speak", "rest", "ended"} /\ stopping \in BOOLEAN
    /\ process \in {"consume", "join", "ended", "killed"}

InMouth == IF player = "speak" THEN {mouth} ELSE {}

\* What was spoken, what is spoken and what waits are in the order of the chat, and with
\* what was refused or replaced they are all that was said.
InTurn ==
    /\ Rising(spoken) /\ Rising(speech)
    /\ Elems(spoken) \cup InMouth \cup Elems(speech) \subseteq 1 .. said
    /\ \A a \in Elems(spoken) : \A b \in InMouth \cup Elems(speech) : a < b
    /\ \A a \in InMouth : \A b \in Elems(speech) : a < b
    /\ (1 .. said) \ Unspoken = Elems(spoken) \cup InMouth \cup Elems(speech) \cup replaced

\* The playback thread ends only with nothing left and no message to come.
EndsLast ==
    /\ stopping => process # "consume"
    /\ player = "ended" => speech = << >> /\ stopping
    /\ process = "ended" => player = "ended"

TtsInv == TtsTypeOK /\ InTurn /\ EndsLast

LEMMA TtsInit_Inv == TtsInit => TtsInv
<1> SUFFICES ASSUME TtsInit PROVE TtsInv
  OBVIOUS
<1>1. << >> \in Seq(Nat) /\ Elems(<< >>) = {} /\ Rising(<< >>)
  BY SeqEmpty
<1>2. 1 .. 0 = {}
  OBVIOUS
<1> QED
  BY <1>1, <1>2 DEF TtsInit, TtsInv, TtsTypeOK, InTurn, InMouth, EndsLast

LEMMA TtsNext_Inv == TtsInv /\ [TtsNext]_ttsVars => TtsInv'
<1> SUFFICES ASSUME TtsInv, [TtsNext]_ttsVars PROVE TtsInv'
  OBVIOUS
<1> USE DEF TtsInv
<1>1. CASE Enqueue
  <2>1. /\ process = "consume" /\ said' = said + 1 /\ said' \in Nat
        /\ UNCHANGED << mouth, player, stopping, spoken, process >>
    BY <1>1 DEF Enqueue, TtsTypeOK
  <2>2. player # "ended" /\ InMouth' = InMouth
    BY <2>1 DEF EndsLast, InMouth
  <2>3. 1 .. said' = (1 .. said) \cup {said'} /\ said' \notin 1 .. said
    BY <2>1 DEF TtsTypeOK
  <2>4. \A a \in Elems(spoken) \cup InMouth \cup Elems(speech) : a < said'
    BY <2>1 DEF InTurn, TtsTypeOK
  <2>5. EndsLast'
    BY <2>1, <2>2 DEF EndsLast
  <2>6. CASE said' \in Unspoken
    <3>1. UNCHANGED << speech, replaced >>
      BY <1>1, <2>6 DEF Enqueue
    <3>2. InTurn'
      BY <2>1, <2>2, <2>3, <2>4, <2>6, <3>1 DEF InTurn
    <3> QED
      BY <2>1, <2>5, <3>1, <3>2 DEF TtsTypeOK
  <2>7. CASE said' \notin Unspoken /\ Len(speech) >= MaxQueue
    <3>1. /\ speech' = Append(Tail(speech), said') /\ replaced' = replaced \cup {Head(speech)}
      BY <1>1, <2>7 DEF Enqueue
    <3>2. speech # << >>
      BY <2>7, SeqShape, TtsAssumption DEF TtsTypeOK
    <3>3. /\ Tail(speech) \in Seq(Nat) /\ Rising(Tail(speech))
          /\ Elems(speech) = {Head(speech)} \cup Elems(Tail(speech))
      BY <3>2, SeqPop, RisingPop DEF TtsTypeOK, InTurn
    <3>4. /\ speech' \in Seq(Nat) /\ Rising(speech')
          /\ Elems(speech') = Elems(Tail(speech)) \cup {said'}
      <4>1. speech \in Seq(Nat) /\ Rising(speech) /\ \A a \in Elems(speech) : a < said'
        BY <2>4 DEF TtsTypeOK, InTurn
      <4>2. Rising(Append(Tail(speech), said'))
        BY <2>1, <3>2, <4>1, RisingShift
      <4> QED
        BY <2>1, <3>1, <3>2, <4>1, <4>2, SeqShift, SMTT(30)
    <3>5. InTurn'
      BY <2>1, <2>2, <2>3, <2>4, <2>7, <3>1, <3>3, <3>4 DEF InTurn
    <3> QED
      BY <2>1, <2>5, <3>4, <3>5 DEF TtsTypeOK
  <2>8. CASE said' \notin Unspoken /\ ~(Len(speech) >= MaxQueue)
    <3>1. speech' = Append(speech, said') /\ replaced' = replaced
      BY <1>1, <2>8 DEF Enqueue
    <3>2. /\ speech' \in Seq(Nat) /\ Rising(speech')
          /\ Elems(speech') = Elems(speech) \cup {said'}
      <4>1. speech \in Seq(Nat) /\ Rising(speech) /\ \A a \in Elems(speech) : a < said'
        BY <2>4 DEF TtsTypeOK, InTurn
      <4>2. Rising(Append(speech, said'))
        BY <2>1, <4>1, RisingPush
      <4> QED
        BY <2>1, <3>1, <4>1, <4>2, SeqPush, SMTT(30)
    <3>3. InTurn'
      BY <2>1, <2>2, <2>3, <2>4, <2>8, <3>1, <3>2 DEF InTurn
    <3> QED
      BY <2>1, <2>5, <3>2, <3>3 DEF TtsTypeOK
  <2> QED
    BY <2>6, <2>7, <2>8
<1>2. CASE PlayNext
  <2>1. /\ player = "wait" /\ speech # << >> /\ mouth' = Head(speech) /\ speech' = Tail(speech)
        /\ player' = "speak" /\ UNCHANGED << said, stopping, spoken, replaced, process >>
    BY <1>2 DEF PlayNext
  <2>2. /\ Tail(speech) \in Seq(Nat) /\ Rising(Tail(speech)) /\ Head(speech) \in Nat
        /\ Elems(speech) = {Head(speech)} \cup Elems(Tail(speech))
        /\ \A b \in Elems(Tail(speech)) : Head(speech) < b
    BY <2>1, SeqPop, RisingPop DEF TtsTypeOK, InTurn
  <2>3. InMouth = {} /\ InMouth' = {Head(speech)}
    BY <2>1 DEF InMouth
  <2>4. InTurn'
    BY <2>1, <2>2, <2>3 DEF InTurn
  <2> QED
    BY <2>1, <2>2, <2>4 DEF TtsTypeOK, EndsLast
<1>3. CASE Spoken
  <2>1. /\ player = "speak" /\ spoken' = Append(spoken, mouth) /\ mouth' = 0
        /\ player' \in {"wait", "rest"} /\ UNCHANGED << said, speech, stopping, replaced, process >>
    BY <1>3 DEF Spoken
  <2>2. InMouth = {mouth} /\ InMouth' = {}
    BY <2>1 DEF InMouth
  <2>3. \A a \in Elems(spoken) : a < mouth
    BY <2>2 DEF InTurn
  <2>4. /\ spoken' \in Seq(Nat) /\ Rising(spoken') /\ Elems(spoken') = Elems(spoken) \cup {mouth}
    BY <2>1, <2>3, SeqPush, RisingPush DEF TtsTypeOK, InTurn
  <2>5. InTurn'
    BY <2>1, <2>2, <2>4 DEF InTurn
  <2> QED
    BY <2>1, <2>4, <2>5 DEF TtsTypeOK, EndsLast
<1>4. CASE CooledDown \/ PlayerEnds \/ Shutdown \/ Joined \/ Killed \/ UNCHANGED ttsVars
  <2>1. UNCHANGED << said, speech, mouth, spoken, replaced >> /\ InMouth' = InMouth
    BY <1>4 DEF CooledDown, PlayerEnds, Shutdown, Joined, Killed, ttsVars, InMouth
  <2>2. /\ player' \in {"wait", "speak", "rest", "ended"} /\ stopping' \in BOOLEAN
        /\ process' \in {"consume", "join", "ended", "killed"}
    BY <1>4 DEF CooledDown, PlayerEnds, Shutdown, Joined, Killed, ttsVars, TtsTypeOK
  <2>3. EndsLast'
    BY <1>4 DEF CooledDown, PlayerEnds, Shutdown, Joined, Killed, ttsVars, EndsLast
  <2> QED
    BY <2>1, <2>2, <2>3 DEF InTurn, TtsTypeOK
<1> QED
  BY <1>1, <1>2, <1>3, <1>4 DEF TtsNext

LEMMA TtsSpec_Inv == TtsSpec => []TtsInv
<1> QED
  BY TtsInit_Inv, TtsNext_Inv, PTL DEF TtsSpec

\* Every variable of the speaker stays within its type.
THEOREM TtsTyping == TtsSpec => []TtsTypeOK
<1>1. TtsInv => TtsTypeOK
  BY DEF TtsInv
<1> QED
  BY <1>1, TtsSpec_Inv, PTL

\* The chat is read aloud in its order, and a process that ends by itself has read all that
\* it acknowledged and neither refused nor replaced (queue_worker.shutdown, _run).
THEOREM TtsSpokenThrough == TtsSpec => []SpokenThrough
<1>1. TtsInv => SpokenThrough
  <2> SUFFICES ASSUME TtsInv PROVE SpokenThrough
    OBVIOUS
  <2>1. Elems(spoken) = ToSet(spoken)
    BY DEF Elems, ToSet
  <2>2. process = "ended" => InMouth = {} /\ Elems(speech) = {}
    BY SeqEmpty DEF TtsInv, EndsLast, InMouth
  <2> QED
    BY <2>1, <2>2 DEF TtsInv, InTurn, SpokenThrough, Rising
<1> QED
  BY <1>1, TtsSpec_Inv, PTL

-----------------------------------------------------------------------------
(* AudioIngress *)

AudioTypeOK ==
    /\ capture \in {"running", "ended"} /\ model \in {"loading", "ready", "failed"}
    /\ step \in {"get", "sleep", "transcribe", "publish", "failed"}
    /\ cut \in Nat /\ position \in Nat /\ hand \in Nat
    /\ callbacks \in Seq(Nat) /\ chunks \in Seq(Nat) /\ segments \in Seq(Nat \X Nat)
    /\ IsFiniteSet(lost) /\ shuffled \in BOOLEAN

\* The chunk in hand before it is transcribed and after; the chunks of the segments.
ChunkHeld  == IF step \in {"sleep", "transcribe"} THEN {hand} ELSE {}
ChunkText  == IF step \in {"publish", "failed"} THEN {hand} ELSE {}
ChunksOut == {segments[k][1] : k \in DOMAIN segments}

\* A chunk is in one place, and the capture's own are the newest.
ChunksPlaced ==
    /\ Rising(callbacks) /\ Distinct(chunks)
    /\ Elems(callbacks) \cup Elems(chunks) \subseteq 1 .. cut
    /\ ChunkHeld \cup ChunkText \cup ChunksOut \cup lost \subseteq 1 .. cut
    /\ \A a \in Elems(chunks) \cup ChunkHeld \cup ChunkText \cup ChunksOut \cup lost :
          \A b \in Elems(callbacks) : a < b
    /\ Elems(chunks) \cap (ChunkHeld \cup ChunkText \cup ChunksOut \cup lost) = {}
    /\ ChunkHeld \cap (ChunksOut \cup lost) = {}
    /\ ChunkText \cap ChunksOut = {}
    /\ \A j, k \in DOMAIN segments : segments[j][1] = segments[k][1] => j = k

ChunksCounted ==
    position + Len(chunks) + Len(callbacks) + Cardinality(lost)
        + (IF step \in {"sleep", "transcribe"} THEN 1 ELSE 0) = cut

\* While nothing went back behind a later chunk, what is to be transcribed comes after what
\* was, and is all of it while nothing was lost.
ChunksToCome == ChunkHeld \cup Elems(chunks) \cup Elems(callbacks)

ChunksInOrder ==
    ~shuffled =>
        /\ Rising(chunks) /\ \A a \in ChunkHeld : \A b \in Elems(chunks) : a < b
        /\ \A a \in ChunksToCome : position < a
        /\ \A a \in ChunkText : position <= a
        /\ lost = {} => ChunksToCome = (position + 1) .. cut /\ \A a \in ChunkText : a = position
        /\ \A k \in DOMAIN segments :
              /\ segments[k][2] < segments[k][1]
              /\ lost = {} => segments[k][2] = segments[k][1] - 1

SegmentsTimed ==
    /\ \A k \in DOMAIN segments : segments[k][2] < position
    /\ step \in {"publish", "failed"} =>
          position >= 1 /\ \A k \in DOMAIN segments : segments[k][2] < position - 1
    /\ \A j, k \in DOMAIN segments : j < k => segments[j][2] < segments[k][2]

AudioInv == AudioTypeOK /\ ChunksPlaced /\ ChunksCounted /\ ChunksInOrder /\ SegmentsTimed

LEMMA AudioInit_Inv == AudioInit => AudioInv
<1> SUFFICES ASSUME AudioInit PROVE AudioInv
  OBVIOUS
<1>1. /\ callbacks = << >> /\ chunks = << >> /\ segments = << >> /\ step = "get" /\ lost = {}
      /\ cut = 0 /\ position = 0 /\ hand = 0 /\ shuffled = FALSE
      /\ capture = "running" /\ model = "loading"
  BY DEF AudioInit
<1>2. /\ << >> \in Seq(Nat) /\ << >> \in Seq(Nat \X Nat) /\ Elems(<< >>) = {} /\ Rising(<< >>)
      /\ Len(<< >>) = 0 /\ Distinct(<< >>) /\ DOMAIN segments = {}
  BY <1>1, SeqEmpty DEF Distinct
<1>3. ChunkHeld = {} /\ ChunkText = {} /\ ChunksOut = {}
  BY <1>1, <1>2 DEF ChunkHeld, ChunkText, ChunksOut
<1>4. IsFiniteSet({}) /\ Cardinality({}) = 0
  BY FS_EmptySet
<1>5. AudioTypeOK
  BY <1>1, <1>2, <1>4 DEF AudioTypeOK
<1>6. ChunksPlaced
  BY <1>1, <1>2, <1>3 DEF ChunksPlaced
<1>7. ChunksCounted
  BY <1>1, <1>2, <1>4 DEF ChunksCounted
<1>8. ChunksInOrder
  <2>1. ChunksToCome = {} /\ (position + 1) .. cut = {}
    BY <1>1, <1>2, <1>3 DEF ChunksToCome
  <2> QED
    BY <1>1, <1>2, <1>3, <2>1 DEF ChunksInOrder
<1>9. SegmentsTimed
  BY <1>1, <1>2 DEF SegmentsTimed
<1> QED
  BY <1>5, <1>6, <1>7, <1>8, <1>9 DEF AudioInv

LEMMA CaptureChunk_Inv == AudioInv /\ CaptureChunk => AudioInv'
<1> SUFFICES ASSUME AudioInv, CaptureChunk PROVE AudioInv'
  OBVIOUS
<1> USE DEF AudioInv
<1>1. /\ cut' = cut + 1 /\ callbacks' = Append(callbacks, cut + 1) /\ cut + 1 \in Nat
      /\ UNCHANGED << capture, chunks, hand, model, step, position, segments, lost, shuffled >>
  BY DEF CaptureChunk, AudioTypeOK
<1>2. ChunkHeld' = ChunkHeld /\ ChunkText' = ChunkText /\ ChunksOut' = ChunksOut
  BY <1>1 DEF ChunkHeld, ChunkText, ChunksOut
<1>3. 1 .. cut' = (1 .. cut) \cup {cut + 1} /\ \A a \in 1 .. cut : a < cut + 1
  BY <1>1 DEF AudioTypeOK
<1>4. Rising(callbacks')
  <2>1. \A a \in Elems(callbacks) : a < cut + 1
    BY <1>3 DEF ChunksPlaced
  <2> QED
    BY <1>1, <2>1, RisingPush DEF AudioTypeOK, ChunksPlaced
<1>5. /\ callbacks' \in Seq(Nat) /\ Len(callbacks') = Len(callbacks) + 1
      /\ Elems(callbacks') = Elems(callbacks) \cup {cut + 1}
  <2>1. callbacks \in Seq(Nat)
    BY DEF AudioTypeOK
  <2> HIDE DEF AudioInv
  <2> QED
    BY <1>1, <2>1, SeqPush, SMTT(30)
<1>6. AudioTypeOK'
  BY <1>1, <1>5 DEF AudioTypeOK
<1>7. ChunksPlaced'
  BY <1>1, <1>2, <1>3, <1>4, <1>5 DEF ChunksPlaced
<1>8. ChunksCounted'
  <2>1. Len(callbacks) \in Nat /\ Len(chunks) \in Nat /\ Cardinality(lost) \in Nat
    BY SeqShape, FS_CardinalityType DEF AudioTypeOK
  <2> QED
    BY <1>1, <1>5, <2>1 DEF ChunksCounted, AudioTypeOK
<1>9. ChunksInOrder'
  <2>1. ChunksToCome' = ChunksToCome \cup {cut + 1}
    BY <1>1, <1>2, <1>5 DEF ChunksToCome
  <2>2. position < cut + 1
    <3>1. Len(callbacks) \in Nat /\ Len(chunks) \in Nat /\ Cardinality(lost) \in Nat
      BY SeqShape, FS_CardinalityType DEF AudioTypeOK
    <3> QED
      BY <3>1 DEF ChunksCounted, AudioTypeOK
  <2>3. (position + 1) .. (cut + 1) = ((position + 1) .. cut) \cup {cut + 1}
    BY <2>2, SMTT(30) DEF AudioTypeOK
  <2> QED
    BY <1>1, <1>2, <2>1, <2>2, <2>3 DEF ChunksInOrder
<1>10. SegmentsTimed'
  BY <1>1 DEF SegmentsTimed
<1> QED
  BY <1>6, <1>7, <1>8, <1>9, <1>10

LEMMA EnqueueChunk_Inv == AudioInv /\ EnqueueChunk => AudioInv'
<1> SUFFICES ASSUME AudioInv, EnqueueChunk PROVE AudioInv'
  OBVIOUS
<1> USE DEF AudioInv
<1> DEFINE new == Head(callbacks)
<1>1. /\ callbacks # << >> /\ callbacks' = Tail(callbacks)
      /\ \/ /\ Len(chunks) = ChunkQueue /\ lost' = lost \cup {Head(chunks)}
            /\ chunks' = Append(Tail(chunks), new)
         \/ lost' = lost /\ chunks' = Append(chunks, new)
      /\ UNCHANGED << capture, cut, hand, model, step, position, segments, shuffled >>
  BY DEF EnqueueChunk
<1>2. ChunkHeld' = ChunkHeld /\ ChunkText' = ChunkText /\ ChunksOut' = ChunksOut
  BY <1>1 DEF ChunkHeld, ChunkText, ChunksOut
<1>3. /\ callbacks' \in Seq(Nat) /\ Len(callbacks') = Len(callbacks) - 1 /\ Rising(callbacks')
      /\ new \in Nat /\ Elems(callbacks) = {new} \cup Elems(callbacks')
      /\ \A b \in Elems(callbacks') : new < b
  BY <1>1, SeqPop, RisingPop DEF AudioTypeOK, ChunksPlaced
<1> HIDE DEF new
<1>4. /\ Len(callbacks) \in Nat /\ Len(chunks) \in Nat /\ Cardinality(lost) \in Nat
      /\ chunks \in Seq(Nat)
  BY SeqShape, FS_CardinalityType DEF AudioTypeOK
<1>5. /\ \A a \in Elems(chunks) : a < new
      /\ new \notin Elems(chunks) \cup ChunkHeld \cup ChunkText \cup ChunksOut \cup lost
  <2>1. new \in Elems(callbacks) /\ ~(new < new)
    BY <1>3
  <2>2. \A a \in Elems(chunks) \cup ChunkHeld \cup ChunkText \cup ChunksOut \cup lost : a < new
    BY <2>1 DEF ChunksPlaced
  <2> QED
    BY <2>1, <2>2
<1>6. SegmentsTimed'
  BY <1>1 DEF SegmentsTimed
<1>7. CASE lost' = lost /\ chunks' = Append(chunks, new)
  <2>1. /\ chunks' \in Seq(Nat) /\ Len(chunks') = Len(chunks) + 1
        /\ Elems(chunks') = Elems(chunks) \cup {new}
    BY <1>3, <1>4, <1>7, SeqPush, SMTT(30)
  <2>2. Distinct(chunks')
    BY <1>3, <1>4, <1>5, <1>7, DistinctPush DEF ChunksPlaced
  <2>3. ~shuffled => Rising(chunks')
    <3>1. ~shuffled => Rising(chunks)
      BY DEF ChunksInOrder
    <3> QED
      BY <1>3, <1>4, <1>5, <1>7, <3>1, RisingPush
  <2>4. AudioTypeOK'
    BY <1>1, <1>3, <1>7, <2>1 DEF AudioTypeOK
  <2>5. ChunksPlaced'
    BY <1>1, <1>2, <1>3, <1>5, <1>7, <2>1, <2>2 DEF ChunksPlaced
  <2>6. ChunksCounted'
    BY <1>1, <1>3, <1>4, <1>7, <2>1 DEF ChunksCounted, AudioTypeOK
  <2>7. ChunksInOrder'
    <3>1. ChunksToCome' = ChunksToCome
      BY <1>2, <1>3, <2>1 DEF ChunksToCome
    <3>2. \A a \in ChunkHeld : a < new
      BY <1>3 DEF ChunksPlaced
    <3> QED
      BY <1>1, <1>2, <1>7, <2>1, <2>3, <3>1, <3>2 DEF ChunksInOrder
  <2> QED
    BY <1>6, <2>4, <2>5, <2>6, <2>7
<1>8. CASE /\ Len(chunks) = ChunkQueue /\ lost' = lost \cup {Head(chunks)}
           /\ chunks' = Append(Tail(chunks), new)
  <2>1. chunks # << >>
    BY <1>4, <1>8, SeqShape, AudioAssumption
  <2>2. /\ chunks' \in Seq(Nat) /\ Len(chunks') = Len(chunks)
        /\ Elems(chunks') = Elems(Tail(chunks)) \cup {new}
    BY <1>3, <1>4, <1>8, <2>1, SeqShift, SMTT(30)
  <2>3. /\ Elems(chunks) = {Head(chunks)} \cup Elems(Tail(chunks))
        /\ Head(chunks) \notin Elems(Tail(chunks))
    BY <1>4, <2>1, SeqPop, DistinctPop DEF ChunksPlaced
  <2>4. Distinct(chunks')
    BY <1>3, <1>4, <1>5, <1>8, <2>1, DistinctShift DEF ChunksPlaced
  <2>5. ~shuffled => Rising(chunks')
    <3>1. ~shuffled => Rising(chunks)
      BY DEF ChunksInOrder
    <3> QED
      BY <1>3, <1>4, <1>5, <1>8, <2>1, <3>1, RisingShift
  <2>6. Head(chunks) \notin lost
    BY <2>3 DEF ChunksPlaced
  <2>7. IsFiniteSet(lost') /\ Cardinality(lost') = Cardinality(lost) + 1
    BY <1>8, <2>6, FS_AddElement DEF AudioTypeOK
  <2>8. AudioTypeOK'
    BY <1>1, <1>3, <2>2, <2>7 DEF AudioTypeOK
  <2>9. ChunksPlaced'
    <3>1. /\ Elems(chunks') \subseteq Elems(chunks) \cup {new} /\ Head(chunks) \in Elems(chunks)
          /\ Head(chunks) # new /\ Head(chunks) \notin Elems(chunks')
      BY <1>5, <2>2, <2>3
    <3>2. Elems(callbacks') \cup Elems(chunks') \subseteq 1 .. cut
      BY <1>3, <3>1 DEF ChunksPlaced
    <3>3. ChunkHeld \cup ChunkText \cup ChunksOut \cup lost' \subseteq 1 .. cut
      BY <1>8, <3>1 DEF ChunksPlaced
    <3>4. \A a \in Elems(chunks') \cup ChunkHeld \cup ChunkText \cup ChunksOut \cup lost' :
             \A b \in Elems(callbacks') : a < b
      BY <1>3, <1>8, <3>1 DEF ChunksPlaced
    <3>5. Elems(chunks') \cap (ChunkHeld \cup ChunkText \cup ChunksOut \cup lost') = {}
      BY <1>5, <1>8, <3>1 DEF ChunksPlaced
    <3>6. ChunkHeld \cap (ChunksOut \cup lost') = {}
      BY <1>8, <3>1 DEF ChunksPlaced
    <3> QED
      BY <1>1, <1>2, <1>3, <2>4, <3>2, <3>3, <3>4, <3>5, <3>6 DEF ChunksPlaced
  <2>10. ChunksCounted'
    BY <1>1, <1>3, <1>4, <2>2, <2>7 DEF ChunksCounted, AudioTypeOK
  <2>11. ChunksInOrder'
    <3>1. ChunksToCome' \subseteq ChunksToCome
      BY <1>2, <1>3, <2>2, <2>3 DEF ChunksToCome
    <3>2. \A a \in ChunkHeld : a < new
      BY <1>3 DEF ChunksPlaced
    <3>3. lost' # {}
      BY <1>8
    <3> QED
      BY <1>1, <1>2, <2>2, <2>3, <2>5, <3>1, <3>2, <3>3 DEF ChunksInOrder
  <2> QED
    BY <1>6, <2>8, <2>9, <2>10, <2>11
<1> QED
  BY <1>1, <1>7, <1>8

LEMMA GetChunk_Inv == AudioInv /\ GetChunk => AudioInv'
<1> SUFFICES ASSUME AudioInv, GetChunk PROVE AudioInv'
  OBVIOUS
<1> USE DEF AudioInv
<1>1. /\ step = "get" /\ chunks # << >> /\ hand' = Head(chunks) /\ chunks' = Tail(chunks)
      /\ step' \in {"transcribe", "sleep"}
      /\ UNCHANGED << capture, cut, callbacks, model, position, segments, lost, shuffled >>
  BY DEF GetChunk
<1>2. /\ ChunkHeld = {} /\ ChunkText = {} /\ ChunkHeld' = {hand'} /\ ChunkText' = {}
      /\ ChunksOut' = ChunksOut
  BY <1>1 DEF ChunkHeld, ChunkText, ChunksOut
<1>3. /\ chunks' \in Seq(Nat) /\ Len(chunks') = Len(chunks) - 1 /\ hand' \in Nat
      /\ Elems(chunks) = {hand'} \cup Elems(chunks')
      /\ Distinct(chunks') /\ hand' \notin Elems(chunks')
  BY <1>1, SeqPop, DistinctPop DEF AudioTypeOK, ChunksPlaced
<1>4. ~shuffled => Rising(chunks') /\ \A b \in Elems(chunks') : hand' < b
  BY <1>1, RisingPop DEF AudioTypeOK, ChunksInOrder
<1>5. Len(callbacks) \in Nat /\ Len(chunks) \in Nat /\ Cardinality(lost) \in Nat
  BY SeqShape, FS_CardinalityType DEF AudioTypeOK
<1>6. AudioTypeOK'
  BY <1>1, <1>3 DEF AudioTypeOK
<1>7. ChunksPlaced'
  BY <1>1, <1>2, <1>3 DEF ChunksPlaced
<1>8. ChunksCounted'
  BY <1>1, <1>3, <1>5 DEF ChunksCounted, AudioTypeOK
<1>9. ChunksInOrder'
  <2>1. ChunksToCome' = ChunksToCome
    BY <1>1, <1>2, <1>3 DEF ChunksToCome
  <2> QED
    BY <1>1, <1>2, <1>4, <2>1 DEF ChunksInOrder
<1>10. SegmentsTimed'
  BY <1>1 DEF SegmentsTimed
<1> QED
  BY <1>6, <1>7, <1>8, <1>9, <1>10

LEMMA RequeueChunk_Inv == AudioInv /\ RequeueChunk => AudioInv'
<1> SUFFICES ASSUME AudioInv, RequeueChunk PROVE AudioInv'
  OBVIOUS
<1> USE DEF AudioInv
<1>1. /\ step = "sleep" /\ step' = "get" /\ hand' = 0
      /\ \/ lost' = lost \cup {hand} /\ chunks' = chunks /\ shuffled' = shuffled
         \/ /\ chunks' = Append(chunks, hand) /\ lost' = lost
            /\ shuffled' = (shuffled \/ chunks # << >>)
      /\ UNCHANGED << capture, cut, callbacks, model, position, segments >>
  BY DEF RequeueChunk
<1>2. /\ ChunkHeld = {hand} /\ ChunkText = {} /\ ChunkHeld' = {} /\ ChunkText' = {}
      /\ ChunksOut' = ChunksOut
  BY <1>1 DEF ChunkHeld, ChunkText, ChunksOut
<1>3. /\ Len(callbacks) \in Nat /\ Len(chunks) \in Nat /\ Cardinality(lost) \in Nat
      /\ chunks \in Seq(Nat) /\ hand \in Nat
  BY SeqShape, FS_CardinalityType DEF AudioTypeOK
<1>4. hand \notin Elems(chunks) /\ hand \notin lost
  BY <1>2 DEF ChunksPlaced
<1>5. SegmentsTimed'
  BY <1>1 DEF SegmentsTimed
<1>6. CASE lost' = lost \cup {hand} /\ chunks' = chunks /\ shuffled' = shuffled
  <2>1. IsFiniteSet(lost') /\ Cardinality(lost') = Cardinality(lost) + 1
    BY <1>4, <1>6, FS_AddElement DEF AudioTypeOK
  <2>2. AudioTypeOK'
    BY <1>1, <1>6, <2>1 DEF AudioTypeOK
  <2>3. ChunksPlaced'
    BY <1>1, <1>2, <1>6 DEF ChunksPlaced
  <2>4. ChunksCounted'
    BY <1>1, <1>3, <1>6, <2>1 DEF ChunksCounted, AudioTypeOK
  <2>5. ChunksInOrder'
    <3>1. ChunksToCome' \subseteq ChunksToCome /\ lost' # {}
      BY <1>1, <1>2, <1>6 DEF ChunksToCome
    <3> QED
      BY <1>1, <1>2, <1>6, <3>1 DEF ChunksInOrder
  <2> QED
    BY <1>5, <2>2, <2>3, <2>4, <2>5
<1>7. CASE /\ chunks' = Append(chunks, hand) /\ lost' = lost
           /\ shuffled' = (shuffled \/ chunks # << >>)
  <2>1. /\ chunks' \in Seq(Nat) /\ Len(chunks') = Len(chunks) + 1
        /\ Elems(chunks') = Elems(chunks) \cup {hand}
    BY <1>3, <1>7, SeqPush, SMTT(30)
  <2>2. Distinct(chunks')
    BY <1>3, <1>4, <1>7, DistinctPush DEF ChunksPlaced
  <2>3. ~shuffled' => ~shuffled /\ Rising(chunks')
    <3>1. ~shuffled' => ~shuffled /\ Rising(chunks) /\ \A a \in Elems(chunks) : a < hand
      BY <1>7, SeqEmpty DEF ChunksInOrder
    <3> QED
      BY <1>3, <1>7, <3>1, RisingPush
  <2>4. AudioTypeOK'
    BY <1>1, <1>7, <2>1 DEF AudioTypeOK
  <2>5. ChunksPlaced'
    BY <1>1, <1>2, <1>7, <2>1, <2>2 DEF ChunksPlaced
  <2>6. ChunksCounted'
    BY <1>1, <1>3, <1>7, <2>1 DEF ChunksCounted, AudioTypeOK
  <2>7. ChunksInOrder'
    <3>1. ChunksToCome' = ChunksToCome
      BY <1>1, <1>2, <2>1 DEF ChunksToCome
    <3> QED
      BY <1>1, <1>2, <1>7, <2>3, <3>1 DEF ChunksInOrder
  <2> QED
    BY <1>5, <2>4, <2>5, <2>6, <2>7
<1> QED
  BY <1>1, <1>6, <1>7

LEMMA Transcribe_Inv == ASSUME NEW says \in BOOLEAN PROVE AudioInv /\ Transcribe(says) => AudioInv'
<1> SUFFICES ASSUME AudioInv, Transcribe(says) PROVE AudioInv'
  OBVIOUS
<1> USE DEF AudioInv
<1>1. /\ step = "transcribe" /\ position' = position + 1
      /\ \/ step' = "publish" /\ hand' = hand
         \/ step' = "get" /\ hand' = 0
      /\ UNCHANGED << capture, cut, callbacks, chunks, model, segments, lost, shuffled >>
  BY DEF Transcribe
<1>2. /\ ChunkHeld = {hand} /\ ChunkText = {} /\ ChunkHeld' = {} /\ ChunkText' \subseteq {hand}
      /\ ChunksOut' = ChunksOut
  BY <1>1 DEF ChunkHeld, ChunkText, ChunksOut
<1>3. Len(callbacks) \in Nat /\ Len(chunks) \in Nat /\ Cardinality(lost) \in Nat
  BY SeqShape, FS_CardinalityType DEF AudioTypeOK
<1>4. hand \in Nat /\ position \in Nat /\ cut \in Nat
  BY DEF AudioTypeOK
<1>5. AudioTypeOK'
  BY <1>1, <1>4 DEF AudioTypeOK
<1>6. ChunksPlaced'
  BY <1>1, <1>2 DEF ChunksPlaced
<1>7. ChunksCounted'
  BY <1>1, <1>3, <1>4 DEF ChunksCounted
<1>8. ChunksInOrder'
  <2> SUFFICES ASSUME ~shuffled PROVE ChunksInOrder'
    BY <1>1 DEF ChunksInOrder
  <2>1. /\ ChunksToCome = {hand} \cup ChunksToCome'
        /\ hand \notin ChunksToCome'
    BY <1>1, <1>2 DEF ChunksToCome, ChunksPlaced
  <2>2. \A a \in ChunksToCome' : hand < a
    BY <1>1, <1>2 DEF ChunksToCome, ChunksPlaced, ChunksInOrder
  <2>3. position < hand
    BY <2>1 DEF ChunksInOrder
  <2>4. lost = {} => hand = position + 1 /\ ChunksToCome' = (position + 2) .. cut
    <3> SUFFICES ASSUME lost = {} PROVE hand = position + 1 /\ ChunksToCome' = (position + 2) .. cut
      OBVIOUS
    <3>1. ChunksToCome = (position + 1) .. cut
      BY DEF ChunksInOrder
    <3>2. position + 1 \in ChunksToCome
      BY <1>4, <2>1, <2>3, <3>1
    <3>3. hand = position + 1
      BY <1>4, <2>1, <2>2, <2>3, <3>2
    <3>4. (position + 1) .. cut = {position + 1} \cup ((position + 2) .. cut)
      BY <1>4, <3>1, <3>2
    <3>5. position + 1 \notin (position + 2) .. cut
      BY <1>4
    <3> HIDE DEF AudioInv
    <3> QED
      BY <2>1, <3>1, <3>3, <3>4, <3>5
  <2>5. \A a \in ChunksToCome' : a \in Nat
    BY <1>1, <1>2 DEF ChunksToCome, ChunksPlaced
  <2>6. \A a \in ChunksToCome' : position' < a
    BY <1>1, <1>4, <2>2, <2>3, <2>5
  <2>7. position' <= hand /\ (lost = {} => hand = position')
    BY <1>1, <1>4, <2>3, <2>4
  <2>8. lost' = {} => ChunksToCome' = (position' + 1) .. cut'
    BY <1>1, <1>4, <2>4
  <2> QED
    BY <1>1, <1>2, <2>6, <2>7, <2>8 DEF ChunksInOrder
<1>9. SegmentsTimed'
  <2>1. segments \in Seq(Nat \X Nat)
    BY DEF AudioTypeOK
  <2>2. \A k \in DOMAIN segments : segments[k][2] \in Nat
    BY <2>1, SeqShape
  <2> QED
    BY <1>1, <1>4, <2>2 DEF SegmentsTimed
<1> QED
  BY <1>5, <1>6, <1>7, <1>8, <1>9

LEMMA PublishSegment_Inv == AudioInv /\ PublishSegment => AudioInv'
<1> SUFFICES ASSUME AudioInv, PublishSegment PROVE AudioInv'
  OBVIOUS
<1> USE DEF AudioInv
<1> DEFINE new == << hand, position - 1 >>
<1>1. /\ step = "publish" /\ segments' = Append(segments, new) /\ step' = "get" /\ hand' = 0
      /\ UNCHANGED << capture, cut, callbacks, chunks, model, position, lost, shuffled >>
  BY DEF PublishSegment
<1>2. /\ ChunkHeld = {} /\ ChunkText = {hand} /\ ChunkHeld' = {} /\ ChunkText' = {}
  BY <1>1 DEF ChunkHeld, ChunkText
<1>3. /\ hand \in Nat /\ position \in Nat /\ position >= 1 /\ segments \in Seq(Nat \X Nat)
      /\ cut \in Nat
  BY <1>1 DEF AudioTypeOK, SegmentsTimed
<1>4. new \in Nat \X Nat /\ new[1] = hand /\ new[2] = position - 1
  BY <1>3
<1> HIDE DEF new
<1>5. /\ segments' \in Seq(Nat \X Nat)
      /\ DOMAIN segments' = DOMAIN segments \cup {Len(segments) + 1}
      /\ Len(segments) + 1 \notin DOMAIN segments
      /\ segments'[Len(segments) + 1] = new
      /\ \A k \in DOMAIN segments : segments'[k] = segments[k] /\ k < Len(segments) + 1
  <2> DEFINE Pairs == Nat \X Nat
  <2>0. segments \in Seq(Pairs) /\ new \in Pairs
    BY <1>3, <1>4
  <2>1. segments' = Append(segments, new)
    BY <1>1
  <2> HIDE DEF Pairs
  <2>2. /\ Append(segments, new) \in Seq(Pairs)
        /\ DOMAIN Append(segments, new) = DOMAIN segments \cup {Len(segments) + 1}
        /\ Len(segments) + 1 \notin DOMAIN segments
        /\ Append(segments, new)[Len(segments) + 1] = new
        /\ \A k \in DOMAIN segments : /\ Append(segments, new)[k] = segments[k]
                                      /\ k < Len(segments) + 1
    BY <2>0, SeqPush, SMTT(30)
  <2> QED
    BY <2>1, <2>2 DEF Pairs
<1>6. \A k \in DOMAIN segments' : \/ k \in DOMAIN segments /\ segments'[k] = segments[k]
                                  \/ k = Len(segments) + 1 /\ segments'[k] = new
  BY <1>5
<1>7. ChunksOut' = ChunksOut \cup {hand}
  <2>1. ChunksOut' \subseteq ChunksOut \cup {hand}
    BY <1>4, <1>6 DEF ChunksOut
  <2>2. ChunksOut \cup {hand} \subseteq ChunksOut'
    BY <1>4, <1>5 DEF ChunksOut
  <2> QED
    BY <2>1, <2>2
<1>8. AudioTypeOK'
  BY <1>1, <1>5 DEF AudioTypeOK
<1>9. \A j, k \in DOMAIN segments' : segments'[j][1] = segments'[k][1] => j = k
  <2>1. \A k \in DOMAIN segments : segments[k][1] # hand
    BY <1>2 DEF ChunksPlaced, ChunksOut
  <2> QED
    BY <1>4, <1>6, <2>1 DEF ChunksPlaced
<1>10. ChunksPlaced'
  BY <1>1, <1>2, <1>7, <1>9 DEF ChunksPlaced
<1>11. ChunksCounted'
  BY <1>1 DEF ChunksCounted
<1>12. ChunksInOrder'
  <2> SUFFICES ASSUME ~shuffled PROVE ChunksInOrder'
    BY <1>1 DEF ChunksInOrder
  <2>1. position <= hand /\ (lost = {} => hand = position)
    BY <1>2 DEF ChunksInOrder
  <2>2. new[2] < new[1] /\ (lost = {} => new[2] = new[1] - 1)
    BY <1>3, <1>4, <2>1
  <2>3. \A k \in DOMAIN segments' : /\ segments'[k][2] < segments'[k][1]
                                    /\ lost = {} => segments'[k][2] = segments'[k][1] - 1
    BY <1>6, <2>2 DEF ChunksInOrder
  <2>4. ChunksToCome' = ChunksToCome
    BY <1>1, <1>2 DEF ChunksToCome
  <2> QED
    BY <1>1, <1>2, <2>3, <2>4 DEF ChunksInOrder
<1>13. SegmentsTimed'
  <2>1. \A k \in DOMAIN segments : segments[k][2] < position - 1
    BY <1>1 DEF SegmentsTimed
  <2>2. \A k \in DOMAIN segments' : segments'[k][2] < position
    BY <1>3, <1>4, <1>6, <2>1, SMTT(30) DEF SegmentsTimed
  <2>3. \A k \in DOMAIN segments : k < Len(segments) + 1 /\ k \in Int /\ Len(segments) + 1 \in Int
    BY <1>3, SeqShape
  <2>4. \A j, k \in DOMAIN segments' : j < k => segments'[j][2] < segments'[k][2]
    <3> SUFFICES ASSUME NEW j \in DOMAIN segments', NEW k \in DOMAIN segments', j < k
                 PROVE  segments'[j][2] < segments'[k][2]
      OBVIOUS
    <3>1. j \in DOMAIN segments /\ segments'[j] = segments[j]
      <4>1. j # Len(segments) + 1
        BY <1>6, <2>3
      <4> QED
        BY <1>6, <4>1
    <3> QED
      BY <1>4, <1>6, <2>1, <3>1 DEF SegmentsTimed
  <2> QED
    BY <1>1, <2>2, <2>4 DEF SegmentsTimed
<1> QED
  BY <1>8, <1>10, <1>11, <1>12, <1>13

LEMMA AudioNext_Inv == AudioInv /\ [AudioNext]_audioVars => AudioInv'
<1> SUFFICES ASSUME AudioInv, [AudioNext]_audioVars PROVE AudioInv'
  OBVIOUS
<1>1. CASE \/ CaptureEnds \/ AudioFails \/ UNCHANGED audioVars
           \/ \E ok \in BOOLEAN : LoadModel(ok)
  <2>0. capture \in {"running", "ended"} /\ model \in {"loading", "ready", "failed"}
    BY DEF AudioInv, AudioTypeOK
  <2>1. /\ UNCHANGED << cut, callbacks, chunks, hand, position, segments, lost, shuffled >>
        /\ capture' \in {"running", "ended"} /\ model' \in {"loading", "ready", "failed"}
        /\ step' = step \/ (step = "publish" /\ step' = "failed")
    <3>1. CASE CaptureEnds
      BY <2>0, <3>1 DEF CaptureEnds
    <3>2. CASE AudioFails
      BY <2>0, <3>2 DEF AudioFails
    <3>3. CASE UNCHANGED audioVars
      BY <2>0, <3>3 DEF audioVars
    <3>4. ASSUME NEW ok \in BOOLEAN, LoadModel(ok)
          PROVE  /\ UNCHANGED << cut, callbacks, chunks, hand, position, segments, lost, shuffled >>
                 /\ capture' \in {"running", "ended"} /\ model' \in {"loading", "ready", "failed"}
                 /\ step' = step \/ (step = "publish" /\ step' = "failed")
      BY <2>0, <3>4 DEF LoadModel
    <3> QED
      BY <1>1, <3>1, <3>2, <3>3, <3>4
  <2>2. ChunkHeld' = ChunkHeld /\ ChunkText' = ChunkText /\ ChunksOut' = ChunksOut
    BY <2>1 DEF ChunkHeld, ChunkText, ChunksOut
  <2>3. ChunksToCome' = ChunksToCome
    BY <2>1, <2>2 DEF ChunksToCome
  <2>4. AudioTypeOK'
    BY <2>1 DEF AudioInv, AudioTypeOK
  <2>5. ChunksPlaced' /\ ChunksInOrder'
    BY <2>1, <2>2, <2>3 DEF AudioInv, ChunksPlaced, ChunksInOrder
  <2>6. ChunksCounted'
    BY <2>1 DEF AudioInv, ChunksCounted
  <2>7. SegmentsTimed'
    BY <2>1 DEF AudioInv, SegmentsTimed
  <2> QED
    BY <2>4, <2>5, <2>6, <2>7 DEF AudioInv
<1> QED
  BY <1>1, CaptureChunk_Inv, EnqueueChunk_Inv, GetChunk_Inv, RequeueChunk_Inv, Transcribe_Inv,
     PublishSegment_Inv DEF AudioNext

LEMMA AudioSpec_Inv == AudioSpec => []AudioInv
<1> QED
  BY AudioInit_Inv, AudioNext_Inv, PTL DEF AudioSpec

\* Every variable of the audio ingress stays within its type.
THEOREM AudioTyping == AudioSpec => []AudioTypeOK
<1>1. AudioInv => AudioTypeOK
  BY DEF AudioInv
<1> QED
  BY <1>1, AudioSpec_Inv, PTL

\* No chunk is transcribed twice or vanishes but by a full queue, and the clock of the
\* segments does not run ahead of the sound (_enqueue_chunk, _requeue_chunk,
\* transcribe_chunk).
THEOREM AudioAccounted == AudioSpec => []SpeechAccounted
<1>1. AudioInv => SpeechAccounted
  BY DEF AudioInv, SpeechAccounted, PositionExact, EveryChunkOnce, ChunksPlaced, ChunksCounted,
         ChunksInOrder, SegmentsTimed
<1> QED
  BY <1>1, AudioSpec_Inv, PTL

-----------------------------------------------------------------------------
(* MemoryBoard *)

Place      == Session \cup {Absent}
Tab        == [rev : Nat, selected : Place, listed : BOOLEAN, shown : SUBSET Nat, of : Place,
               run : Nat, half : BOOLEAN]
PageLoad   == [state : {"none", "meta", "sessions", "summaries"}, asked : {"no", "rev", "list"},
               read : Nat, run : Nat, session : Place, list : SUBSET Nat]

BoardTypeOK ==
    /\ saved \in Seq(Session) /\ active \in Place
    /\ announcements \in Seq(Nat) /\ listening \in BOOLEAN
    /\ revision \in Nat /\ counted \in Nat /\ boards \in Nat /\ mishaps \in Nat
    /\ tab \in Tab /\ loads \in [Load -> PageLoad]

\* Only what is saved is announced and counted.
CountedSaved == counted <= Len(saved) /\ \A a \in Elems(announcements) : a <= Len(saved)

\* What a load has read of this process is not ahead of it, and the list it read after the
\* revision has what was counted at that revision; so has the page its revision.
ReadSoFar(r) ==
    /\ r.run <= boards
    /\ r.asked # "no" /\ r.run = boards => r.read <= revision
    /\ r.state = "summaries" /\ r.asked = "list" /\ r.run = boards /\ r.read = revision
          => Oldest(r.session, counted) \subseteq r.list

ReadBehind ==
    /\ \A l \in Load : ReadSoFar(loads[l])
    /\ tab.run <= boards /\ (tab.run = boards => tab.rev <= revision)

BoardInv == BoardTypeOK /\ CountedSaved /\ ReadBehind /\ BoardCurrent

\* What the board shows of a session only grows with the summaries, and a summary does not
\* change what the earlier ones are.
LEMMA OldestGrows ==
    ASSUME NEW m \in Nat, NEW n \in Nat, m <= n, NEW s
    PROVE  Oldest(s, m) \subseteq Oldest(s, n) /\ Oldest(s, n) \subseteq Nat
BY DEF Oldest

LEMMA OldestKept ==
    ASSUME saved \in Seq(Session), NEW s \in Session, saved' = Append(saved, s),
           NEW x, NEW n \in Nat, n <= Len(saved)
    PROVE  Oldest(x, n)' = Oldest(x, n)
<1>1. Len(saved) \in Nat /\ \A k \in 1 .. Len(saved) : saved'[k] = saved[k]
  BY AppendProperties, LenProperties
<1>2. \A k \in 1 .. n : /\ saved'[k] = saved[k]
                        /\ \A j \in 1 .. k - 1 : saved'[j] = saved[j]
  BY <1>1
<1>3. \A k \in 1 .. n : {j \in 1 .. k - 1 : saved'[j] = x} = {j \in 1 .. k - 1 : saved[j] = x}
  BY <1>2
<1> QED
  BY <1>2, <1>3 DEF Oldest

\* A slot without a load, or with one not asked for yet, has read nothing.
LEMMA FreshLoad ==
    /\ NoLoad \in PageLoad /\ NoLoad.asked = "no" /\ NoLoad.run = 0 /\ NoLoad.state = "none"
    /\ \A state \in {"meta", "sessions", "summaries"}, s \in Place :
          /\ Request(state, s) \in PageLoad
          /\ Request(state, s).asked = "no" /\ Request(state, s).run = 0
BY DEF NoLoad, Request, PageLoad, Place

LEMMA BoardInit_Inv == BoardInit => BoardInv
<1> SUFFICES ASSUME BoardInit PROVE BoardInv
  OBVIOUS
<1>1. << >> \in Seq(Nat) /\ << >> \in Seq(Session) /\ Elems(<< >>) = {} /\ Len(<< >>) = 0
  BY SeqEmpty
<1>2. /\ tab = [rev |-> 0, selected |-> Absent, listed |-> FALSE, shown |-> {}, of |-> Absent,
                run |-> 0, half |-> TRUE]
      /\ saved = << >> /\ active = Absent /\ announcements = << >> /\ listening = TRUE
      /\ revision = 0 /\ counted = 0 /\ boards = 1 /\ mishaps = 0
  BY DEF BoardInit
<1>3. loads \in [Load -> PageLoad] /\ \A l \in Load : loads[l].asked = "no" /\ loads[l].run = 0
  <2>1. PICK first \in Load :
          loads = [l \in Load |-> IF l = first THEN Request("sessions", Absent) ELSE NoLoad]
    BY DEF BoardInit
  <2>2. Absent \in Place
    BY DEF Place
  <2> QED
    BY <2>1, <2>2, FreshLoad
<1>4. tab \in Tab /\ active \in Place
  BY <1>2 DEF Tab, Place
<1>5. BoardTypeOK
  BY <1>1, <1>2, <1>3, <1>4 DEF BoardTypeOK
<1>6. ReadBehind
  BY <1>2, <1>3 DEF ReadBehind, ReadSoFar
<1> QED
  BY <1>1, <1>2, <1>5, <1>6 DEF BoardInv, CountedSaved, BoardCurrent

\* What the worker, the listener and the process do.
LEMMA Summary_Inv ==
    ASSUME BoardInv, NEW s \in Session, NEW announced \in BOOLEAN, Summary(s, announced)
    PROVE  BoardInv'
<1> USE DEF BoardInv
<1>0. /\ saved \in Seq(Session) /\ announcements \in Seq(Nat) /\ mishaps \in Nat
      /\ Len(saved) \in Nat /\ counted \in Nat /\ counted <= Len(saved)
  BY LenProperties DEF BoardTypeOK, CountedSaved
<1>1. /\ saved' = Append(saved, s)
      /\ UNCHANGED << active, listening, revision, counted, boards, tab, loads >>
      /\ announcements' = announcements \/ announcements' = Append(announcements, Len(saved'))
      /\ mishaps' \in Nat
  BY <1>0 DEF Summary
<1>2. saved' \in Seq(Session) /\ Len(saved') = Len(saved) + 1
  BY <1>0, <1>1, AppendProperties
<1>3. /\ announcements' \in Seq(Nat)
      /\ Elems(announcements') \subseteq Elems(announcements) \cup {Len(saved) + 1}
  <2>1. Len(saved) + 1 \in Nat
    BY <1>0
  <2>2. /\ Append(announcements, Len(saved) + 1) \in Seq(Nat)
        /\ Elems(Append(announcements, Len(saved) + 1))
              = Elems(announcements) \cup {Len(saved) + 1}
    BY <1>0, <2>1, SeqPush, SMTT(30)
  <2> QED
    BY <1>0, <1>1, <1>2, <2>2
<1>4. BoardTypeOK'
  BY <1>1, <1>2, <1>3 DEF BoardTypeOK
<1>5. CountedSaved'
  <2>1. \A a \in Elems(announcements) : a <= Len(saved) /\ a \in Nat
    BY <1>0, SeqShape DEF CountedSaved
  <2> QED
    BY <1>0, <1>1, <1>2, <1>3, <2>1 DEF CountedSaved
<1>6. \A x : Oldest(x, counted)' = Oldest(x, counted)
  <2>1. \A x, n : n \in Nat /\ n <= Len(saved) => Oldest(x, n)' = Oldest(x, n)
    BY <1>0, <1>1, OldestKept
  <2>2. ASSUME NEW x PROVE Oldest(x, counted)' = Oldest(x, counted)
    <3>1. PICK n : n = counted
      OBVIOUS
    <3>2. counted' = n
      BY <1>1, <3>1
    <3>3. Oldest(x, n)' = Oldest(x, n)
      BY <1>0, <2>1, <3>1
    <3>4. Oldest(x, counted)' = Oldest(x, n)'
      BY <3>2 DEF Oldest
    <3> QED
      BY <3>1, <3>3, <3>4
  <2> QED
    BY <2>2
<1>7. ReadBehind'
  BY <1>1, <1>6 DEF ReadBehind, ReadSoFar
<1>8. BoardCurrent'
  BY <1>1, <1>6 DEF BoardCurrent
<1> QED
  BY <1>4, <1>5, <1>7, <1>8

LEMMA Bump_Inv ==
    ASSUME BoardInv, NEW acked \in BOOLEAN, Bump(acked)
    PROVE  BoardInv'
<1> USE DEF BoardInv
<1>0. /\ announcements \in Seq(Nat) /\ mishaps \in Nat /\ Len(saved) \in Nat
      /\ counted \in Nat /\ counted <= Len(saved) /\ revision \in Nat /\ boards \in Nat
  BY LenProperties DEF BoardTypeOK, CountedSaved
<1>1. /\ announcements # << >> /\ revision' = revision + 1
      /\ counted' = IF Head(announcements) > counted THEN Head(announcements) ELSE counted
      /\ announcements' = Tail(announcements) \/ announcements' = announcements
      /\ listening' \in BOOLEAN /\ mishaps' \in Nat
      /\ UNCHANGED << saved, active, boards, tab, loads >>
  BY <1>0 DEF Bump
<1>2. /\ Tail(announcements) \in Seq(Nat) /\ Head(announcements) \in Nat
      /\ Elems(announcements) = {Head(announcements)} \cup Elems(Tail(announcements))
  BY <1>0, <1>1, SeqPop, SMTT(30)
<1>3. announcements' \in Seq(Nat) /\ Elems(announcements') \subseteq Elems(announcements)
  BY <1>0, <1>1, <1>2
<1>4. counted' \in Nat /\ counted' <= Len(saved)
  BY <1>0, <1>1, <1>2 DEF CountedSaved
<1>5. BoardTypeOK'
  BY <1>0, <1>1, <1>3, <1>4 DEF BoardTypeOK
<1>6. CountedSaved'
  BY <1>1, <1>3, <1>4 DEF CountedSaved
<1>7. tab.rev \in Nat /\ \A l \in Load : loads[l].read \in Nat
  BY DEF BoardTypeOK, Tab, PageLoad
<1>8. \A l \in Load : ReadSoFar(loads[l])'
  <2> TAKE l \in Load
  <2>1. ReadSoFar(loads[l]) /\ loads[l].read \in Nat
    BY <1>7 DEF ReadBehind
  <2> QED
    BY <1>0, <1>1, <2>1 DEF ReadSoFar
<1>9. ReadBehind' /\ BoardCurrent'
  BY <1>0, <1>1, <1>7, <1>8 DEF ReadBehind, BoardCurrent
<1> QED
  BY <1>5, <1>6, <1>9

LEMMA BoardRestart_Inv == ASSUME BoardInv, BoardRestart PROVE BoardInv'
<1> USE DEF BoardInv
<1>0. boards \in Nat /\ tab \in Tab /\ loads \in [Load -> PageLoad]
  BY DEF BoardTypeOK
<1>1. /\ boards' = boards + 1 /\ listening' = TRUE /\ revision' = 0 /\ counted' = 0
      /\ UNCHANGED << saved, active, announcements, mishaps, tab >>
      /\ \A l \in Load : loads'[l] \in {NoLoad, loads[l]}
      /\ loads' = [l \in Load |-> IF loads[l].asked = "rev" /\ loads[l].state # "meta"
                                  THEN NoLoad ELSE loads[l]]
  BY DEF BoardRestart
<1>2. loads' \in [Load -> PageLoad]
  BY <1>0, <1>1, FreshLoad
<1>3. BoardTypeOK'
  BY <1>0, <1>1, <1>2 DEF BoardTypeOK
<1>4. CountedSaved'
  BY <1>1, LenProperties DEF CountedSaved, BoardTypeOK
<1>5. \A l \in Load : loads'[l].run <= boards
  <2>1. \A l \in Load : loads[l].run <= boards
    BY DEF ReadBehind, ReadSoFar
  <2> QED
    BY <1>0, <1>1, <2>1, FreshLoad
<1>6. \A l \in Load : loads'[l].run \in Nat /\ loads'[l].run < boards'
  BY <1>0, <1>1, <1>2, <1>5 DEF PageLoad
<1>7. tab'.run < boards' /\ tab'.run \in Nat
  BY <1>0, <1>1 DEF ReadBehind, Tab
<1>8. ReadBehind'
  BY <1>6, <1>7, <1>0, <1>1 DEF ReadBehind, ReadSoFar
<1>9. BoardCurrent'
  BY <1>7, <1>0, <1>1 DEF BoardCurrent
<1> QED
  BY <1>3, <1>4, <1>8, <1>9

\* A step of the page: one load moves on, and the page stays or takes its answer.
LEMMA PageStep ==
    ASSUME BoardInv, NEW l \in Load, NEW r \in PageLoad, loads' = [loads EXCEPT ![l] = r],
           UNCHANGED << saved, active, board >>, mishaps' \in Nat,
           ReadSoFar(r), tab' \in Tab,
           \/ /\ tab'.rev = tab.rev /\ tab'.run = tab.run /\ tab'.half = tab.half
              /\ tab'.shown = tab.shown /\ tab'.of = tab.of
           \/ /\ tab'.rev = loads[l].read /\ tab'.run = loads[l].run /\ loads[l].asked = "list"
              /\ \/ tab'.half
                 \/ /\ loads[l].state = "summaries"
                    /\ tab'.shown = loads[l].list /\ tab'.of = loads[l].session
    PROVE  BoardInv'
<1> USE DEF BoardInv
<1>1. /\ UNCHANGED << saved, active, announcements, listening, revision, counted, boards >>
  BY DEF board
<1>2. loads \in [Load -> PageLoad]
  BY DEF BoardTypeOK
<1>3. BoardTypeOK'
  BY <1>1, <1>2 DEF BoardTypeOK
<1>4. CountedSaved'
  BY <1>1 DEF CountedSaved
<1>5. \A x : ReadSoFar(x)' <=> ReadSoFar(x)
  BY <1>1 DEF ReadSoFar, Oldest
<1>6. \A k \in Load : ReadSoFar(loads'[k])
  BY <1>2 DEF ReadBehind
<1>7. ReadSoFar(loads[l])
  BY DEF ReadBehind
<1>8. ReadBehind'
  <2>1. tab'.run <= boards /\ (tab'.run = boards => tab'.rev <= revision)
    BY <1>7 DEF ReadBehind, ReadSoFar
  <2>2. \A k \in Load : ReadSoFar(loads[k])'
    BY <1>1, <1>6 DEF ReadSoFar, Oldest
  <2> QED
    BY <1>1, <2>1, <2>2 DEF ReadBehind
<1>9. BoardCurrent'
  <2>1. \A x : Oldest(x, counted)' = Oldest(x, counted)
    BY <1>1 DEF Oldest
  <2>2. tab'.rev = revision /\ tab'.run = boards /\ ~tab'.half
           => Oldest(tab'.of, counted) \subseteq tab'.shown
    BY <1>7 DEF BoardCurrent, ReadSoFar
  <2> QED
    BY <1>1, <2>2 DEF BoardCurrent, Oldest
<1> QED
  BY <1>3, <1>4, <1>8, <1>9

LEMMA Page_Inv ==
    ASSUME BoardInv, NEW l \in Load,
           \/ Poll(l) \/ (\E s \in Session : Click(l, s)) \/ ReadRevision(l) \/ ReadStore(l)
           \/ Meta(l) \/ Sessions(l) \/ Summaries(l) \/ RequestFails(l)
    PROVE  BoardInv'
<1>0. /\ boards \in Nat /\ revision \in Nat /\ counted \in Nat /\ mishaps \in Nat /\ tab \in Tab
      /\ loads \in [Load -> PageLoad] /\ loads[l] \in PageLoad /\ active \in Place
      /\ Len(saved) \in Nat /\ counted <= Len(saved) /\ Absent \in Place
      /\ ReadSoFar(loads[l])
  BY LenProperties DEF BoardInv, BoardTypeOK, CountedSaved, ReadBehind, Place
<1>1. \A r : r.asked = "no" /\ r.run = 0 => ReadSoFar(r)
  BY <1>0 DEF ReadSoFar
<1>2. ReadSoFar(NoLoad) /\ NoLoad \in PageLoad
  BY <1>1, FreshLoad
<1>3. \A state \in {"meta", "sessions", "summaries"}, s \in Place :
         ReadSoFar(Request(state, s)) /\ Request(state, s) \in PageLoad
  BY <1>1, FreshLoad
<1>4. CASE Poll(l)
  BY <1>0, <1>3, <1>4, PageStep DEF Poll
<1>5. ASSUME NEW s \in Session, Click(l, s) PROVE BoardInv'
  <2>1. /\ tab' = [tab EXCEPT !.selected = s] /\ s \in Place
        /\ loads' = [loads EXCEPT ![l] = Request("summaries", s)]
        /\ UNCHANGED << saved, active, board >> /\ mishaps' = mishaps
    BY <1>5 DEF Click, Place
  <2>2. /\ tab' \in Tab /\ tab'.rev = tab.rev /\ tab'.run = tab.run /\ tab'.half = tab.half
        /\ tab'.shown = tab.shown /\ tab'.of = tab.of
    BY <1>0, <2>1 DEF Tab
  <2> QED
    BY <1>0, <1>3, <2>1, <2>2, PageStep
<1>6. CASE ReadRevision(l)
  <2> DEFINE r == [loads[l] EXCEPT !.asked = "rev", !.read = revision, !.run = boards]
  <2>1. /\ loads' = [loads EXCEPT ![l] = r]
        /\ UNCHANGED << saved, active, board, tab >> /\ mishaps' = mishaps
    BY <1>0, <1>6 DEF ReadRevision
  <2>2. r \in PageLoad /\ r.asked = "rev" /\ r.read = revision /\ r.run = boards
    BY <1>0 DEF PageLoad
  <2>3. ReadSoFar(r)
    BY <1>0, <2>2 DEF ReadSoFar
  <2> HIDE DEF r
  <2> QED
    BY <1>0, <2>1, <2>2, <2>3, PageStep
<1>7. CASE ReadStore(l)
  <2> DEFINE s == IF loads[l].state = "sessions" THEN active ELSE loads[l].session
             L == IF loads[l].state = "sessions" THEN {}
                  ELSE Oldest(loads[l].session, Len(saved))
             r == [loads[l] EXCEPT !.asked = "list", !.session = s, !.list = L]
  <2>1. /\ loads' = [loads EXCEPT ![l] = r] /\ loads[l].asked = "rev"
        /\ UNCHANGED << saved, active, board, tab >> /\ mishaps' = mishaps
    BY <1>0, <1>7 DEF ReadStore
  <2>2. s \in Place /\ L \subseteq Nat
    BY <1>0, OldestGrows DEF PageLoad
  <2>3. /\ r \in PageLoad /\ r.asked = "list" /\ r.read = loads[l].read /\ r.run = loads[l].run
        /\ r.state = loads[l].state /\ r.session = s /\ r.list = L
    <3> HIDE DEF s, L
    <3> QED
      BY <1>0, <2>2 DEF PageLoad
  <2>4. r.state = "summaries" => Oldest(r.session, counted) \subseteq r.list
    <3>1. \A x : Oldest(x, counted) \subseteq Oldest(x, Len(saved))
      BY <1>0, OldestGrows
    <3> QED
      BY <2>3, <3>1
  <2> HIDE DEF r
  <2>5. ReadSoFar(r)
    BY <1>0, <2>1, <2>3, <2>4 DEF ReadSoFar
  <2> QED
    BY <1>0, <2>1, <2>3, <2>5, PageStep
<1>8. CASE Meta(l)
  <2>1. PICK r \in {NoLoad, Request("sessions", Absent)} : loads' = [loads EXCEPT ![l] = r]
    BY <1>8 DEF Meta
  <2>2. UNCHANGED << saved, active, board, tab >> /\ mishaps' = mishaps
    BY <1>8 DEF Meta
  <2> QED
    BY <1>0, <1>2, <1>3, <2>1, <2>2, PageStep
<1>9. CASE Sessions(l)
  <2> DEFINE target == IF tab.selected # Absent THEN tab.selected ELSE loads[l].session
  <2>1. /\ tab' = [tab EXCEPT !.rev = loads[l].read, !.run = loads[l].run, !.half = TRUE,
                              !.listed = TRUE, !.selected = target]
        /\ loads' = [loads EXCEPT ![l] = IF target = Absent THEN NoLoad
                                         ELSE Request("summaries", target)]
        /\ loads[l].asked = "list" /\ UNCHANGED << saved, active, board >> /\ mishaps' = mishaps
    BY <1>9 DEF Sessions
  <2>2. target \in Place /\ loads[l].read \in Nat /\ loads[l].run \in Nat
    BY <1>0 DEF Tab, PageLoad
  <2> HIDE DEF target
  <2>3. tab' \in Tab /\ tab'.rev = loads[l].read /\ tab'.run = loads[l].run /\ tab'.half = TRUE
    BY <1>0, <2>1, <2>2 DEF Tab
  <2>4. PICK r \in {NoLoad, Request("summaries", target)} : loads' = [loads EXCEPT ![l] = r]
    BY <2>1
  <2>5. r \in PageLoad /\ ReadSoFar(r)
    BY <1>2, <1>3, <2>2, <2>4
  <2> QED
    BY <1>0, <2>1, <2>3, <2>4, <2>5, PageStep
<1>10. CASE Summaries(l)
  <2>1. /\ tab' = [tab EXCEPT !.rev = loads[l].read, !.run = loads[l].run, !.half = FALSE,
                              !.shown = loads[l].list, !.of = loads[l].session]
        /\ loads' = [loads EXCEPT ![l] = NoLoad]
        /\ loads[l].state = "summaries" /\ loads[l].asked = "list"
        /\ UNCHANGED << saved, active, board >> /\ mishaps' = mishaps
    BY <1>10 DEF Summaries, Shows
  <2>2. /\ loads[l].read \in Nat /\ loads[l].run \in Nat /\ loads[l].list \subseteq Nat
        /\ loads[l].session \in Place
    BY <1>0 DEF PageLoad
  <2>3. /\ tab' \in Tab /\ tab'.rev = loads[l].read /\ tab'.run = loads[l].run
        /\ tab'.shown = loads[l].list /\ tab'.of = loads[l].session
    BY <1>0, <2>1, <2>2 DEF Tab
  <2> QED
    BY <1>0, <1>2, <2>1, <2>3, PageStep
<1>11. CASE RequestFails(l)
  <2>1. /\ loads' = [loads EXCEPT ![l] = NoLoad] /\ mishaps' = mishaps + 1
        /\ UNCHANGED << saved, active, board, tab >>
    BY <1>11 DEF RequestFails
  <2>2. /\ mishaps' \in Nat /\ tab' = tab /\ tab' \in Tab
        /\ tab'.rev = tab.rev /\ tab'.run = tab.run /\ tab'.half = tab.half
        /\ tab'.shown = tab.shown /\ tab'.of = tab.of
    BY <1>0, <2>1
  <2>3. UNCHANGED << saved, active, board >>
    BY <2>1
  <2>4. loads' = [loads EXCEPT ![l] = NoLoad]
    BY <2>1
  <2> QED
    BY <1>2, <2>2, <2>3, <2>4, PageStep
<1> QED
  BY <1>4, <1>5, <1>6, <1>7, <1>8, <1>9, <1>10, <1>11

LEMMA BoardNext_Inv == BoardInv /\ [BoardNext]_boardVars => BoardInv'
<1> SUFFICES ASSUME BoardInv, [BoardNext]_boardVars PROVE BoardInv'
  OBVIOUS
<1>1. CASE ListenerEnds \/ UNCHANGED boardVars \/ \E s \in Session : Activate(s)
  <2>0. mishaps \in Nat /\ listening \in BOOLEAN /\ active \in Place
    BY DEF BoardInv, BoardTypeOK
  <2>1. /\ UNCHANGED << saved, announcements, revision, counted, boards, tab, loads >>
        /\ listening' \in BOOLEAN /\ mishaps' \in Nat /\ active' \in Place
    <3>1. CASE ListenerEnds
      <4>1. mishaps' = mishaps + 1 /\ mishaps' \in Nat
        BY <2>0, <3>1 DEF ListenerEnds
      <4>2. /\ listening' = FALSE
            /\ UNCHANGED << saved, active, announcements, revision, counted, boards, tab,
                            loads >>
        BY <3>1, Zenon DEF ListenerEnds
      <4> QED
        BY <2>0, <4>1, <4>2, Zenon
    <3>2. CASE UNCHANGED boardVars
      BY <2>0, <3>2 DEF boardVars
    <3>3. CASE \E s \in Session : Activate(s)
      BY <2>0, <3>3 DEF Activate, board, Place
    <3> QED
      BY <1>1, <3>1, <3>2, <3>3
  <2>2. BoardTypeOK' /\ CountedSaved'
    BY <2>1 DEF BoardInv, BoardTypeOK, CountedSaved
  <2>3. ReadBehind'
    BY <2>1 DEF BoardInv, ReadBehind, ReadSoFar, Oldest
  <2>4. BoardCurrent'
    BY <2>1 DEF BoardInv, BoardCurrent, Oldest
  <2> QED
    BY <2>2, <2>3, <2>4 DEF BoardInv
<1> QED
  BY <1>1, Summary_Inv, Bump_Inv, BoardRestart_Inv, Page_Inv DEF BoardNext

LEMMA BoardSpec_Inv == BoardSpec => []BoardInv
<1> QED
  BY BoardInit_Inv, BoardNext_Inv, PTL DEF BoardSpec

\* Every variable of the board and of its page stays within its type.
THEOREM BoardTyping == BoardSpec => []BoardTypeOK
<1>1. BoardInv => BoardTypeOK
  BY DEF BoardInv
<1> QED
  BY <1>1, BoardSpec_Inv, PTL

\* However loads and clicks cross, a page that no poll would make load again shows every
\* counted summary of its session that the board shows at all, the oldest BoardLimit, unless
\* its revision came with a list of sessions alone or from an earlier process
\* (http_server.do_GET, service.list_summaries, board.html loadSessions and loadSummaries).
THEOREM BoardPageCurrent == BoardSpec => []BoardCurrent
<1>1. BoardInv => BoardCurrent
  BY DEF BoardInv
<1> QED
  BY <1>1, BoardSpec_Inv, PTL

-----------------------------------------------------------------------------
(* OAuthTokens *)

OAuthTypeOK ==
    /\ single \in BOOLEAN /\ legacy \in Nat /\ env \in [Role -> Nat] /\ due \in [Role -> Nat]
    /\ issued \in Nat /\ proc \in {"down", "up", "asked", "answered"} /\ asking \in Role
    /\ mine \in [Role -> Nat] /\ spent \in [Role -> SUBSET Nat] /\ given \in [Role -> Nat]
    /\ believed \in [Role -> Nat] /\ left \in [Role -> Nat]
    /\ answer \in [token : Nat, life : Nat, age : Nat]
    /\ auth \in {"idle", "waiting", "exchange", "validate"} /\ authRole \in Role
    /\ authCode \in BOOLEAN /\ authError \in BOOLEAN /\ authToken \in Nat

\* The expiry that is believed is late by a request at most, which it is only known after.
ExpiryClose ==
    /\ \A r \in Role : believed[r] # Static => believed[r] <= left[r] + Latency
    /\ proc = "answered" => answer.age <= Latency /\ Life <= answer.life + answer.age

\* Refresh tokens are numbered as they are issued, and one on its way is newer than any the
\* process has had.
NoneFromAhead ==
    /\ legacy <= issued /\ authToken <= issued /\ answer.token <= issued
    /\ \A r \in Role : env[r] <= issued /\ mine[r] <= issued
    /\ \A r \in Role : \A t \in spent[r] : t <= issued

NewerOnItsWay ==
    /\ \A r \in Role : mine[r] \notin spent[r]
    /\ proc = "answered" /\ answer.token # None =>
          \A r \in Role : mine[r] < answer.token /\ \A t \in spent[r] : t < answer.token

\* The roles hold the same token only while both hold the one they started with; only that
\* one can be held by a role when the other has exchanged it.
SharedAtStart ==
    \A r, s \in Role : r # s /\ (mine[r] = mine[s] \/ mine[r] \in spent[s]) =>
        mine[r] = given[r] /\ given[r] = given[s]

\* What was authorized last is what a process reads now; with one account the channel's.
AuthorizedRead ==
    /\ \A r \in Role : due[r] # None => due[r] = Resolved(r)
    /\ single /\ (\E r \in Role : due[r] # None) => env["channel"] # None
    /\ auth = "validate" => authToken # None

OAuthInv ==
    OAuthTypeOK /\ ExpiryClose /\ NoneFromAhead /\ NewerOnItsWay /\ SharedAtStart /\ AuthorizedRead

LEMMA OAuthInit_Inv == OAuthInit => OAuthInv
<1> SUFFICES ASSUME OAuthInit PROVE OAuthInv
  OBVIOUS
<1>1. Life \in Nat /\ Latency \in Nat /\ Silence = [token |-> 0, life |-> 0, age |-> 0]
  BY OAuthAssumption DEF Silence, None
<1>2. /\ legacy \in {0, 1} /\ env \in [Role -> Nat] /\ \A r \in Role : env[r] <= 2
      /\ single \in BOOLEAN /\ issued = 2 /\ proc = "down"
  BY DEF OAuthInit, None, Role
<1>3. OAuthTypeOK
  <2>1. single \in BOOLEAN /\ legacy \in Nat /\ env \in [Role -> Nat] /\ due \in [Role -> Nat]
    BY <1>2 DEF OAuthInit, None
  <2>2. /\ issued \in Nat /\ proc \in {"down", "up", "asked", "answered"} /\ asking \in Role
        /\ mine \in [Role -> Nat] /\ spent \in [Role -> SUBSET Nat] /\ given \in [Role -> Nat]
    BY DEF OAuthInit, None, Role
  <2>3. believed \in [Role -> Nat] /\ left \in [Role -> Nat]
    BY DEF OAuthInit, None
  <2>4. answer \in [token : Nat, life : Nat, age : Nat]
    BY DEF OAuthInit, Silence, None
  <2>5. /\ auth \in {"idle", "waiting", "exchange", "validate"} /\ authRole \in Role
        /\ authCode \in BOOLEAN /\ authError \in BOOLEAN /\ authToken \in Nat
    BY DEF OAuthInit, None, Role
  <2> QED
    BY <2>1, <2>2, <2>3, <2>4, <2>5 DEF OAuthTypeOK
<1>4. ExpiryClose
  BY <1>1 DEF OAuthInit, ExpiryClose, None
<1>5. NoneFromAhead
  BY <1>2 DEF OAuthInit, NoneFromAhead, None, Silence
<1>6. NewerOnItsWay
  BY DEF OAuthInit, NewerOnItsWay
<1>8. SharedAtStart
  BY DEF OAuthInit, SharedAtStart
<1>7. AuthorizedRead
  BY DEF OAuthInit, AuthorizedRead
<1> QED
  BY <1>3, <1>4, <1>5, <1>6, <1>7, <1>8 DEF OAuthInv

\* A role reads a token that was issued.
LEMMA ResolvedIssued ==
    ASSUME OAuthTypeOK, NoneFromAhead, NEW r \in Role
    PROVE  Resolved(r) \in Nat /\ Resolved(r) <= issued
BY DEF OAuthTypeOK, NoneFromAhead, Resolved, Or, Role

LEMMA StartProcess_Inv ==
    ASSUME OAuthInv, NEW static \in BOOLEAN, StartProcess(static)
    PROVE  OAuthInv'
<1> USE DEF OAuthInv
<1>1. /\ proc' = "up" /\ mine' = [r \in Role |-> Resolved(r)]
      /\ believed' = [r \in Role |-> IF static THEN Static ELSE None]
      /\ left' = [r \in Role |-> IF static THEN Life ELSE 0]
      /\ spent' = [r \in Role |-> {}] /\ given' = mine'
      /\ UNCHANGED << single, legacy, env, due, issued, asking, answer, auth, authRole, authCode,
                      authError, authToken >>
  BY DEF StartProcess, files, twitch, authVars
<1>2. \A r \in Role : mine'[r] \in Nat /\ mine'[r] <= issued
  BY <1>1, ResolvedIssued
<1>3. /\ mine' \in [Role -> Nat] /\ believed' \in [Role -> Nat] /\ left' \in [Role -> Nat]
      /\ spent' \in [Role -> SUBSET Nat] /\ given' \in [Role -> Nat]
  BY <1>1, <1>2, OAuthAssumption DEF Static, None
<1>4. OAuthTypeOK'
  BY <1>1, <1>3 DEF OAuthTypeOK
<1>5. ExpiryClose'
  BY <1>1, OAuthAssumption DEF ExpiryClose, Static, None
<1>6. NoneFromAhead'
  BY <1>1, <1>2 DEF NoneFromAhead
<1>7. NewerOnItsWay'
  BY <1>1 DEF NewerOnItsWay
<1>8. AuthorizedRead'
  BY <1>1 DEF AuthorizedRead, Resolved
<1>9. SharedAtStart'
  BY <1>1 DEF SharedAtStart
<1> QED
  BY <1>4, <1>5, <1>6, <1>7, <1>8, <1>9

LEMMA EndProcess_Inv == ASSUME OAuthInv, EndProcess PROVE OAuthInv'
<1> USE DEF OAuthInv
<1>1. /\ proc' = "down" /\ mine' = [r \in Role |-> None]
      /\ believed' = [r \in Role |-> None] /\ left' = [r \in Role |-> 0]
      /\ spent' = [r \in Role |-> {}] /\ answer' = Silence /\ given' = mine'
      /\ UNCHANGED << single, legacy, env, due, issued, asking, auth, authRole, authCode,
                      authError, authToken >>
  BY DEF EndProcess, files, twitch, authVars
<1>2. OAuthTypeOK'
  BY <1>1 DEF OAuthTypeOK, Silence, None
<1>3. ExpiryClose'
  BY <1>1, OAuthAssumption DEF ExpiryClose, None
<1>4. NoneFromAhead'
  BY <1>1 DEF NoneFromAhead, None, OAuthTypeOK, Silence
<1>5. NewerOnItsWay'
  BY <1>1 DEF NewerOnItsWay
<1>6. AuthorizedRead'
  BY <1>1 DEF AuthorizedRead, Resolved
<1>7. SharedAtStart'
  BY <1>1 DEF SharedAtStart
<1> QED
  BY <1>2, <1>3, <1>4, <1>5, <1>6, <1>7

LEMMA Exchanged_Inv ==
    ASSUME OAuthInv, NEW rotate \in BOOLEAN, Exchanged(rotate)
    PROVE  OAuthInv'
<1> USE DEF OAuthInv
<1>1. /\ proc = "asked" /\ proc' = "answered"
      /\ issued' = IF rotate THEN issued + 1 ELSE issued
      /\ answer' = [token |-> IF rotate THEN issued' ELSE None, life |-> Life, age |-> 0]
      /\ UNCHANGED << single, legacy, env, due, asking, mine, believed, left, spent, given, auth,
                      authRole, authCode, authError, authToken >>
  BY DEF Exchanged, files, twitch, tokens, authVars
<1>2. issued \in Nat /\ issued' \in Nat /\ issued <= issued'
  BY <1>1 DEF OAuthTypeOK
<1>3. OAuthTypeOK'
  BY <1>1, <1>2, OAuthAssumption DEF OAuthTypeOK, None
<1>4. ExpiryClose'
  BY <1>1, OAuthAssumption DEF ExpiryClose
<1>5. NoneFromAhead'
  <2>1. /\ legacy \in Nat /\ authToken \in Nat
        /\ \A r \in Role : env[r] \in Nat /\ mine[r] \in Nat /\ spent[r] \subseteq Nat
    BY DEF OAuthTypeOK
  <2> QED
    BY <1>1, <1>2, <2>1 DEF NoneFromAhead, None
<1>6. NewerOnItsWay'
  <2>1. \A r \in Role : mine[r] \in Nat /\ spent[r] \subseteq Nat
    BY DEF OAuthTypeOK
  <2>2. answer'.token # None => answer'.token = issued + 1
    BY <1>1
  <2> QED
    BY <1>1, <1>2, <2>1, <2>2 DEF NewerOnItsWay, NoneFromAhead
<1>7. AuthorizedRead' /\ SharedAtStart'
  BY <1>1 DEF AuthorizedRead, Resolved, SharedAtStart
<1> QED
  BY <1>3, <1>4, <1>5, <1>6, <1>7

LEMMA Arrive_Inv ==
    ASSUME OAuthInv, NEW expires \in BOOLEAN, Arrive(expires)
    PROVE  OAuthInv'
<1> USE DEF OAuthInv
<1>1. /\ proc = "answered" /\ proc' = "up" /\ asking \in Role
      /\ mine' = [mine EXCEPT ![asking] = Or(answer.token, mine[asking])]
      /\ spent' = [spent EXCEPT ![asking] =
                      IF answer.token # None THEN spent[asking] \cup {mine[asking]}
                                             ELSE spent[asking]]
      /\ left' = [left EXCEPT ![asking] = answer.life]
      /\ believed' = [believed EXCEPT ![asking] = IF expires THEN Life ELSE Static]
      /\ answer' = Silence
      /\ UNCHANGED << single, legacy, env, due, issued, asking, given, auth, authRole,
                      authCode, authError, authToken >>
  BY DEF Arrive, files, twitch, authVars, OAuthTypeOK
<1>2. answer.token \in Nat /\ answer.life \in Nat /\ answer.age \in Nat /\ Static \in Nat
  BY OAuthAssumption DEF OAuthTypeOK, Static
<1>3. /\ mine \in [Role -> Nat] /\ spent \in [Role -> SUBSET Nat]
      /\ left \in [Role -> Nat] /\ believed \in [Role -> Nat]
  BY DEF OAuthTypeOK
<1>4. /\ mine' \in [Role -> Nat] /\ spent' \in [Role -> SUBSET Nat]
      /\ left' \in [Role -> Nat] /\ believed' \in [Role -> Nat]
  BY <1>1, <1>2, <1>3, OAuthAssumption DEF Or
<1>5. OAuthTypeOK'
  BY <1>1, <1>4 DEF OAuthTypeOK, Silence, None
<1>6. ExpiryClose'
  <2>1. Life <= answer.life + Latency
    BY <1>1, <1>2, OAuthAssumption DEF ExpiryClose
  <2>2. \A r \in Role : believed'[r] # Static => believed'[r] <= left'[r] + Latency
    BY <1>1, <1>3, <2>1 DEF ExpiryClose
  <2> QED
    BY <1>1, <2>2 DEF ExpiryClose
<1>9. issued \in Nat
  BY DEF OAuthTypeOK
<1>7. CASE answer.token = None
  <2>1. mine' = mine /\ spent' = spent
    BY <1>1, <1>3, <1>7 DEF Or
  <2> QED
    BY <1>1, <1>5, <1>6, <1>7, <2>1 DEF NoneFromAhead, NewerOnItsWay, SharedAtStart,
      AuthorizedRead, Resolved, Silence
<1>8. CASE answer.token # None
  <2>1. /\ mine'[asking] = answer.token /\ spent'[asking] = spent[asking] \cup {mine[asking]}
        /\ \A r \in Role \ {asking} : mine'[r] = mine[r] /\ spent'[r] = spent[r]
    BY <1>1, <1>3, <1>8 DEF Or
  <2>2. \A r \in Role : mine[r] < answer.token /\ \A t \in spent[r] : t < answer.token
    BY <1>1, <1>8 DEF NewerOnItsWay
  <2>3. answer.token \notin spent'[asking]
    BY <1>1, <1>2, <2>1, <2>2
  <2>4. NewerOnItsWay'
    BY <1>1, <2>1, <2>3 DEF NewerOnItsWay
  <2>5. answer.token <= issued
    BY <1>1, <1>8 DEF NoneFromAhead, NewerOnItsWay
  <2>6. NoneFromAhead'
    BY <1>1, <1>9, <2>1, <2>5 DEF NoneFromAhead, Silence, None
  <2>7. SharedAtStart'
    <3> SUFFICES ASSUME NEW r \in Role, NEW s \in Role, r # s,
                        mine'[r] = mine'[s] \/ mine'[r] \in spent'[s]
                 PROVE  mine'[r] = given[r] /\ given[r] = given[s]
      BY <1>1 DEF SharedAtStart
    <3>1. /\ mine[r] \in Nat /\ mine[s] \in Nat /\ mine[r] < answer.token
          /\ mine[s] < answer.token /\ answer.token \notin spent[s]
      BY <1>2, <1>3, <2>2
    <3>2. r # asking
      BY <1>2, <2>1, <3>1
    <3>3. mine'[r] = mine[r] /\ mine'[r] # answer.token
      BY <1>2, <2>1, <3>1, <3>2
    <3>4. mine[r] = mine[s] \/ mine[r] \in spent[s]
      BY <2>1, <3>3
    <3> QED
      BY <3>3, <3>4 DEF SharedAtStart
  <2> QED
    BY <1>1, <1>5, <1>6, <2>4, <2>6, <2>7 DEF AuthorizedRead, Resolved
<1> QED
  BY <1>7, <1>8

\* A request, a tick and what others do to the tokens at Twitch.
LEMMA Ask_Inv == ASSUME OAuthInv, NEW r \in Role, Ask(r) PROVE OAuthInv'
<1> USE DEF OAuthInv
<1>1. /\ proc' = "asked" /\ asking' = r
      /\ UNCHANGED << single, legacy, env, due, issued, mine, believed, left, spent, given,
                      answer, auth, authRole, authCode, authError, authToken >>
  BY DEF Ask, files, twitch, tokens, authVars
<1>2. OAuthTypeOK'
  BY <1>1 DEF OAuthTypeOK
<1>3. ExpiryClose' /\ NoneFromAhead' /\ NewerOnItsWay' /\ SharedAtStart'
  BY <1>1 DEF ExpiryClose, NoneFromAhead, NewerOnItsWay, SharedAtStart
<1>4. AuthorizedRead'
  BY <1>1 DEF AuthorizedRead, Resolved
<1> QED
  BY <1>2, <1>3, <1>4

LEMMA Elsewhere_Inv == ASSUME OAuthInv, NEW t, Elsewhere(t) PROVE OAuthInv'
<1> USE DEF OAuthInv
<1>1. UNCHANGED << single, legacy, env, due, issued, proc, asking, mine, believed, left, spent,
                   given, answer, auth, authRole, authCode, authError, authToken >>
  BY DEF Elsewhere, files, tokens, authVars
<1>2. OAuthTypeOK'
  BY <1>1 DEF OAuthTypeOK
<1>3. ExpiryClose' /\ NoneFromAhead' /\ NewerOnItsWay' /\ SharedAtStart'
  BY <1>1 DEF ExpiryClose, NoneFromAhead, NewerOnItsWay, SharedAtStart
<1>4. AuthorizedRead'
  BY <1>1 DEF AuthorizedRead, Resolved
<1> QED
  BY <1>2, <1>3, <1>4

LEMMA TokensTick_Inv == ASSUME OAuthInv, Tick PROVE OAuthInv'
<1> USE DEF OAuthInv
<1>1. /\ answer.age < Latency
      /\ believed' = [r \in Role |-> IF believed[r] = Static THEN Static ELSE Down(believed[r])]
      /\ left' = [r \in Role |-> Down(left[r])]
      /\ answer' = IF proc = "answered"
                   THEN [answer EXCEPT !.life = Down(answer.life), !.age = answer.age + 1]
                   ELSE answer
      /\ UNCHANGED << single, legacy, env, due, issued, proc, asking, mine, spent, given, auth,
                      authRole, authCode, authError, authToken >>
  BY DEF Tick, files, twitch, authVars
<1>2. \A n \in Nat : Down(n) \in Nat /\ Down(n) <= n /\ n <= Down(n) + 1
  BY DEF Down
<1>3. /\ answer.token \in Nat /\ answer.life \in Nat /\ answer.age \in Nat
      /\ answer \in [token : Nat, life : Nat, age : Nat]
      /\ \A r \in Role : believed[r] \in Nat /\ left[r] \in Nat
  BY DEF OAuthTypeOK
<1>4. /\ answer' \in [token : Nat, life : Nat, age : Nat] /\ answer'.token = answer.token
      /\ proc = "answered" => answer'.life = Down(answer.life) /\ answer'.age = answer.age + 1
  <2>1. CASE proc = "answered"
    <3>1. answer' = [token |-> answer.token, life |-> Down(answer.life), age |-> answer.age + 1]
      BY <1>1, <1>3, <2>1
    <3> QED
      BY <1>2, <1>3, <3>1
  <2>2. CASE proc # "answered"
    BY <1>1, <1>3, <2>2
  <2> QED
    BY <2>1, <2>2
<1>5. Static \in Nat /\ Latency \in Nat /\ Life \in Nat /\ Static = Life + 1
  BY OAuthAssumption DEF Static
<1>6. \A r \in Role : /\ left'[r] = Down(left[r])
                      /\ believed[r] = Static => believed'[r] = Static
                      /\ believed[r] # Static => believed'[r] = Down(believed[r])
  BY <1>1
<1>7. believed' \in [Role -> Nat] /\ left' \in [Role -> Nat]
  BY <1>1, <1>2, <1>3, <1>5
<1>8. OAuthTypeOK'
  BY <1>1, <1>4, <1>7 DEF OAuthTypeOK
<1>9. ExpiryClose'
  <2>1. ASSUME NEW r \in Role, believed'[r] # Static PROVE believed'[r] <= left'[r] + Latency
    <3>1. /\ believed[r] # Static /\ believed'[r] = Down(believed[r])
          /\ left'[r] = Down(left[r])
      BY <1>6, <2>1
    <3>2. believed[r] <= left[r] + Latency
      BY <3>1 DEF ExpiryClose
    <3> QED
      BY <1>3, <1>5, <3>1, <3>2 DEF Down
  <2>2. proc = "answered" => answer'.age <= Latency /\ Life <= answer'.life + answer'.age
    <3> SUFFICES ASSUME proc = "answered"
                 PROVE  answer'.age <= Latency /\ Life <= answer'.life + answer'.age
      OBVIOUS
    <3>1. /\ Life <= answer.life + answer.age /\ answer'.age = answer.age + 1
          /\ answer'.life = Down(answer.life) /\ Down(answer.life) \in Nat
          /\ answer.life <= Down(answer.life) + 1
      BY <1>2, <1>3, <1>4 DEF ExpiryClose
    <3> QED
      BY <1>1, <1>3, <1>5, <3>1
  <2> QED
    BY <1>1, <2>1, <2>2 DEF ExpiryClose
<1>10. NoneFromAhead' /\ NewerOnItsWay' /\ SharedAtStart'
  BY <1>1, <1>4 DEF NoneFromAhead, NewerOnItsWay, SharedAtStart
<1>11. AuthorizedRead'
  BY <1>1 DEF AuthorizedRead, Resolved
<1> QED
  BY <1>8, <1>9, <1>10, <1>11

\* An authorization up to its code.
LEMMA AuthorizeSteps_Inv ==
    ASSUME OAuthInv,
           \/ \E r \in Role : AuthorizeStart(r)
           \/ \E code \in BOOLEAN : Callback(code)
           \/ CallbackSeen
           \/ AuthorizeFails
    PROVE  OAuthInv'
<1> USE DEF OAuthInv
<1>0. /\ auth \in {"idle", "waiting", "exchange", "validate"} /\ authRole \in Role
      /\ authCode \in BOOLEAN /\ authError \in BOOLEAN /\ authToken \in Nat /\ issued \in Nat
  BY DEF OAuthTypeOK
<1>1. /\ auth' \in {"idle", "waiting", "exchange"} /\ authRole' \in Role
      /\ authCode' \in BOOLEAN /\ authError' \in BOOLEAN
      /\ authToken' \in {authToken, None}
      /\ UNCHANGED << single, legacy, env, due, issued, proc, asking, mine, believed, left,
                      spent, given, answer >>
  <2>1. CASE \E r \in Role : AuthorizeStart(r)
    BY <1>0, <2>1 DEF AuthorizeStart, files, twitch, tokens
  <2>2. CASE \E code \in BOOLEAN : Callback(code)
    BY <1>0, <2>2 DEF Callback, files, twitch, tokens
  <2>3. CASE CallbackSeen
    BY <1>0, <2>3 DEF CallbackSeen, files, twitch, tokens
  <2>4. CASE AuthorizeFails
    BY <1>0, <2>4 DEF AuthorizeFails, files, twitch, tokens
  <2> QED
    BY <2>1, <2>2, <2>3, <2>4
<1>2. authToken' \in Nat /\ authToken' <= issued
  BY <1>0, <1>1 DEF NoneFromAhead, None
<1>3. OAuthTypeOK'
  BY <1>1, <1>2 DEF OAuthTypeOK
<1>4. ExpiryClose' /\ NewerOnItsWay' /\ SharedAtStart'
  BY <1>1 DEF ExpiryClose, NewerOnItsWay, SharedAtStart
<1>5. NoneFromAhead'
  BY <1>1, <1>2 DEF NoneFromAhead
<1>6. AuthorizedRead'
  BY <1>1 DEF AuthorizedRead, Resolved
<1> QED
  BY <1>3, <1>4, <1>5, <1>6

LEMMA ExchangeCode_Inv == ASSUME OAuthInv, ExchangeCode PROVE OAuthInv'
<1> USE DEF OAuthInv
<1>1. /\ auth' = "validate" /\ issued' = issued + 1 /\ authToken' = issued + 1
      /\ UNCHANGED << single, legacy, env, due, proc, asking, mine, believed, left, spent,
                      given, answer, authRole, authCode, authError >>
  BY DEF ExchangeCode, files, tokens
<1>2. /\ issued \in Nat /\ legacy \in Nat /\ answer.token \in Nat /\ authToken \in Nat
      /\ \A r \in Role : env[r] \in Nat /\ mine[r] \in Nat /\ spent[r] \subseteq Nat
  BY DEF OAuthTypeOK
<1>3. OAuthTypeOK'
  BY <1>1 DEF OAuthTypeOK
<1>4. ExpiryClose' /\ NewerOnItsWay' /\ SharedAtStart'
  BY <1>1 DEF ExpiryClose, NewerOnItsWay, SharedAtStart
<1>5. NoneFromAhead'
  BY <1>1, <1>2 DEF NoneFromAhead
<1>6. AuthorizedRead'
  BY <1>1, <1>2 DEF AuthorizedRead, Resolved, None
<1> QED
  BY <1>3, <1>4, <1>5, <1>6

LEMMA SaveAuthorization_Inv == ASSUME OAuthInv, SaveAuthorization PROVE OAuthInv'
<1> USE DEF OAuthInv
<1>1. /\ auth = "validate" /\ auth' = "idle" /\ authToken' = None
      /\ env' = [r \in Role |-> IF r \in Updated(authRole) THEN authToken ELSE env[r]]
      /\ due' = [r \in Role |-> IF r \in Served(authRole) THEN authToken ELSE due[r]]
      /\ UNCHANGED << single, legacy, issued, proc, asking, mine, believed, left, spent,
                      given, answer, authRole, authCode, authError >>
  BY DEF SaveAuthorization, twitch, tokens
<1>2. /\ authToken \in Nat /\ issued \in Nat /\ authRole \in Role /\ single \in BOOLEAN
      /\ \A r \in Role : env[r] \in Nat /\ due[r] \in Nat
  BY DEF OAuthTypeOK
<1>3. authToken # None /\ authToken <= issued
  BY <1>1 DEF AuthorizedRead, NoneFromAhead
<1>4. env' \in [Role -> Nat] /\ due' \in [Role -> Nat]
  BY <1>1, <1>2
<1>5. OAuthTypeOK'
  BY <1>1, <1>4 DEF OAuthTypeOK, None
<1>6. ExpiryClose' /\ NewerOnItsWay' /\ SharedAtStart'
  BY <1>1 DEF ExpiryClose, NewerOnItsWay, SharedAtStart
<1>7. NoneFromAhead'
  BY <1>1, <1>2, <1>3 DEF NoneFromAhead, None
<1>8. /\ "channel" \in Role /\ "bot" \in Role
      /\ \A r \in Role : r = "channel" \/ r = "bot"
  BY DEF Role
<1>9. Resolved("channel")' = Or(env'["channel"], legacy)
  BY <1>1 DEF Resolved
<1>10. Resolved("bot")' = IF single THEN Or(Or(env'["channel"], legacy), Or(env'["bot"], legacy))
                                    ELSE Or(env'["bot"], legacy)
  BY <1>1 DEF Resolved
<1>11. Resolved("channel") = Or(env["channel"], legacy)
  BY DEF Resolved
<1>12. Resolved("bot") = IF single THEN Or(Or(env["channel"], legacy), Or(env["bot"], legacy))
                                   ELSE Or(env["bot"], legacy)
  BY DEF Resolved
<1>13. CASE single /\ authRole = "channel"
  <2>1. /\ env'["channel"] = authToken /\ env'["bot"] = authToken
        /\ due'["channel"] = authToken /\ due'["bot"] = authToken
    BY <1>1, <1>8, <1>13 DEF Updated, Served
  <2>2. Resolved("channel")' = authToken /\ Resolved("bot")' = authToken
    BY <1>3, <1>9, <1>10, <2>1 DEF Or
  <2>3. AuthorizedRead'
    BY <1>1, <1>3, <1>8, <2>1, <2>2 DEF AuthorizedRead
  <2> QED
    BY <1>5, <1>6, <1>7, <2>3
<1>14. CASE single /\ authRole = "bot"
  <2>1. /\ env'["channel"] = env["channel"] /\ due' = due
    BY <1>1, <1>2, <1>8, <1>14 DEF Updated, Served, OAuthTypeOK
  <2>2. (\E r \in Role : due[r] # None) => env["channel"] # None
    BY <1>14 DEF AuthorizedRead
  <2>3. env["channel"] # None => /\ Resolved("channel")' = Resolved("channel")
                                 /\ Resolved("bot")' = Resolved("bot")
    BY <1>9, <1>10, <1>11, <1>12, <1>14, <2>1 DEF Or
  <2>4. \A r \in Role : due[r] # None => due[r] = Resolved(r)
    BY DEF AuthorizedRead
  <2>5. due["channel"] # None => due["channel"] = Resolved("channel")'
    BY <1>8, <2>2, <2>3, <2>4
  <2>6. due["bot"] # None => due["bot"] = Resolved("bot")'
    BY <1>8, <2>2, <2>3, <2>4
  <2>7. AuthorizedRead'
    BY <1>1, <1>8, <2>1, <2>2, <2>5, <2>6 DEF AuthorizedRead
  <2> QED
    BY <1>5, <1>6, <1>7, <2>7
<1>15. CASE ~single
  <2>1. \A r \in Role : /\ r = authRole => env'[r] = authToken /\ due'[r] = authToken
                        /\ r # authRole => env'[r] = env[r] /\ due'[r] = due[r]
    BY <1>1, <1>2, <1>8, <1>15 DEF Updated, Served
  <2>2. \A r \in Role : due[r] # None => due[r] = Resolved(r)
    BY DEF AuthorizedRead
  <2>3. due'["channel"] # None => due'["channel"] = Resolved("channel")'
    BY <1>3, <1>8, <1>9, <1>11, <2>1, <2>2 DEF Or
  <2>4. due'["bot"] # None => due'["bot"] = Resolved("bot")'
    BY <1>3, <1>8, <1>10, <1>12, <1>15, <2>1, <2>2 DEF Or
  <2>5. AuthorizedRead'
    BY <1>1, <1>8, <1>15, <2>3, <2>4 DEF AuthorizedRead
  <2> QED
    BY <1>5, <1>6, <1>7, <2>5
<1> QED
  BY <1>2, <1>8, <1>13, <1>14, <1>15

LEMMA OAuthNext_Inv == OAuthInv /\ [OAuthNext]_oauthVars => OAuthInv'
<1> SUFFICES ASSUME OAuthInv, [OAuthNext]_oauthVars PROVE OAuthInv'
  OBVIOUS
<1>1. CASE \E static \in BOOLEAN : StartProcess(static)
  BY <1>1, StartProcess_Inv
<1>2. CASE EndProcess
  BY <1>2, EndProcess_Inv
<1>3. CASE \E r \in Role : Ask(r)
  BY <1>3, Ask_Inv
<1>4. CASE \E yes \in BOOLEAN : Exchanged(yes)
  BY <1>4, Exchanged_Inv
<1>5. CASE \E yes \in BOOLEAN : Arrive(yes)
  BY <1>5, Arrive_Inv
<1>6. CASE \E t \in valid : Elsewhere(t)
  BY <1>6, Elsewhere_Inv
<1>7. CASE Tick
  BY <1>7, TokensTick_Inv
<1>8. CASE \/ \E r \in Role : AuthorizeStart(r)
           \/ \E code \in BOOLEAN : Callback(code)
           \/ CallbackSeen
           \/ AuthorizeFails
  BY <1>8, AuthorizeSteps_Inv
<1>9. CASE ExchangeCode
  BY <1>9, ExchangeCode_Inv
<1>10. CASE SaveAuthorization
  BY <1>10, SaveAuthorization_Inv
<1>11. CASE UNCHANGED oauthVars
  <2>1. UNCHANGED << single, legacy, env, due, issued, proc, asking, mine, believed, left,
                     spent, given, answer, auth, authRole, authCode, authError,
                     authToken >>
    BY <1>11 DEF oauthVars
  <2>2. OAuthTypeOK'
    BY <2>1 DEF OAuthTypeOK, OAuthInv
  <2>3. ExpiryClose' /\ NoneFromAhead' /\ NewerOnItsWay' /\ SharedAtStart'
    BY <2>1 DEF ExpiryClose, NoneFromAhead, NewerOnItsWay, SharedAtStart, OAuthInv
  <2>4. AuthorizedRead'
    BY <2>1 DEF AuthorizedRead, Resolved, OAuthInv
  <2> QED
    BY <2>2, <2>3, <2>4 DEF OAuthInv
<1> QED
  BY <1>1, <1>2, <1>3, <1>4, <1>5, <1>6, <1>7, <1>8, <1>9, <1>10, <1>11 DEF OAuthNext

LEMMA OAuthSpec_Inv == OAuthSpec => []OAuthInv
BY OAuthInit_Inv, OAuthNext_Inv, PTL DEF OAuthSpec

\* The state of the tokens is well formed.
THEOREM OAuthTyping == OAuthSpec => []OAuthTypeOK
<1>1. OAuthInv => OAuthTypeOK
  BY DEF OAuthInv
<1> QED
  BY OAuthSpec_Inv, <1>1, PTL

\* The tokens of a process work: an access token taken for fresh has not expired at Twitch;
\* no role holds a refresh token that this process knows to be rotated away, in whichever
\* role, but for the one token that both roles started with; and what was authorized last
\* is what a process reads at its start (is_access_token_fresh, refresh_access_token,
\* resolve_refresh_token, env_updates_for_authorization).
THEOREM OAuthTokensWork == OAuthSpec => []TokensWork
<1>1. OAuthInv => TokensWork
  <2> SUFFICES ASSUME OAuthInv PROVE TokensWork
    OBVIOUS
  <2>1. ASSUME NEW r \in Role, TokenFresh(r), believed[r] # Static PROVE left[r] > 0
    <3>1. /\ believed[r] \in Nat /\ left[r] \in Nat /\ believed[r] <= left[r] + Latency
          /\ Margin \in Nat /\ Latency \in Nat /\ Latency <= Margin
      BY <2>1, OAuthAssumption DEF OAuthInv, OAuthTypeOK, ExpiryClose
    <3>2. believed[r] > Margin
      BY <2>1 DEF TokenFresh
    <3> QED
      BY <3>1, <3>2
  <2>2. \A r, s \in Role : mine[r] \in spent[s] =>
           r # s /\ given[r] = given[s] /\ mine[r] = given[r]
    BY DEF OAuthInv, NewerOnItsWay, SharedAtStart
  <2>3. \A r \in Role : due[r] \in {None, Resolved(r)}
    BY DEF OAuthInv, AuthorizedRead
  <2> QED
    BY <2>1, <2>2, <2>3 DEF TokensWork
<1> QED
  BY OAuthSpec_Inv, <1>1, PTL

-----------------------------------------------------------------------------
(* ShowOverlay *)

Page == [state : {"idle", "read"}, read : Nat, shown : Seq(Nat), last : Nat, run : Nat]

OverlayTypeOK ==
    /\ heard \in Nat /\ fill \in {"idle", "drain", "refill"} /\ fresh \in Nat
    /\ drained \in Seq(Nat) /\ queue \in Seq(Nat) /\ batch \in Seq(Nat) /\ lines \in Seq(Nat)
    /\ render \in {"wait", "batch", "apply", "count", "dead"}
    /\ drawn \in Nat /\ dropped \subseteq Nat /\ runs \in Nat \ {0} /\ page \in Page

\* The room a message is put into while the queue is emptied and filled again.
RoomKept ==
    /\ Len(queue) <= OverlayQueue
    /\ fill = "idle" => drained = << >>
    /\ fill # "idle" => Len(queue) + Len(drained) <= OverlayQueue

\* While the queue is emptied the newest message is in hand, and all else is older.
NewestInHand ==
    /\ \A d \in dropped : d < heard
    /\ fill # "idle" => heard > 0
    /\ fill = "drain" => fresh = heard /\ \A d \in Elems(drained) \cup Elems(queue) : d < heard
    /\ fill # "drain" => \A d \in Elems(drained) \cup Elems(queue) : d <= heard

\* The page is never ahead of the process it asked.
PageBehind ==
    /\ page.state = "read" => page.read <= drawn
    /\ page.run <= runs
    /\ page.run = runs => page.last <= drawn

OverlayInv == OverlayTypeOK /\ RoomKept /\ NewestInHand /\ PageBehind /\ PageShowsRevision

LEMMA OverlayInit_Inv == OverlayInit => OverlayInv
<1> SUFFICES ASSUME OverlayInit PROVE OverlayInv
  OBVIOUS
<1>1. << >> \in Seq(Nat) /\ Elems(<< >>) = {} /\ Len(<< >>) = 0
  BY SeqEmpty
<1>2. /\ heard = 0 /\ fill = "idle" /\ fresh = 0 /\ drained = << >> /\ queue = << >>
      /\ batch = << >> /\ render = "wait" /\ lines = << >> /\ drawn = 0 /\ dropped = {}
      /\ runs = 1
      /\ page = [state |-> "idle", read |-> 0, shown |-> << >>, last |-> 99, run |-> 0]
  BY DEF OverlayInit, NoRevision
<1>3. page \in Page
  BY <1>1, <1>2 DEF Page
<1>4. OverlayTypeOK
  BY <1>1, <1>2, <1>3 DEF OverlayTypeOK
<1>5. RoomKept /\ NewestInHand
  BY <1>1, <1>2, OverlayAssumption DEF RoomKept, NewestInHand
<1>6. PageBehind /\ PageShowsRevision
  BY <1>2 DEF PageBehind, PageShowsRevision
<1> QED
  BY <1>4, <1>5, <1>6 DEF OverlayInv

\* put: the page and the render thread do not change.
LEMMA Put_Inv == ASSUME OverlayInv, Put PROVE OverlayInv'
<1> USE DEF OverlayInv
<1>0. /\ heard \in Nat /\ queue \in Seq(Nat) /\ drained \in Seq(Nat) /\ OverlayQueue \in Nat
      /\ Len(queue) \in Nat /\ Elems(queue) \subseteq Nat /\ dropped \subseteq Nat
  BY OverlayAssumption, SeqShape DEF OverlayTypeOK
<1>1. /\ fill = "idle" /\ heard' = heard + 1 /\ drained' = drained /\ drained = << >>
      /\ UNCHANGED << batch, render, lines, drawn, dropped, runs, page >>
  BY DEF Put, putVars, renderVars, RoomKept
<1>2. PageBehind' /\ PageShowsRevision'
  BY <1>1 DEF PageBehind, PageShowsRevision
<1>3. Len(drained) = 0 /\ Elems(drained) = {}
  BY <1>1, SeqEmpty
<1>4. (\A d \in Elems(queue) : d <= heard) /\ (\A d \in dropped : d < heard)
  BY <1>1 DEF NewestInHand
<1>5. (\A d \in Elems(queue) : d < heard + 1) /\ (\A d \in dropped : d < heard + 1)
  BY <1>0, <1>4
<1>6. CASE Len(queue) < OverlayQueue
  <2>1. queue' = Append(queue, heard + 1) /\ fill' = fill /\ fresh' = fresh
    BY <1>1, <1>6 DEF Put, putVars
  <2>2. heard + 1 \in Nat
    BY <1>0
  <2>3. /\ Append(queue, heard + 1) \in Seq(Nat) /\ Len(Append(queue, heard + 1)) = Len(queue) + 1
        /\ Elems(Append(queue, heard + 1)) = Elems(queue) \cup {heard + 1}
    BY <1>0, <2>2, SeqPush, SMTT(30)
  <2>4. /\ queue' \in Seq(Nat) /\ Len(queue') = Len(queue) + 1
        /\ Elems(queue') = Elems(queue) \cup {heard + 1}
    BY <2>1, <2>3
  <2>5. OverlayTypeOK'
    BY <1>1, <2>1, <2>2, <2>4 DEF OverlayTypeOK
  <2>6. RoomKept'
    BY <1>0, <1>1, <1>6, <2>1, <2>4 DEF RoomKept
  <2>7. \A d \in Elems(queue') : d <= heard + 1
    BY <1>0, <1>5, <2>4
  <2>8. NewestInHand'
    BY <1>1, <1>3, <1>5, <2>1, <2>7 DEF NewestInHand
  <2> QED
    BY <1>2, <2>5, <2>6, <2>8
<1>7. CASE ~(Len(queue) < OverlayQueue)
  <2>1. queue' = queue /\ fill' = "drain" /\ fresh' = heard + 1
    BY <1>1, <1>7 DEF Put
  <2>2. OverlayTypeOK'
    BY <1>0, <1>1, <2>1 DEF OverlayTypeOK
  <2>3. RoomKept'
    BY <1>0, <1>1, <1>3, <2>1 DEF RoomKept
  <2>4. NewestInHand'
    BY <1>0, <1>1, <1>3, <1>5, <2>1 DEF NewestInHand
  <2> QED
    BY <1>2, <2>2, <2>3, <2>4
<1> QED
  BY <1>6, <1>7

LEMMA DrainOne_Inv == ASSUME OverlayInv, DrainOne PROVE OverlayInv'
<1> USE DEF OverlayInv
<1>0. /\ heard \in Nat /\ queue \in Seq(Nat) /\ drained \in Seq(Nat) /\ OverlayQueue \in Nat
      /\ Len(queue) \in Nat /\ Len(drained) \in Nat
  BY OverlayAssumption, SeqShape DEF OverlayTypeOK
<1>1. /\ fill = "drain" /\ queue # << >> /\ drained' = Append(drained, Head(queue))
      /\ queue' = Tail(queue)
      /\ UNCHANGED << heard, fill, fresh, batch, render, lines, drawn, dropped, runs, page >>
  BY DEF DrainOne, renderVars
<1>2. /\ Head(queue) \in Nat /\ Tail(queue) \in Seq(Nat) /\ Len(Tail(queue)) = Len(queue) - 1
      /\ Elems(queue) = {Head(queue)} \cup Elems(Tail(queue))
  BY <1>0, <1>1, SeqPop, SMTT(30)
<1>3. /\ Append(drained, Head(queue)) \in Seq(Nat)
      /\ Len(Append(drained, Head(queue))) = Len(drained) + 1
      /\ Elems(Append(drained, Head(queue))) = Elems(drained) \cup {Head(queue)}
  BY <1>0, <1>2, SeqPush, SMTT(30)
<1>4. /\ queue' \in Seq(Nat) /\ drained' \in Seq(Nat)
      /\ Len(queue') = Len(queue) - 1 /\ Len(drained') = Len(drained) + 1
      /\ Elems(drained') \cup Elems(queue') = Elems(drained) \cup Elems(queue)
  BY <1>1, <1>2, <1>3
<1>5. OverlayTypeOK'
  BY <1>1, <1>4 DEF OverlayTypeOK
<1>6. RoomKept'
  BY <1>0, <1>1, <1>4 DEF RoomKept
<1>7. NewestInHand'
  BY <1>1, <1>4 DEF NewestInHand
<1>8. PageBehind' /\ PageShowsRevision'
  BY <1>1 DEF PageBehind, PageShowsRevision
<1> QED
  BY <1>5, <1>6, <1>7, <1>8

LEMMA DrainEnd_Inv == ASSUME OverlayInv, DrainEnd PROVE OverlayInv'
<1> USE DEF OverlayInv
<1>0. /\ heard \in Nat /\ queue \in Seq(Nat) /\ drained \in Seq(Nat)
      /\ OverlayQueue \in Nat /\ OverlayQueue >= 1 /\ fresh \in Nat /\ dropped \subseteq Nat
      /\ Len(drained) \in Nat
  BY OverlayAssumption, SeqShape DEF OverlayTypeOK
<1>1. /\ fill = "drain" /\ queue = << >> /\ fill' = "refill" /\ fresh' = 0
      /\ UNCHANGED << heard, queue, batch, render, lines, drawn, runs, page >>
  BY DEF DrainEnd, renderVars
<1>2. Len(queue) = 0 /\ Elems(queue) = {}
  BY <1>1, SeqEmpty
<1>3. /\ fresh = heard /\ heard > 0 /\ (\A d \in Elems(drained) : d < heard)
      /\ \A d \in dropped : d < heard
  BY <1>1 DEF NewestInHand
<1>4. /\ drained' \in Seq(Nat) /\ Len(drained') <= OverlayQueue
      /\ \A d \in Elems(drained') : d <= heard
      /\ dropped' \subseteq Nat /\ \A d \in dropped' : d < heard
  <2>1. CASE drained = << >>
    <3>1. drained' = Append(drained, fresh) /\ dropped' = dropped
      BY <2>1 DEF DrainEnd
    <3>2. /\ Append(drained, fresh) \in Seq(Nat) /\ Len(Append(drained, fresh)) = Len(drained) + 1
          /\ Elems(Append(drained, fresh)) = Elems(drained) \cup {fresh}
      BY <1>0, SeqPush, SMTT(30)
    <3>3. Len(drained) = 0
      BY <2>1, SeqEmpty
    <3>6. Elems(drained') = Elems(drained) \cup {fresh} /\ Elems(drained) \subseteq Nat
      BY <1>0, <3>1, <3>2, SeqShape
    <3>4. \A d \in Elems(drained') : d <= heard
      BY <1>0, <1>3, <3>6
    <3>5. drained' \in Seq(Nat) /\ Len(drained') <= OverlayQueue
      BY <1>0, <3>1, <3>2, <3>3
    <3> QED
      BY <1>0, <1>3, <3>1, <3>4, <3>5
  <2>2. CASE drained # << >>
    <3>1. drained' = Append(Tail(drained), fresh) /\ dropped' = dropped \cup {Head(drained)}
      BY <2>2 DEF DrainEnd
    <3>2. /\ Append(Tail(drained), fresh) \in Seq(Nat)
          /\ Len(Append(Tail(drained), fresh)) = Len(drained)
          /\ Elems(Append(Tail(drained), fresh)) = Elems(Tail(drained)) \cup {fresh}
      BY <1>0, <2>2, SeqShift, SMTT(30)
    <3>3. Head(drained) \in Nat /\ Elems(drained) = {Head(drained)} \cup Elems(Tail(drained))
      BY <1>0, <2>2, SeqPop, SMTT(30)
    <3>4. Head(drained) < heard
      BY <1>3, <3>3
    <3>5. Len(drained) <= OverlayQueue
      BY <1>0, <1>1, <1>2 DEF RoomKept
    <3>6. \A d \in Elems(Tail(drained)) : d < heard
      BY <1>3, <3>3
    <3>7. Elems(drained') = Elems(Tail(drained)) \cup {fresh}
      BY <3>1, <3>2
    <3>8. \A d \in Elems(drained') : d <= heard
      <4>1. Elems(Tail(drained)) \subseteq Nat
        BY <1>0, <3>3, SeqShape
      <4> QED
        BY <1>0, <1>3, <3>6, <3>7, <4>1
    <3>9. drained' \in Seq(Nat) /\ Len(drained') <= OverlayQueue
      BY <3>1, <3>2, <3>5
    <3>10. dropped' \subseteq Nat /\ \A d \in dropped' : d < heard
      BY <1>0, <1>3, <3>1, <3>3, <3>4
    <3> QED
      BY <3>8, <3>9, <3>10
  <2> QED
    BY <2>1, <2>2
<1>5. OverlayTypeOK'
  BY <1>1, <1>4 DEF OverlayTypeOK
<1>6. RoomKept'
  <2>1. Len(drained') \in Nat
    BY <1>4, LenProperties
  <2> QED
    BY <1>0, <1>1, <1>2, <1>4, <2>1 DEF RoomKept
<1>7. NewestInHand'
  BY <1>1, <1>2, <1>3, <1>4 DEF NewestInHand
<1>8. PageBehind' /\ PageShowsRevision'
  BY <1>1 DEF PageBehind, PageShowsRevision
<1> QED
  BY <1>5, <1>6, <1>7, <1>8

LEMMA Refill_Inv == ASSUME OverlayInv, Refill PROVE OverlayInv'
<1> USE DEF OverlayInv
<1>0. /\ heard \in Nat /\ queue \in Seq(Nat) /\ drained \in Seq(Nat) /\ OverlayQueue \in Nat
      /\ Len(queue) \in Nat /\ Len(drained) \in Nat /\ (drained = << >> <=> Len(drained) = 0)
  BY OverlayAssumption, SeqShape DEF OverlayTypeOK
<1>1. /\ fill = "refill"
      /\ UNCHANGED << heard, fresh, batch, render, lines, drawn, runs, page >>
  BY DEF Refill, renderVars
<1>2. Len(queue) + Len(drained) <= OverlayQueue
  BY <1>1 DEF RoomKept
<1>3. /\ heard > 0 /\ (\A d \in Elems(drained) \cup Elems(queue) : d <= heard)
      /\ \A d \in dropped : d < heard
  BY <1>1 DEF NewestInHand
<1>4. PageBehind' /\ PageShowsRevision'
  BY <1>1 DEF PageBehind, PageShowsRevision
<1>5. CASE drained = << >>
  <2>1. fill' = "idle" /\ UNCHANGED << drained, queue, dropped >>
    BY <1>5 DEF Refill
  <2>2. OverlayTypeOK'
    BY <1>1, <2>1 DEF OverlayTypeOK
  <2>3. RoomKept'
    BY <1>5, <2>1 DEF RoomKept
  <2>4. NewestInHand'
    BY <1>1, <1>3, <2>1 DEF NewestInHand
  <2> QED
    BY <1>4, <2>2, <2>3, <2>4
<1>6. CASE drained # << >>
  <2>1. Len(queue) < OverlayQueue
    BY <1>0, <1>2, <1>6
  <2>2. /\ queue' = Append(queue, Head(drained)) /\ drained' = Tail(drained)
        /\ UNCHANGED << fill, dropped >>
    BY <1>6, <2>1 DEF Refill
  <2>3. /\ Head(drained) \in Nat /\ Tail(drained) \in Seq(Nat)
        /\ Len(Tail(drained)) = Len(drained) - 1
        /\ Elems(drained) = {Head(drained)} \cup Elems(Tail(drained))
    BY <1>0, <1>6, SeqPop, SMTT(30)
  <2>4. /\ Append(queue, Head(drained)) \in Seq(Nat)
        /\ Len(Append(queue, Head(drained))) = Len(queue) + 1
        /\ Elems(Append(queue, Head(drained))) = Elems(queue) \cup {Head(drained)}
    BY <1>0, <2>3, SeqPush, SMTT(30)
  <2>5. /\ queue' \in Seq(Nat) /\ drained' \in Seq(Nat)
        /\ Len(queue') = Len(queue) + 1 /\ Len(drained') = Len(drained) - 1
        /\ Elems(queue') \subseteq Elems(queue) \cup Elems(drained)
        /\ Elems(drained') \subseteq Elems(drained)
    BY <2>2, <2>3, <2>4
  <2>6. OverlayTypeOK'
    BY <1>1, <2>2, <2>5 DEF OverlayTypeOK
  <2>7. RoomKept'
    <3>1. Len(drained') \in Nat
      BY <2>5, LenProperties
    <3> QED
      BY <1>0, <1>1, <1>2, <2>1, <2>2, <2>5, <3>1 DEF RoomKept
  <2>8. NewestInHand'
    BY <1>1, <1>3, <2>2, <2>5 DEF NewestInHand
  <2> QED
    BY <1>4, <2>6, <2>7, <2>8
<1> QED
  BY <1>5, <1>6

\* The render thread.
LEMMA TakeLine_Inv == ASSUME OverlayInv, TakeLine PROVE OverlayInv'
<1> USE DEF OverlayInv
<1>0. /\ heard \in Nat /\ queue \in Seq(Nat) /\ batch \in Seq(Nat) /\ OverlayQueue \in Nat
      /\ Len(queue) \in Nat /\ Len(drained) \in Nat
  BY OverlayAssumption, SeqShape DEF OverlayTypeOK
<1>1. /\ queue # << >> /\ batch' = Append(batch, Head(queue)) /\ queue' = Tail(queue)
      /\ render' = "batch" /\ render # "count"
      /\ UNCHANGED << heard, fill, fresh, drained, lines, drawn, dropped, runs, page >>
  BY DEF TakeLine, putVars
<1>2. /\ Head(queue) \in Nat /\ Tail(queue) \in Seq(Nat) /\ Len(Tail(queue)) = Len(queue) - 1
      /\ Elems(queue) = {Head(queue)} \cup Elems(Tail(queue))
  BY <1>0, <1>1, SeqPop, SMTT(30)
<1>3. Append(batch, Head(queue)) \in Seq(Nat)
  BY <1>0, <1>2, SeqPush, SMTT(30)
<1>4. /\ queue' \in Seq(Nat) /\ batch' \in Seq(Nat) /\ Len(queue') = Len(queue) - 1
      /\ Elems(queue') \subseteq Elems(queue)
  BY <1>1, <1>2, <1>3
<1>5. OverlayTypeOK'
  BY <1>1, <1>4 DEF OverlayTypeOK
<1>6. RoomKept'
  BY <1>0, <1>1, <1>4 DEF RoomKept
<1>7. NewestInHand'
  BY <1>1, <1>4 DEF NewestInHand
<1>8. PageBehind' /\ PageShowsRevision'
  BY <1>1 DEF PageBehind, PageShowsRevision
<1> QED
  BY <1>5, <1>6, <1>7, <1>8

LEMMA BatchReady_Inv == ASSUME OverlayInv, BatchReady PROVE OverlayInv'
<1> USE DEF OverlayInv
<1>1. /\ render = "batch" /\ render' = "apply"
      /\ UNCHANGED << heard, fill, fresh, drained, queue, batch, lines, drawn, dropped,
                      runs, page >>
  BY DEF BatchReady, putVars
<1>2. OverlayTypeOK'
  BY <1>1 DEF OverlayTypeOK
<1>3. RoomKept' /\ NewestInHand'
  BY <1>1 DEF RoomKept, NewestInHand
<1>4. PageBehind' /\ PageShowsRevision'
  BY <1>1 DEF PageBehind, PageShowsRevision
<1> QED
  BY <1>2, <1>3, <1>4

LEMMA AppendLine_Inv == ASSUME OverlayInv, AppendLine PROVE OverlayInv'
<1> USE DEF OverlayInv
<1>0. lines \in Seq(Nat) /\ batch \in Seq(Nat)
  BY DEF OverlayTypeOK
<1>1. /\ batch # << >> /\ batch' = Tail(batch) /\ render' = "count"
      /\ \/ lines' = Append(lines, Head(batch))
         \/ lines' = Tail(Append(lines, Head(batch)))
      /\ UNCHANGED << heard, fill, fresh, drained, queue, drawn, dropped, runs, page >>
  BY DEF AppendLine, putVars
<1>2. Head(batch) \in Nat /\ Tail(batch) \in Seq(Nat)
  BY <1>0, <1>1, SeqPop, SMTT(30)
<1>3. Append(lines, Head(batch)) \in Seq(Nat) /\ Append(lines, Head(batch)) # << >>
  BY <1>0, <1>2, SeqPush, SMTT(30)
<1>4. Tail(Append(lines, Head(batch))) \in Seq(Nat)
  BY <1>3, SeqPop, SMTT(30)
<1>5. lines' \in Seq(Nat) /\ batch' \in Seq(Nat)
  BY <1>1, <1>2, <1>3, <1>4
<1>6. OverlayTypeOK'
  BY <1>1, <1>5 DEF OverlayTypeOK
<1>7. RoomKept' /\ NewestInHand'
  BY <1>1 DEF RoomKept, NewestInHand
<1>8. PageBehind' /\ PageShowsRevision'
  BY <1>1 DEF PageBehind, PageShowsRevision
<1> QED
  BY <1>6, <1>7, <1>8

LEMMA CountLine_Inv ==
    ASSUME OverlayInv, NEW written \in BOOLEAN, CountLine(written)
    PROVE  OverlayInv'
<1> USE DEF OverlayInv
<1>1. /\ render = "count" /\ drawn' = drawn + 1 /\ render' \in {"dead", "wait", "apply"}
      /\ UNCHANGED << heard, fill, fresh, drained, queue, batch, lines, dropped, runs, page >>
  BY DEF CountLine, putVars
<1>2. /\ drawn \in Nat /\ page.read \in Nat /\ page.last \in Nat /\ page.run \in Nat /\ runs \in Nat
  BY DEF OverlayTypeOK, Page
<1>3. OverlayTypeOK'
  BY <1>1, <1>2 DEF OverlayTypeOK
<1>4. RoomKept' /\ NewestInHand'
  BY <1>1 DEF RoomKept, NewestInHand
<1>5. PageBehind' /\ PageShowsRevision'
  BY <1>1, <1>2 DEF PageBehind, PageShowsRevision
<1> QED
  BY <1>3, <1>4, <1>5

\* The page.
LEMMA PageSteps_Inv ==
    ASSUME OverlayInv, ReadDrawn \/ RenderSnapshot \/ PollFails
    PROVE  OverlayInv'
<1> USE DEF OverlayInv
<1>0. /\ drawn \in Nat /\ runs \in Nat /\ lines \in Seq(Nat) /\ page \in Page
      /\ page.read \in Nat /\ page.last \in Nat /\ page.run \in Nat
  BY DEF OverlayTypeOK, Page
<1>1. /\ UNCHANGED << heard, fill, fresh, drained, queue, batch, render, lines, drawn,
                      dropped, runs >>
  BY DEF ReadDrawn, RenderSnapshot, PollFails, putVars, renderVars
<1>2. RoomKept' /\ NewestInHand'
  BY <1>1 DEF RoomKept, NewestInHand
<1>3. CASE ReadDrawn
  <2>1. page' = [state |-> "read", read |-> drawn, shown |-> page.shown, last |-> page.last,
                 run |-> page.run]
    BY <1>0, <1>3 DEF ReadDrawn, Page
  <2>2. OverlayTypeOK'
    BY <1>0, <1>1, <2>1 DEF OverlayTypeOK, Page
  <2>3. PageBehind' /\ PageShowsRevision'
    BY <1>0, <1>1, <2>1 DEF PageBehind, PageShowsRevision
  <2> QED
    BY <1>2, <2>2, <2>3
<1>4. CASE RenderSnapshot
  <2>1. /\ page.state = "read"
        /\ page' = [state |-> "idle", read |-> page.read, shown |-> lines, last |-> page.read,
                    run |-> runs]
    BY <1>0, <1>4 DEF RenderSnapshot, Page
  <2>2. OverlayTypeOK'
    BY <1>0, <1>1, <2>1 DEF OverlayTypeOK, Page
  <2>3. PageBehind' /\ PageShowsRevision'
    BY <1>0, <1>1, <2>1 DEF PageBehind, PageShowsRevision
  <2> QED
    BY <1>2, <2>2, <2>3
<1>5. CASE PollFails
  <2>1. page' = [state |-> "idle", read |-> page.read, shown |-> page.shown, last |-> page.last,
                 run |-> page.run]
    BY <1>0, <1>5 DEF PollFails, Page
  <2>2. OverlayTypeOK'
    BY <1>0, <1>1, <2>1 DEF OverlayTypeOK, Page
  <2>3. PageBehind' /\ PageShowsRevision'
    BY <1>0, <1>1, <2>1 DEF PageBehind, PageShowsRevision
  <2> QED
    BY <1>2, <2>2, <2>3
<1> QED
  BY <1>3, <1>4, <1>5

LEMMA OverlayRestart_Inv == ASSUME OverlayInv, Restart PROVE OverlayInv'
<1> USE DEF OverlayInv
<1>0. /\ << >> \in Seq(Nat) /\ Elems(<< >>) = {} /\ Len(<< >>) = 0
  BY SeqEmpty
<1>1. /\ runs' = runs + 1 /\ heard' = (IF fill = "idle" THEN heard ELSE heard - 1)
      /\ fill' = "idle" /\ fresh' = 0 /\ drained' = << >> /\ queue' = << >> /\ batch' = << >>
      /\ render' = "wait" /\ lines' = << >> /\ drawn' = 0 /\ dropped' = {}
      /\ page' = [page EXCEPT !.state = "idle"]
  BY DEF Restart
<1>2. /\ heard \in Nat /\ runs \in Nat /\ page \in Page /\ page.run \in Nat /\ OverlayQueue \in Nat
      /\ fill # "idle" => heard > 0
  BY OverlayAssumption DEF OverlayTypeOK, Page, NewestInHand
<1>3. page' = [state |-> "idle", read |-> page.read, shown |-> page.shown, last |-> page.last,
               run |-> page.run]
  BY <1>1, <1>2 DEF Page
<1>4. page' \in Page
  BY <1>2, <1>3 DEF Page
<1>5. OverlayTypeOK'
  BY <1>0, <1>1, <1>2, <1>4 DEF OverlayTypeOK
<1>6. RoomKept' /\ NewestInHand'
  BY <1>0, <1>1, <1>2 DEF RoomKept, NewestInHand
<1>7. page'.run = page.run /\ page'.state = "idle"
  BY <1>3
<1>8. PageBehind' /\ PageShowsRevision'
  BY <1>1, <1>2, <1>7 DEF PageBehind, PageShowsRevision
<1> QED
  BY <1>5, <1>6, <1>8

LEMMA OverlayNext_Inv == OverlayInv /\ [OverlayNext]_overlayVars => OverlayInv'
<1> SUFFICES ASSUME OverlayInv, [OverlayNext]_overlayVars PROVE OverlayInv'
  OBVIOUS
<1>1. CASE Put
  BY <1>1, Put_Inv
<1>2. CASE DrainOne
  BY <1>2, DrainOne_Inv
<1>3. CASE DrainEnd
  BY <1>3, DrainEnd_Inv
<1>4. CASE Refill
  BY <1>4, Refill_Inv
<1>5. CASE TakeLine
  BY <1>5, TakeLine_Inv
<1>6. CASE BatchReady
  BY <1>6, BatchReady_Inv
<1>7. CASE AppendLine
  BY <1>7, AppendLine_Inv
<1>8. CASE \E written \in BOOLEAN : CountLine(written)
  BY <1>8, CountLine_Inv
<1>9. CASE ReadDrawn \/ RenderSnapshot \/ PollFails
  BY <1>9, PageSteps_Inv
<1>10. CASE Restart
  BY <1>10, OverlayRestart_Inv
<1>11. CASE UNCHANGED overlayVars
  <2>1. UNCHANGED << heard, fill, fresh, drained, queue, batch, render, lines, drawn, dropped,
                     runs, page >>
    BY <1>11 DEF overlayVars
  <2>2. OverlayTypeOK'
    BY <2>1 DEF OverlayTypeOK, OverlayInv
  <2>3. RoomKept' /\ NewestInHand' /\ PageBehind' /\ PageShowsRevision'
    BY <2>1 DEF RoomKept, NewestInHand, PageBehind, PageShowsRevision, OverlayInv
  <2> QED
    BY <2>2, <2>3 DEF OverlayInv
<1> QED
  BY <1>1, <1>2, <1>3, <1>4, <1>5, <1>6, <1>7, <1>8, <1>9, <1>10, <1>11 DEF OverlayNext

LEMMA OverlaySpec_Inv == OverlaySpec => []OverlayInv
BY OverlayInit_Inv, OverlayNext_Inv, PTL DEF OverlaySpec

\* The state of the overlay is well formed.
THEOREM OverlayTyping == OverlaySpec => []OverlayTypeOK
<1>1. OverlayInv => OverlayTypeOK
  BY DEF OverlayInv
<1> QED
  BY OverlaySpec_Inv, <1>1, PTL

LEMMA OverlayFollowed == OverlaySpec => []OverlayFollows
<1>1. OverlayInv => OverlayFollows
  <2> SUFFICES ASSUME OverlayInv PROVE OverlayFollows
    OBVIOUS
  <2>1. heard \in Nat /\ \A d \in dropped : d < heard
    BY DEF OverlayInv, OverlayTypeOK, NewestInHand
  <2>2. NewestSurvives
    BY <2>1 DEF NewestSurvives
  <2> QED
    BY <2>2 DEF OverlayInv, OverlayFollows
<1> QED
  BY OverlaySpec_Inv, <1>1, PTL

-----------------------------------------------------------------------------
(* Subtitles *)

Notice  == [kind : {"config", "chat", "other"}, text : Texts \cup {""}, after : Nat]
Edit    == [blocks : SUBSET Texts, backend : Backend]
Visual  == [up : BOOLEAN, version : Nat, sender : Backend]
Showing == [said : Notice, version : Nat, sender : Backend]

SubtitleTypeOK ==
    /\ edits \in Seq(Edit) /\ torn \in BOOLEAN /\ notice \in Nat /\ waiting \in Seq(Notice)
    /\ spout \in {"texts", "no texts", "absent"} /\ override \in Backend \cup {"none"}
    /\ visual \in Visual /\ shown \subseteq Showing /\ visualRuns \in Nat

\* Only what was saved is announced, read and shown by.
VersionsSaved ==
    /\ notice <= Len(edits) /\ visual.version <= Len(edits)
    /\ \A s \in shown : s.version <= Len(edits)
    /\ \A k \in DOMAIN waiting : waiting[k].after <= notice

\* Change n is known to a process with version v, or its notice is in queue q, at place k or
\* before it.
Noted(n, v, q, k) ==
    n <= v \/ \E j \in DOMAIN q : j <= k /\ q[j].kind = "config" /\ q[j].after = n

\* What waits will be judged by rules not older than the notice it came after.
NoticesAhead ==
    visual.up /\ visual.version # 0 =>
       /\ \A k \in DOMAIN waiting : Noted(waiting[k].after, visual.version, waiting, k)
       /\ Noted(notice, visual.version, waiting, Len(waiting))

SubtitleInv == SubtitleTypeOK /\ VersionsSaved /\ NoticesAhead /\ SubtitlesObey

LEMMA SubtitleInit_Inv == SubtitleInit => SubtitleInv
<1> SUFFICES ASSUME SubtitleInit PROVE SubtitleInv
  OBVIOUS
<1>1. << >> \in Seq(Edit) /\ << >> \in Seq(Notice) /\ Len(<< >>) = 0 /\ DOMAIN << >> = {}
  BY SeqEmpty
<1>2. /\ visual = [up |-> FALSE, version |-> 0, sender |-> "file"]
      /\ edits = << >> /\ torn = FALSE /\ notice = 0 /\ waiting = << >> /\ shown = {}
      /\ visualRuns = 0 /\ spout \in {"texts", "no texts", "absent"}
      /\ override \in Backend \cup {"none"}
  BY DEF SubtitleInit
<1>3. SubtitleTypeOK
  BY <1>1, <1>2 DEF SubtitleTypeOK, Visual, Backend
<1>4. notice <= Len(edits) /\ visual.version <= Len(edits) /\ DOMAIN waiting = {} /\ ~visual.up
  <2>1. ~visual.up /\ visual.version = 0
    BY <1>2
  <2>2. Len(edits) = 0 /\ notice = 0 /\ DOMAIN waiting = {}
    BY <1>1, <1>2
  <2> QED
    BY <2>1, <2>2
<1>5. VersionsSaved /\ NoticesAhead /\ SubtitlesObey
  BY <1>2, <1>4 DEF VersionsSaved, NoticesAhead, SubtitlesObey
<1> QED
  BY <1>3, <1>5 DEF SubtitleInv

\* A version stays what it was as long as the saved ones do.
LEMMA VersionKept ==
    ASSUME NEW n \in Nat, n <= Len(edits), edits \in Seq(Edit),
           edits' = edits \/ \E c \in Edit : edits' = Append(edits, c)
    PROVE  Version(n)' = Version(n)
<1>1. CASE n = 0
  BY <1>1 DEF Version
<1>2. CASE n # 0 /\ edits' = edits
  BY <1>2 DEF Version
<1>3. ASSUME NEW c \in Edit, n # 0, edits' = Append(edits, c) PROVE Version(n)' = Version(n)
  <2>1. n \in DOMAIN edits
    BY <1>3, SeqShape
  <2>2. Append(edits, c)[n] = edits[n]
    BY <2>1, SeqPush, SMTT(30)
  <2> QED
    BY <1>3, <2>2 DEF Version
<1> QED
  BY <1>1, <1>2, <1>3

LEMMA EditSteps_Inv ==
    ASSUME SubtitleInv,
           \/ EditBegins
           \/ \E B \in SUBSET Texts, backend \in Backend :
                 EditEnds([blocks |-> B, backend |-> backend])
    PROVE  SubtitleInv'
<1> USE DEF SubtitleInv
<1>0. /\ edits \in Seq(Edit) /\ Len(edits) \in Nat /\ notice \in Nat /\ shown \subseteq Showing
      /\ visual \in Visual /\ visual.version \in Nat /\ waiting \in Seq(Notice)
  BY SeqShape DEF SubtitleTypeOK, Visual
<1>1. /\ torn' \in BOOLEAN
      /\ edits' = edits \/ \E c \in Edit : edits' = Append(edits, c)
      /\ UNCHANGED << notice, waiting, spout, override, visual, shown, visualRuns >>
  BY DEF EditBegins, EditEnds, Edit
<1>2. edits' \in Seq(Edit) /\ Len(edits') \in Nat /\ Len(edits) <= Len(edits')
  <2>1. \A c \in Edit : /\ Append(edits, c) \in Seq(Edit)
                        /\ Len(Append(edits, c)) = Len(edits) + 1
    BY <1>0, SeqPush, SMTT(30)
  <2> QED
    BY <1>0, <1>1, <2>1
<1>3. SubtitleTypeOK'
  BY <1>1, <1>2 DEF SubtitleTypeOK
<1>4. VersionsSaved'
  <2>1. \A s \in shown : s.version \in Nat
    BY <1>0 DEF Showing
  <2> QED
    BY <1>0, <1>1, <1>2, <2>1 DEF VersionsSaved
<1>5. NoticesAhead'
  BY <1>1 DEF NoticesAhead, Noted
<1>6. SubtitlesObey'
  <2> SUFFICES ASSUME NEW s \in shown, s.version # 0
               PROVE  \E v \in s.said.after .. s.version : s.said.text \notin Version(v)'.blocks
    BY <1>1 DEF SubtitlesObey
  <2>1. PICK v \in s.said.after .. s.version : s.said.text \notin Version(v).blocks
    BY DEF SubtitlesObey
  <2>2. s.said.after \in Nat /\ s.version \in Nat /\ s.version <= Len(edits)
    BY <1>0 DEF Showing, Notice, VersionsSaved
  <2>3. v \in Nat /\ v <= Len(edits)
    BY <1>0, <2>2
  <2>4. Version(v)' = Version(v)
    BY <1>0, <1>1, <2>3, VersionKept
  <2> QED
    BY <2>1, <2>4
<1> QED
  BY <1>3, <1>4, <1>5, <1>6

\* A notice or a message joins the queue.
LEMMA Joins_Inv ==
    ASSUME SubtitleInv, NEW m \in Notice, waiting' = Append(waiting, m), m.after = notice',
           notice' \in Nat, notice' <= Len(edits),
           notice' = notice \/ (notice < notice' /\ m.kind = "config"),
           UNCHANGED << edits, torn, spout, override, visual, shown, visualRuns >>
    PROVE  SubtitleInv'
<1> USE DEF SubtitleInv
<1>0. /\ notice \in Nat /\ waiting \in Seq(Notice) /\ Len(waiting) \in Nat
      /\ DOMAIN waiting = 1 .. Len(waiting)
  BY SeqShape DEF SubtitleTypeOK
<1>1. /\ Append(waiting, m) \in Seq(Notice) /\ Len(Append(waiting, m)) = Len(waiting) + 1
      /\ DOMAIN Append(waiting, m) = DOMAIN waiting \cup {Len(waiting) + 1}
      /\ Append(waiting, m)[Len(waiting) + 1] = m
      /\ \A k \in DOMAIN waiting : Append(waiting, m)[k] = waiting[k] /\ k < Len(waiting) + 1
  BY <1>0, SeqPush, SMTT(30)
<1>2. /\ waiting' \in Seq(Notice) /\ Len(waiting') = Len(waiting) + 1
      /\ DOMAIN waiting' = DOMAIN waiting \cup {Len(waiting) + 1}
      /\ waiting'[Len(waiting) + 1] = m
      /\ \A k \in DOMAIN waiting : waiting'[k] = waiting[k] /\ k < Len(waiting) + 1
  BY <1>1
<1>3. SubtitleTypeOK'
  BY <1>2 DEF SubtitleTypeOK
<1>4. VersionsSaved'
  <2>1. \A k \in DOMAIN waiting : waiting[k] \in Notice
    BY <1>0, SeqShape
  <2>2. \A k \in DOMAIN waiting : waiting[k].after \in Nat /\ waiting[k].after <= notice
    BY <2>1 DEF VersionsSaved, Notice
  <2>3. \A k \in DOMAIN waiting : waiting'[k].after <= notice'
    BY <1>0, <1>2, <2>2
  <2>4. \A k \in DOMAIN waiting' : waiting'[k].after <= notice'
    BY <1>2, <2>3
  <2> QED
    BY <2>4 DEF VersionsSaved
<1>5. SubtitlesObey'
  BY DEF SubtitlesObey, Version
<1>6. NoticesAhead'
  <2> DEFINE v == visual.version
  <2> SUFFICES ASSUME visual.up, v # 0
               PROVE  /\ \A k \in DOMAIN waiting' : Noted(waiting'[k].after, v, waiting', k)
                      /\ Noted(notice', v, waiting', Len(waiting'))
    BY DEF NoticesAhead
  <2> HIDE DEF v
  <2>0. /\ \A k \in DOMAIN waiting : Noted(waiting[k].after, v, waiting, k)
        /\ Noted(notice, v, waiting, Len(waiting))
    BY DEF NoticesAhead, v
  <2>1. ASSUME NEW n, NEW k \in Nat, NEW l \in Nat, k <= l, Noted(n, v, waiting, k)
        PROVE  Noted(n, v, waiting', l)
    <3>1. CASE n <= v
      BY <3>1 DEF Noted
    <3>2. ASSUME NEW j \in DOMAIN waiting, j <= k, waiting[j].kind = "config", waiting[j].after = n
          PROVE  Noted(n, v, waiting', l)
      <4>1. j \in DOMAIN waiting' /\ j <= l /\ waiting'[j] = waiting[j]
        BY <1>0, <1>2, <2>1, <3>2
      <4> QED
        BY <3>2, <4>1 DEF Noted
    <3> QED
      BY <2>1, <3>1, <3>2 DEF Noted
  <2>2. Len(waiting) + 1 \in Nat /\ Len(waiting) <= Len(waiting) + 1
    BY <1>0
  <2>3. Noted(notice', v, waiting', Len(waiting) + 1)
    <3>1. CASE m.kind = "config"
      <4>1. Len(waiting) + 1 \in DOMAIN waiting' /\ Len(waiting) + 1 <= Len(waiting) + 1
        BY <1>2, <2>2
      <4> QED
        BY <1>2, <3>1, <4>1 DEF Noted
    <3>2. CASE notice' = notice
      BY <1>0, <2>0, <2>1, <2>2, <3>2
    <3> QED
      BY <3>1, <3>2
  <2>4. ASSUME NEW k \in DOMAIN waiting' PROVE Noted(waiting'[k].after, v, waiting', k)
    <3>1. CASE k \in DOMAIN waiting
      <4>1. Noted(waiting[k].after, v, waiting, k) /\ k \in Nat /\ k <= k
        BY <1>0, <2>0, <3>1
      <4>2. Noted(waiting[k].after, v, waiting', k)
        BY <2>1, <4>1
      <4> QED
        BY <1>2, <3>1, <4>2
    <3>2. CASE k = Len(waiting) + 1
      BY <1>2, <2>3, <3>2
    <3> QED
      BY <1>2, <3>1, <3>2
  <2> QED
    BY <1>2, <2>3, <2>4
<1> QED
  BY <1>3, <1>4, <1>5, <1>6

LEMMA NoticeQueued_Inv == ASSUME SubtitleInv, NoticeQueued PROVE SubtitleInv'
<1> DEFINE m == [kind |-> "config", text |-> "", after |-> Len(edits)]
<1>1. /\ waiting' = Append(waiting, m) /\ notice' = Len(edits) /\ notice < Len(edits)
      /\ UNCHANGED << edits, torn, spout, override, visual, shown, visualRuns >>
  BY DEF NoticeQueued
<1>2. Len(edits) \in Nat /\ notice \in Nat
  BY SeqShape DEF SubtitleInv, SubtitleTypeOK
<1>3. m \in Notice /\ m.after = Len(edits) /\ m.kind = "config"
  BY <1>2 DEF Notice
<1> HIDE DEF m
<1>4. notice' \in Nat /\ notice' <= Len(edits) /\ m.after = notice'
  BY <1>1, <1>2, <1>3
<1> QED
  BY <1>1, <1>3, <1>4, Joins_Inv

LEMMA MessageQueued_Inv ==
    ASSUME SubtitleInv, NEW kind \in {"chat", "other"}, NEW text \in Texts \cup {""},
           MessageQueued(kind, text)
    PROVE  SubtitleInv'
<1> DEFINE m == [kind |-> kind, text |-> text, after |-> notice]
<1>1. /\ waiting' = Append(waiting, m) /\ notice' = notice
      /\ UNCHANGED << edits, torn, spout, override, visual, shown, visualRuns >>
  BY DEF MessageQueued, outside
<1>2. notice \in Nat /\ notice <= Len(edits)
  BY DEF SubtitleInv, SubtitleTypeOK, VersionsSaved
<1>3. m \in Notice /\ m.after = notice
  BY <1>2 DEF Notice
<1> HIDE DEF m
<1>4. notice' \in Nat /\ notice' <= Len(edits) /\ m.after = notice'
  <2>1. notice' = notice
    BY <1>1
  <2> QED
    BY <1>2, <1>3, <2>1, Zenon
<1> QED
  BY <1>1, <1>3, <1>4, Joins_Inv

\* The file as a process finds it has every change that was announced, or is no file.
LEMMA FoundInFile ==
    ASSUME SubtitleInv
    PROVE  /\ InFile \in Nat /\ InFile <= Len(edits)
           /\ InFile # 0 => /\ notice <= InFile
                            /\ \A k \in DOMAIN waiting : waiting[k].after <= InFile
<1>1. /\ Len(edits) \in Nat /\ notice \in Nat /\ notice <= Len(edits)
      /\ \A k \in DOMAIN waiting : waiting[k] \in Notice /\ waiting[k].after <= notice
  BY SeqShape DEF SubtitleInv, SubtitleTypeOK, VersionsSaved
<1>2. InFile = 0 \/ InFile = Len(edits)
  BY DEF InFile
<1>3. ASSUME NEW k \in DOMAIN waiting PROVE waiting[k].after <= Len(edits)
  <2>1. waiting[k].after \in Nat /\ waiting[k].after <= notice
    BY <1>1 DEF Notice
  <2> QED
    BY <1>1, <2>1
<1> QED
  BY <1>1, <1>2, <1>3

\* A process that reads the file, when it starts or at a notice, knows what is queued.
LEMMA Reads_Inv ==
    ASSUME SubtitleInv, visual' \in Visual, visual'.version = InFile,
           waiting' = waiting \/ (waiting # << >> /\ waiting' = Tail(waiting)),
           visualRuns' \in Nat,
           UNCHANGED << edits, torn, notice, spout, override, shown >>
    PROVE  SubtitleInv'
<1> USE DEF SubtitleInv
<1>0. /\ waiting \in Seq(Notice) /\ InFile <= Len(edits)
      /\ InFile # 0 => notice <= InFile /\ \A k \in DOMAIN waiting : waiting[k].after <= InFile
  BY FoundInFile DEF SubtitleTypeOK
<1>1. /\ waiting' \in Seq(Notice)
      /\ \A k \in DOMAIN waiting' : \E j \in DOMAIN waiting : waiting'[k] = waiting[j]
  <2>1. CASE waiting' = waiting
    BY <1>0, <2>1
  <2>2. CASE waiting # << >> /\ waiting' = Tail(waiting)
    BY <1>0, <2>2, SeqPop, SMTT(30)
  <2> QED
    BY <2>1, <2>2
<1>2. SubtitleTypeOK'
  BY <1>1 DEF SubtitleTypeOK
<1>3. VersionsSaved'
  <2>1. \A k \in DOMAIN waiting : waiting[k].after <= notice
    BY DEF VersionsSaved
  <2>2. \A k \in DOMAIN waiting' : waiting'[k].after <= notice
    BY <1>1, <2>1
  <2> QED
    BY <1>0, <2>2 DEF VersionsSaved
<1>4. NoticesAhead'
  <2>1. InFile # 0 => \A k \in DOMAIN waiting' : waiting'[k].after <= InFile
    BY <1>0, <1>1
  <2> QED
    BY <1>0, <2>1 DEF NoticesAhead, Noted
<1>5. SubtitlesObey'
  BY DEF SubtitlesObey, Version
<1> QED
  BY <1>2, <1>3, <1>4, <1>5

LEMMA SenderTyped == \A backend \in Backend : Sender(backend) \in Backend
BY DEF Sender, Backend

LEMMA VersionTyped ==
    ASSUME SubtitleInv, NEW n \in Nat, n <= Len(edits)
    PROVE  Version(n) \in Edit
<1>1. edits \in Seq(Edit)
  BY DEF SubtitleInv, SubtitleTypeOK
<1>2. CASE n = 0
  BY <1>2 DEF Version, Defaults, Edit, Backend
<1>3. CASE n # 0
  <2>1. n \in DOMAIN edits
    BY <1>1, <1>3, SeqShape
  <2> QED
    BY <1>1, <1>3, <2>1, SeqShape DEF Version
<1> QED
  BY <1>2, <1>3

LEMMA StartVisual_Inv == ASSUME SubtitleInv, StartVisual PROVE SubtitleInv'
<1> DEFINE backend == IF override = "none" THEN Version(InFile).backend ELSE override
<1>1. /\ visual' = [up |-> TRUE, version |-> InFile, sender |-> Sender(backend)]
      /\ waiting' = waiting /\ visualRuns' = visualRuns + 1
      /\ UNCHANGED << edits, torn, notice, spout, override, shown >>
  BY DEF StartVisual, outside
<1>2. InFile \in Nat /\ Version(InFile) \in Edit
  BY FoundInFile, VersionTyped
<1>3. override \in Backend \cup {"none"} /\ visualRuns \in Nat
  BY DEF SubtitleInv, SubtitleTypeOK
<1>4. backend \in Backend
  BY <1>2, <1>3 DEF Edit
<1> HIDE DEF backend
<1>5. visual' \in Visual /\ visual'.version = InFile
  BY <1>1, <1>2, <1>4, SenderTyped DEF Visual
<1>6. visualRuns' \in Nat
  BY <1>1, <1>3
<1> QED
  BY <1>1, <1>5, <1>6, Reads_Inv

LEMMA ConfigChanged_Inv == ASSUME SubtitleInv, HandleConfigChanged PROVE SubtitleInv'
<1>1. /\ visual' = [visual EXCEPT !.version = InFile, !.sender = Sender(Version(InFile).backend)]
      /\ waiting # << >> /\ waiting' = Tail(waiting) /\ visualRuns' = visualRuns
      /\ UNCHANGED << edits, torn, notice, spout, override, shown >>
  BY DEF HandleConfigChanged, Reloaded, outside
<1>2. InFile \in Nat /\ Version(InFile) \in Edit
  BY FoundInFile, VersionTyped
<1>3. Sender(Version(InFile).backend) \in Backend
  BY <1>2, SenderTyped DEF Edit
<1>4. visual \in Visual /\ visualRuns' \in Nat
  BY <1>1 DEF SubtitleInv, SubtitleTypeOK
<1>5. visual' \in Visual /\ visual'.version = InFile
  BY <1>1, <1>2, <1>3, <1>4 DEF Visual
<1> QED
  BY <1>1, <1>4, <1>5, Reads_Inv

\* A message that is no notice leaves the queue, or the process ends; what is shown is
\* what the rules of the process let pass.
LEMMA Handles_Inv ==
    ASSUME SubtitleInv,
           visual' = visual \/ visual' = [visual EXCEPT !.up = FALSE],
           \/ waiting' = waiting
           \/ /\ visual.up /\ waiting # << >> /\ Head(waiting).kind # "config"
              /\ waiting' = Tail(waiting),
           \/ shown' = shown
           \/ /\ visual.up /\ waiting # << >> /\ Head(waiting).kind # "config" /\ Accepted
              /\ shown' = shown \cup {[said |-> Head(waiting), version |-> visual.version,
                                       sender |-> visual.sender]},
           UNCHANGED << edits, torn, notice, spout, override, visualRuns >>
    PROVE  SubtitleInv'
<1> USE DEF SubtitleInv
<1>0. /\ waiting \in Seq(Notice) /\ visual \in Visual /\ visual.version \in Nat
      /\ shown \subseteq Showing /\ Len(waiting) \in Nat
  BY SeqShape DEF SubtitleTypeOK, Visual
<1>1. /\ visual' \in Visual /\ visual'.version = visual.version /\ (visual'.up => visual.up)
  BY <1>0 DEF Visual
<1>2. /\ waiting' \in Seq(Notice)
      /\ \A k \in DOMAIN waiting' : \E j \in DOMAIN waiting : waiting'[k] = waiting[j]
  <2>1. CASE waiting' = waiting
    BY <1>0, <2>1
  <2>2. CASE waiting # << >> /\ waiting' = Tail(waiting)
    BY <1>0, <2>2, SeqPop, SMTT(30)
  <2> QED
    BY <2>1, <2>2
<1>3. shown' \subseteq Showing /\ \A s \in shown' : s.version <= Len(edits)
  <2>1. visual.version <= Len(edits) /\ \A s \in shown : s.version <= Len(edits)
    BY DEF VersionsSaved
  <2>2. CASE shown' = shown
    BY <1>0, <2>1, <2>2
  <2>3. CASE /\ waiting # << >>
             /\ shown' = shown \cup {[said |-> Head(waiting), version |-> visual.version,
                                      sender |-> visual.sender]}
    <3>1. Head(waiting) \in Notice /\ visual.sender \in Backend
      BY <1>0, <2>3, SeqPop DEF Visual
    <3> QED
      BY <1>0, <2>1, <2>3, <3>1 DEF Showing
  <2> QED
    BY <2>2, <2>3
<1>4. SubtitleTypeOK'
  BY <1>1, <1>2, <1>3 DEF SubtitleTypeOK
<1>5. VersionsSaved'
  <2>1. \A k \in DOMAIN waiting : waiting[k].after <= notice
    BY DEF VersionsSaved
  <2>2. \A k \in DOMAIN waiting' : waiting'[k].after <= notice
    BY <1>2, <2>1
  <2> QED
    BY <1>1, <1>3, <2>2 DEF VersionsSaved
<1>6. NoticesAhead'
  <2> DEFINE v == visual.version
  <2> SUFFICES ASSUME visual.up, v # 0
               PROVE  /\ \A k \in DOMAIN waiting' : Noted(waiting'[k].after, v, waiting', k)
                      /\ Noted(notice, v, waiting', Len(waiting'))
    BY <1>1 DEF NoticesAhead
  <2> HIDE DEF v
  <2>0. /\ \A k \in DOMAIN waiting : Noted(waiting[k].after, v, waiting, k)
        /\ Noted(notice, v, waiting, Len(waiting))
    BY DEF NoticesAhead, v
  <2>1. CASE waiting' = waiting
    BY <2>0, <2>1
  <2>2. CASE waiting # << >> /\ Head(waiting).kind # "config" /\ waiting' = Tail(waiting)
    <3>1. /\ waiting' \in Seq(Notice) /\ Len(waiting') = Len(waiting) - 1
          /\ waiting[1].kind # "config"
          /\ \A k \in DOMAIN waiting' : /\ k \in Nat /\ k + 1 \in DOMAIN waiting
                                        /\ waiting'[k] = waiting[k + 1]
          /\ \A k \in DOMAIN waiting : k # 1 => /\ k - 1 \in DOMAIN waiting'
                                                /\ waiting'[k - 1] = waiting[k]
      BY <1>0, <2>2, SeqPop, SMTT(30)
    <3>2. ASSUME NEW n, NEW k \in Nat, NEW l \in Nat, l = k - 1, Noted(n, v, waiting, k)
          PROVE  Noted(n, v, waiting', l)
      <4>1. CASE n <= v
        BY <4>1 DEF Noted
      <4>2. ASSUME NEW j \in DOMAIN waiting, j <= k, waiting[j].kind = "config",
                   waiting[j].after = n
            PROVE  Noted(n, v, waiting', l)
        <5>1. j # 1 /\ j \in Nat
          BY <1>0, <3>1, <4>2, SeqShape
        <5>2. j - 1 \in DOMAIN waiting' /\ waiting'[j - 1] = waiting[j]
          BY <3>1, <5>1
        <5>3. j - 1 <= l
          BY <3>2, <4>2, <5>1
        <5> QED
          BY <4>2, <5>2, <5>3 DEF Noted
      <4> QED
        BY <3>2, <4>1, <4>2 DEF Noted
    <3>3. ASSUME NEW k \in DOMAIN waiting' PROVE Noted(waiting'[k].after, v, waiting', k)
      <4>1. /\ k \in Nat /\ k + 1 \in Nat /\ k = (k + 1) - 1
            /\ Noted(waiting[k + 1].after, v, waiting, k + 1)
            /\ waiting'[k] = waiting[k + 1]
        BY <2>0, <3>1
      <4>2. Noted(waiting[k + 1].after, v, waiting', k)
        BY <3>2, <4>1
      <4> QED
        BY <4>1, <4>2
    <3>4. Noted(notice, v, waiting', Len(waiting'))
      <4>1. Len(waiting') \in Nat /\ Len(waiting') = Len(waiting) - 1
        BY <3>1, LenProperties
      <4> QED
        BY <1>0, <2>0, <3>2, <4>1
    <3> QED
      BY <3>3, <3>4
  <2> QED
    BY <2>1, <2>2
<1>7. SubtitlesObey'
  <2> SUFFICES ASSUME NEW s \in shown', s.version # 0
               PROVE  \E v \in s.said.after .. s.version : s.said.text \notin Version(v).blocks
    BY DEF SubtitlesObey, Version
  <2>1. CASE s \in shown
    BY <2>1 DEF SubtitlesObey
  <2>2. CASE /\ visual.up /\ waiting # << >> /\ Head(waiting).kind # "config" /\ Accepted
             /\ s = [said |-> Head(waiting), version |-> visual.version,
                     sender |-> visual.sender]
    <3>1. /\ s.said = Head(waiting) /\ s.version = visual.version
          /\ s.said.text \notin Version(s.version).blocks
      BY <2>2 DEF Accepted
    <3>2. Head(waiting) = waiting[1] /\ 1 \in DOMAIN waiting /\ Head(waiting) \in Notice
      BY <1>0, <2>2, SeqPop, SMTT(30)
    <3>3. Noted(waiting[1].after, visual.version, waiting, 1)
      BY <2>2, <3>1, <3>2 DEF NoticesAhead
    <3>4. \A j \in DOMAIN waiting : j <= 1 => j = 1
      BY <1>0, SeqShape
    <3>5. s.said.after <= s.version /\ s.said.after \in Nat
      BY <2>2, <3>1, <3>2, <3>3, <3>4 DEF Noted, Notice
    <3>6. s.version \in s.said.after .. s.version
      BY <1>0, <3>1, <3>5
    <3> QED
      BY <3>1, <3>6
  <2> QED
    BY <2>1, <2>2
<1> QED
  BY <1>4, <1>5, <1>6, <1>7

LEMMA HandleSteps_Inv ==
    ASSUME SubtitleInv,
           \/ EndVisual \/ HandleUnmoved \/ HandleRaises
           \/ \E ends \in BOOLEAN : HandleChat(ends)
    PROVE  SubtitleInv'
<1>1. CASE EndVisual
  BY <1>1, Handles_Inv DEF EndVisual, outside
<1>2. CASE HandleUnmoved
  BY <1>2, Handles_Inv DEF HandleUnmoved, outside
<1>3. CASE HandleRaises
  BY <1>3, Handles_Inv DEF HandleRaises, outside
<1>4. ASSUME NEW ends \in BOOLEAN, HandleChat(ends) PROVE SubtitleInv'
  <2>1. /\ visual.up /\ waiting # << >> /\ Head(waiting).kind = "chat" /\ Accepted
        /\ shown' = shown \cup {[said |-> Head(waiting), version |-> visual.version,
                                 sender |-> visual.sender]}
        /\ waiting' = waiting \/ waiting' = Tail(waiting)
        /\ visual' = [visual EXCEPT !.up = ~ends]
        /\ UNCHANGED << edits, torn, notice, spout, override, visualRuns >>
    BY <1>4 DEF HandleChat, outside
  <2>2. visual' = visual \/ visual' = [visual EXCEPT !.up = FALSE]
    BY <2>1 DEF SubtitleInv, SubtitleTypeOK, Visual
  <2> QED
    BY <2>1, <2>2, Handles_Inv
<1> QED
  BY <1>1, <1>2, <1>3, <1>4

LEMMA SubtitleNext_Inv == SubtitleInv /\ [SubtitleNext]_subtitleVars => SubtitleInv'
<1> SUFFICES ASSUME SubtitleInv, [SubtitleNext]_subtitleVars PROVE SubtitleInv'
  OBVIOUS
<1>1. CASE \/ EditBegins
           \/ \E B \in SUBSET Texts, backend \in Backend :
                 EditEnds([blocks |-> B, backend |-> backend])
  BY <1>1, EditSteps_Inv
<1>2. CASE NoticeQueued
  BY <1>2, NoticeQueued_Inv
<1>3. CASE MessageQueued("other", "")
  BY <1>3, MessageQueued_Inv
<1>4. CASE \E text \in Texts : MessageQueued("chat", text)
  BY <1>4, MessageQueued_Inv
<1>5. CASE StartVisual
  BY <1>5, StartVisual_Inv
<1>6. CASE HandleConfigChanged
  BY <1>6, ConfigChanged_Inv
<1>7. CASE \/ EndVisual \/ HandleUnmoved \/ HandleRaises
           \/ \E ends \in BOOLEAN : HandleChat(ends)
  BY <1>7, HandleSteps_Inv
<1>8. CASE UNCHANGED subtitleVars
  <2>1. UNCHANGED << edits, torn, notice, waiting, spout, override, visual, shown, visualRuns >>
    BY <1>8 DEF subtitleVars
  <2>2. SubtitleTypeOK' /\ VersionsSaved'
    BY <2>1 DEF SubtitleInv, SubtitleTypeOK, VersionsSaved
  <2>3. NoticesAhead' /\ SubtitlesObey'
    BY <2>1 DEF SubtitleInv, NoticesAhead, SubtitlesObey, Version
  <2> QED
    BY <2>2, <2>3 DEF SubtitleInv
<1> QED
  BY <1>1, <1>2, <1>3, <1>4, <1>5, <1>6, <1>7, <1>8 DEF SubtitleNext

LEMMA SubtitleSpec_Inv == SubtitleSpec => []SubtitleInv
BY SubtitleInit_Inv, SubtitleNext_Inv, PTL DEF SubtitleSpec

\* The state of the subtitles is well formed.
THEOREM SubtitleTyping == SubtitleSpec => []SubtitleTypeOK
<1>1. SubtitleInv => SubtitleTypeOK
  BY DEF SubtitleInv
<1> QED
  BY SubtitleSpec_Inv, <1>1, PTL

LEMMA SubtitlesObeyed == SubtitleSpec => []SubtitlesObey
<1>1. SubtitleInv => SubtitlesObey
  BY DEF SubtitleInv
<1> QED
  BY SubtitleSpec_Inv, <1>1, PTL

-----------------------------------------------------------------------------
(* YouTubeChat *)

TubeTypeOK ==
    /\ tube \in [said : Nat, live : BOOLEAN] /\ fetched \in Nat
    /\ polled \in Seq(Nat) /\ outQueue \in Seq(Nat) /\ sent \in Seq(Nat)
    /\ thread \in {"create", "poll", "dispatch", "full", "close", "over", "died"}
    /\ loop \in {"get", "publish", "leave", "gone"} /\ item \in Nat /\ lostItems \subseteq Nat

\* What has left the thread.
Passed == Elems(outQueue) \cup {item} \cup Elems(sent) \cup lostItems

\* What was fetched and is not dispatched is newer than all that was.
PolledNewer ==
    /\ fetched <= tube.said
    /\ \A a \in Passed : a <= fetched
    /\ Rising(polled)
    /\ \A p \in Elems(polled) : 0 < p /\ p <= fetched /\ \A a \in Passed : a < p
    /\ polled # << >> <=> thread \in {"dispatch", "full"}

\* The queue is in order, with None only at its end, and newer than what has left it.
QueueNewer ==
    /\ thread # "over" => End \notin Elems(outQueue)
    /\ \A j, k \in DOMAIN outQueue : j < k =>
          outQueue[j] # End /\ (outQueue[k] # End => outQueue[j] < outQueue[k])
    /\ \A q \in Elems(outQueue) : q # End =>
          item < q /\ (\A a \in Elems(sent) : a < q) /\ \A d \in lostItems : d < q

\* The item in hand is newer than what was published, and neither was lost.
SentInOrder ==
    /\ Rising(sent) /\ Elems(sent) \cap lostItems = {}
    /\ item # End => item \notin lostItems /\ \A a \in Elems(sent) : a < item

\* The loop leaves without an item only at the None behind everything.
LoopLeaves ==
    /\ loop = "get" => item = End
    /\ loop = "publish" => item # End
    /\ loop \in {"leave", "gone"} /\ item = End => thread = "over" /\ outQueue = << >>

TubeCovered == 1 .. fetched \subseteq Elems(polled) \cup Passed

TubeInv == TubeTypeOK /\ PolledNewer /\ QueueNewer /\ SentInOrder /\ LoopLeaves /\ TubeCovered

LEMMA TubeInit_Inv == TubeInit => TubeInv
<1> SUFFICES ASSUME TubeInit PROVE TubeInv
  OBVIOUS
<1>1. << >> \in Seq(Nat) /\ Elems(<< >>) = {} /\ Rising(<< >>) /\ DOMAIN << >> = {}
  BY SeqEmpty
<1>2. /\ tube = [said |-> 0, live |-> TRUE] /\ fetched = 0 /\ polled = << >>
      /\ thread = "create" /\ outQueue = << >> /\ loop = "get" /\ item = 0
      /\ sent = << >> /\ lostItems = {}
  BY DEF TubeInit, End
<1>3. TubeTypeOK
  BY <1>1, <1>2 DEF TubeTypeOK
<1>4. /\ Passed = {0} /\ Elems(polled) = {} /\ Rising(polled) /\ Rising(sent)
      /\ Elems(sent) = {} /\ Elems(outQueue) = {} /\ DOMAIN outQueue = {}
  BY <1>1, <1>2 DEF Passed
<1>5. PolledNewer
  BY <1>2, <1>4 DEF PolledNewer
<1>6. QueueNewer /\ SentInOrder /\ LoopLeaves
  BY <1>2, <1>4 DEF QueueNewer, SentInOrder, LoopLeaves, End
<1>7. TubeCovered
  BY <1>2 DEF TubeCovered
<1> QED
  BY <1>3, <1>5, <1>6, <1>7 DEF TubeInv

\* What does not touch the items.
LEMMA TubeAround_Inv ==
    ASSUME TubeInv, Said \/ ChatOver \/ Create \/ ReaderRaises \/ QueueFull
    PROVE  TubeInv'
<1> USE DEF TubeInv
<1>1. /\ tube' \in [said : Nat, live : BOOLEAN] /\ tube'.said \in {tube.said, tube.said + 1}
      /\ thread' \in {"create", "poll", "dispatch", "full", "close", "over", "died"}
      /\ thread' \in {"dispatch", "full"} <=> thread \in {"dispatch", "full"}
      /\ thread' = "over" <=> thread = "over"
      /\ UNCHANGED << fetched, polled, outQueue, loop, item, sent, lostItems >>
  <2>0. tube.said \in Nat /\ tube \in [said : Nat, live : BOOLEAN]
        /\ thread \in {"create", "poll", "dispatch", "full", "close", "over", "died"}
    BY DEF TubeTypeOK
  <2>1. CASE Said
    <3>1. tube' = [said |-> tube.said + 1, live |-> tube.live]
      BY <2>0, <2>1 DEF Said
    <3> QED
      BY <2>0, <2>1, <3>1 DEF Said, loopVars
  <2>2. CASE ChatOver
    <3>1. tube' = [said |-> tube.said, live |-> FALSE]
      BY <2>0, <2>2 DEF ChatOver
    <3> QED
      BY <2>0, <2>2, <3>1 DEF ChatOver, loopVars
  <2>3. CASE Create
    BY <2>0, <2>3 DEF Create, loopVars
  <2>4. CASE ReaderRaises
    BY <2>0, <2>4 DEF ReaderRaises, loopVars
  <2>5. CASE QueueFull
    BY <2>0, <2>5 DEF QueueFull, loopVars
  <2> QED
    BY <2>1, <2>2, <2>3, <2>4, <2>5
<1>2. TubeTypeOK'
  BY <1>1 DEF TubeTypeOK
<1>3. PolledNewer'
  <2>1. tube.said \in Nat /\ tube'.said \in Nat /\ fetched \in Nat
    BY <1>1 DEF TubeTypeOK
  <2> QED
    BY <1>1, <2>1 DEF PolledNewer, Passed
<1>4. QueueNewer' /\ SentInOrder' /\ LoopLeaves' /\ TubeCovered'
  BY <1>1 DEF QueueNewer, SentInOrder, LoopLeaves, TubeCovered, Passed
<1> QED
  BY <1>2, <1>3, <1>4

LEMMA Fetch_Inv == ASSUME TubeInv, Fetch PROVE TubeInv'
<1> USE DEF TubeInv
<1>0. /\ fetched \in Nat /\ tube.said \in Nat /\ fetched <= tube.said
      /\ Passed \subseteq Nat /\ \A a \in Passed : a <= fetched
  BY SeqShape DEF TubeTypeOK, PolledNewer, Passed
<1>1. /\ thread = "poll" /\ polled = << >>
      /\ UNCHANGED << tube, outQueue, loop, item, sent, lostItems >>
  BY DEF Fetch, loopVars, PolledNewer
<1>2. QueueNewer' /\ SentInOrder' /\ LoopLeaves' /\ Passed' = Passed
  <2>1. thread' # "over"
    BY DEF Fetch
  <2> QED
    BY <1>1, <2>1 DEF QueueNewer, SentInOrder, LoopLeaves, Passed
<1>3. CASE ~tube.live
  <2>1. thread' = "close" /\ UNCHANGED << fetched, polled >>
    BY <1>3 DEF Fetch
  <2>2. TubeTypeOK' /\ PolledNewer' /\ TubeCovered'
    BY <1>1, <1>2, <2>1 DEF TubeTypeOK, PolledNewer, TubeCovered
  <2> QED
    BY <1>2, <2>2
<1>4. CASE tube.live
  <2> DEFINE n == tube.said - fetched
  <2>1. /\ fetched' = tube.said /\ polled' = [k \in 1 .. n |-> fetched + k]
        /\ thread' = IF polled' = << >> THEN "poll" ELSE "dispatch"
    BY <1>4 DEF Fetch
  <2>2. n \in Nat /\ tube.said = fetched + n
    BY <1>0
  <2> HIDE DEF n
  <2>3. \A k \in 1 .. n : fetched + k \in Nat
    BY <1>0, <2>2
  <2>4. /\ polled' \in Seq(Nat) /\ DOMAIN polled' = 1 .. n
        /\ \A k \in 1 .. n : polled'[k] = fetched + k
    BY <2>1, <2>2, <2>3
  <2>5. TubeTypeOK'
    BY <1>0, <1>1, <2>1, <2>4 DEF TubeTypeOK
  <2>6. Rising(polled')
    BY <1>0, <2>2, <2>4 DEF Rising
  <2>7. \A p \in Elems(polled') : p \in Nat /\ fetched < p /\ p <= tube.said
    BY <1>0, <2>2, <2>4 DEF Elems
  <2>8. PolledNewer'
    <3>1. \A p \in Elems(polled') : 0 < p /\ p <= tube.said /\ \A a \in Passed : a < p
      BY <1>0, <2>7
    <3>2. \A a \in Passed : a <= tube.said
      BY <1>0
    <3> QED
      BY <1>0, <1>1, <1>2, <2>1, <2>6, <3>1, <3>2 DEF PolledNewer
  <2>9. TubeCovered'
    <3> SUFFICES ASSUME NEW x \in 1 .. tube.said PROVE x \in Elems(polled') \cup Passed
      BY <1>2, <2>1 DEF TubeCovered
    <3>1. CASE x <= fetched
      <4>1. x \in 1 .. fetched /\ Elems(polled) = {}
        BY <1>0, <1>1, <3>1, SeqEmpty
      <4> QED
        BY <4>1 DEF TubeCovered
    <3>2. CASE ~(x <= fetched)
      <4>1. x - fetched \in 1 .. n /\ fetched + (x - fetched) = x
        BY <1>0, <2>2, <3>2
      <4> QED
        BY <2>4, <4>1 DEF Elems
    <3> QED
      BY <3>1, <3>2
  <2> QED
    BY <1>2, <2>5, <2>8, <2>9
<1> QED
  BY <1>3, <1>4

\* An item goes into the queue; what is in the queue before it, or in its place, is older.
LEMMA Dispatch_Inv ==
    ASSUME TubeInv, NEW q \in Seq(Nat), NEW thrown \in SUBSET Nat,
           thread \in {"dispatch", "full"}, Dispatched,
           \/ q = outQueue /\ thrown = lostItems
           \/ /\ outQueue # << >> /\ q = Tail(outQueue)
              /\ thrown = lostItems \cup {Head(outQueue)},
           outQueue' = Append(q, Head(polled)), lostItems' = thrown,
           UNCHANGED << tube, fetched, loop, item, sent >>
    PROVE  TubeInv'
<1> USE DEF TubeInv
<1>0. /\ fetched \in Nat /\ polled \in Seq(Nat) /\ outQueue \in Seq(Nat) /\ sent \in Seq(Nat)
      /\ item \in Nat /\ lostItems \subseteq Nat /\ polled # << >>
      /\ Elems(outQueue) \subseteq Nat /\ Elems(sent) \subseteq Nat
  BY SeqShape DEF TubeTypeOK, PolledNewer
<1> DEFINE h == Head(polled)
<1>1. /\ h \in Nat /\ Tail(polled) \in Seq(Nat) /\ Len(Tail(polled)) = Len(polled) - 1
      /\ Elems(polled) = {h} \cup Elems(Tail(polled)) /\ Len(polled) >= 1 /\ Len(polled) \in Nat
      /\ Elems(Tail(polled)) \subseteq Nat
      /\ (Tail(polled) = << >> <=> Len(Tail(polled)) = 0)
  BY <1>0, SeqPop, SeqShape
<1>2. Rising(Tail(polled)) /\ \A b \in Elems(Tail(polled)) : h < b
  BY <1>0, RisingPop DEF PolledNewer
<1>3. 0 < h /\ h <= fetched /\ (\A a \in Passed : a < h) /\ \A a \in Passed : a <= fetched
  BY <1>1 DEF PolledNewer
<1> HIDE DEF h
<1>4. /\ outQueue' = Append(q, h) /\ polled' = Tail(polled)
      /\ thread' = IF Len(polled) > 1 THEN "dispatch" ELSE "poll"
  BY DEF Dispatched, h
<1>18. h \in Nat
  BY <1>1
<1>5. /\ Append(q, h) \in Seq(Nat) /\ DOMAIN Append(q, h) = DOMAIN q \cup {Len(q) + 1}
      /\ Append(q, h)[Len(q) + 1] = h /\ Elems(Append(q, h)) = Elems(q) \cup {h}
      /\ \A k \in DOMAIN q : Append(q, h)[k] = q[k] /\ k < Len(q) + 1
  BY <1>18, SeqPush, SMTT(30)
<1>6. /\ outQueue' \in Seq(Nat) /\ DOMAIN outQueue' = DOMAIN q \cup {Len(q) + 1}
      /\ outQueue'[Len(q) + 1] = h /\ Elems(outQueue') = Elems(q) \cup {h}
      /\ \A k \in DOMAIN q : outQueue'[k] = q[k] /\ k < Len(q) + 1
  BY <1>4, <1>5
<1>7. /\ Elems(q) \cup thrown = Elems(outQueue) \cup lostItems
      /\ lostItems \subseteq thrown /\ Elems(q) \subseteq Elems(outQueue)
  <2>1. CASE q = outQueue /\ thrown = lostItems
    BY <2>1
  <2>2. CASE /\ outQueue # << >> /\ q = Tail(outQueue)
             /\ thrown = lostItems \cup {Head(outQueue)}
    BY <1>0, <2>2, SeqPop, SMTT(30)
  <2> QED
    BY <2>1, <2>2
<1>8. Passed' = Passed \cup {h}
  BY <1>6, <1>7 DEF Passed
<1>9. thread' # "over" /\ (thread' \in {"dispatch", "full"} <=> Tail(polled) # << >>)
  BY <1>1, <1>4
<1>10. TubeTypeOK'
  BY <1>1, <1>4, <1>6 DEF TubeTypeOK
<1>11. PolledNewer'
  <2>1. \A p \in Elems(Tail(polled)) : 0 < p /\ p <= fetched /\ \A a \in Passed : a < p
    BY <1>1 DEF PolledNewer
  <2>2. \A p \in Elems(Tail(polled)) : \A a \in Passed' : a < p
    BY <1>2, <1>8, <2>1
  <2>3. \A a \in Passed' : a <= fetched
    BY <1>3, <1>8
  <2>4. fetched <= tube.said
    BY DEF PolledNewer
  <2> QED
    BY <1>2, <1>4, <1>9, <2>1, <2>2, <2>3, <2>4 DEF PolledNewer
<1>12. /\ End \notin Elems(outQueue)
       /\ \A k \in DOMAIN outQueue : outQueue[k] \in Elems(outQueue)
  BY SeqShape, <1>0 DEF QueueNewer
<1>13. /\ \A j, k \in DOMAIN q : j < k => q[j] < q[k]
       /\ \A d \in thrown, b \in Elems(q) : d < b
       /\ \A d \in thrown : d \in lostItems \/ (d \in Elems(outQueue) /\ d # End)
  <2>1. CASE q = outQueue /\ thrown = lostItems
    BY <1>12, <2>1 DEF QueueNewer
  <2>2. CASE /\ outQueue # << >> /\ q = Tail(outQueue)
             /\ thrown = lostItems \cup {Head(outQueue)}
    <3>1. Rising(outQueue)
      BY <1>12 DEF QueueNewer, Rising
    <3>2. Rising(Tail(outQueue)) /\ \A b \in Elems(Tail(outQueue)) : Head(outQueue) < b
      BY <1>0, <2>2, <3>1, RisingPop
    <3>3. Head(outQueue) \in Elems(outQueue) /\ Elems(q) \subseteq Elems(outQueue)
      BY <1>0, <1>7, <2>2, SeqPop, SMTT(30)
    <3>4. \A d \in lostItems, b \in Elems(q) : d < b
      BY <1>12, <3>3 DEF QueueNewer
    <3> QED
      BY <1>12, <2>2, <3>2, <3>3, <3>4 DEF Rising
  <2> QED
    BY <2>1, <2>2
<1>14. QueueNewer'
  <2>1. \A k \in DOMAIN q : q[k] \in Elems(q) /\ q[k] \in Elems(outQueue)
    BY <1>7 DEF Elems
  <2>2. \A a \in Elems(outQueue) \cup thrown \cup Elems(sent) \cup {item} : a < h
    BY <1>3, <1>7 DEF Passed
  <2>3. \A j, k \in DOMAIN outQueue' : j < k => outQueue'[j] # End /\ outQueue'[j] < outQueue'[k]
    <3> SUFFICES ASSUME NEW j \in DOMAIN outQueue', NEW k \in DOMAIN outQueue', j < k
                 PROVE  outQueue'[j] # End /\ outQueue'[j] < outQueue'[k]
      OBVIOUS
    <3>1. DOMAIN q = 1 .. Len(q) /\ Len(q) \in Nat
      BY SeqShape
    <3>2. j \in DOMAIN q
      BY <1>6, <3>1
    <3>3. CASE k \in DOMAIN q
      BY <1>6, <1>12, <1>13, <2>1, <3>2, <3>3
    <3>4. CASE k = Len(q) + 1
      BY <1>6, <1>12, <2>1, <2>2, <3>2, <3>4
    <3> QED
      BY <1>6, <3>3, <3>4
  <2>4. \A b \in Elems(q) : item < b /\ (\A a \in Elems(sent) : a < b) /\ \A d \in thrown : d < b
    BY <1>7, <1>12, <1>13 DEF QueueNewer
  <2>5. \A b \in Elems(outQueue') :
           item < b /\ (\A a \in Elems(sent) : a < b) /\ \A d \in thrown : d < b
    BY <1>6, <2>2, <2>4
  <2>6. End \notin Elems(outQueue')
    BY <1>3, <1>6, <1>7, <1>12 DEF End
  <2> QED
    BY <1>9, <2>3, <2>5, <2>6 DEF QueueNewer
<1>15. SentInOrder'
  <2>1. /\ Rising(sent) /\ Elems(sent) \cap lostItems = {}
        /\ item # End => item \notin lostItems /\ \A a \in Elems(sent) : a < item
    BY DEF SentInOrder
  <2>2. \A b \in Elems(outQueue) : b # End => b # item /\ b \notin Elems(sent)
    BY <1>0 DEF QueueNewer
  <2>3. Elems(sent) \cap thrown = {} /\ (item # End => item \notin thrown)
    BY <1>13, <2>1, <2>2
  <2> QED
    BY <2>1, <2>3 DEF SentInOrder
<1>16. LoopLeaves'
  BY DEF LoopLeaves
<1>17. TubeCovered'
  BY <1>1, <1>4, <1>8 DEF TubeCovered
<1> QED
  BY <1>10, <1>11, <1>14, <1>15, <1>16, <1>17

LEMMA DispatchSteps_Inv == ASSUME TubeInv, PutItem \/ MakeRoom PROVE TubeInv'
<1>0. outQueue \in Seq(Nat) /\ lostItems \subseteq Nat
  BY DEF TubeInv, TubeTypeOK
<1>1. CASE PutItem
  BY <1>0, <1>1, Dispatch_Inv DEF PutItem, loopVars
<1>2. CASE MakeRoom /\ outQueue = << >>
  <2>1. outQueue' = Append(outQueue, Head(polled)) /\ lostItems' = lostItems
    BY <1>2 DEF MakeRoom
  <2>2. /\ thread \in {"dispatch", "full"} /\ Dispatched
        /\ UNCHANGED << tube, fetched, loop, item, sent >>
    BY <1>2 DEF MakeRoom, loopVars
  <2> QED
    BY <1>0, <2>1, <2>2, Dispatch_Inv
<1>3. CASE MakeRoom /\ outQueue # << >>
  <2>1. /\ outQueue' = Append(Tail(outQueue), Head(polled))
        /\ lostItems' = lostItems \cup {Head(outQueue)}
        /\ thread \in {"dispatch", "full"} /\ Dispatched
        /\ UNCHANGED << tube, fetched, loop, item, sent >>
    BY <1>3 DEF MakeRoom, loopVars
  <2>2. Tail(outQueue) \in Seq(Nat) /\ Head(outQueue) \in Nat
    BY <1>0, <1>3, SeqPop, SMTT(30)
  <2>3. lostItems \cup {Head(outQueue)} \in SUBSET Nat
    BY <1>0, <2>2
  <2> QED
    BY <1>3, <2>1, <2>2, <2>3, Dispatch_Inv
<1> QED
  BY <1>1, <1>2, <1>3

LEMMA PutEnd_Inv == ASSUME TubeInv, PutEnd PROVE TubeInv'
<1> USE DEF TubeInv
<1>0. outQueue \in Seq(Nat) /\ End \in Nat /\ DOMAIN outQueue = 1 .. Len(outQueue)
      /\ Len(outQueue) \in Nat
  BY SeqShape DEF TubeTypeOK, End
<1>1. /\ thread = "close" /\ thread' = "over" /\ outQueue' = Append(outQueue, End)
      /\ UNCHANGED << tube, fetched, polled, loop, item, sent, lostItems >>
  BY DEF PutEnd, loopVars
<1>2. /\ Append(outQueue, End) \in Seq(Nat)
      /\ DOMAIN Append(outQueue, End) = DOMAIN outQueue \cup {Len(outQueue) + 1}
      /\ Append(outQueue, End)[Len(outQueue) + 1] = End
      /\ Elems(Append(outQueue, End)) = Elems(outQueue) \cup {End}
      /\ \A k \in DOMAIN outQueue : /\ Append(outQueue, End)[k] = outQueue[k]
                                    /\ k < Len(outQueue) + 1
  BY <1>0, SeqPush, SMTT(30)
<1>3. /\ outQueue' \in Seq(Nat) /\ DOMAIN outQueue' = DOMAIN outQueue \cup {Len(outQueue) + 1}
      /\ outQueue'[Len(outQueue) + 1] = End /\ Elems(outQueue') = Elems(outQueue) \cup {End}
      /\ \A k \in DOMAIN outQueue : outQueue'[k] = outQueue[k] /\ k < Len(outQueue) + 1
  BY <1>1, <1>2
<1>4. /\ polled = << >> /\ Elems(polled) = {} /\ Passed' = Passed \cup {End}
  BY <1>1, <1>3, SeqEmpty DEF PolledNewer, Passed
<1>5. TubeTypeOK'
  BY <1>1, <1>3 DEF TubeTypeOK
<1>6. PolledNewer'
  <2>1. fetched \in Nat /\ End <= fetched
    BY DEF TubeTypeOK, End
  <2> QED
    BY <1>1, <1>4, <2>1 DEF PolledNewer
<1>7. QueueNewer'
  <2>1. End \notin Elems(outQueue) /\ \A k \in DOMAIN outQueue : outQueue[k] \in Elems(outQueue)
    BY <1>1 DEF QueueNewer, Elems
  <2>2. \A j, k \in DOMAIN outQueue' : j < k =>
           outQueue'[j] # End /\ (outQueue'[k] # End => outQueue'[j] < outQueue'[k])
    <3> SUFFICES ASSUME NEW j \in DOMAIN outQueue', NEW k \in DOMAIN outQueue', j < k
                 PROVE  outQueue'[j] # End /\ (outQueue'[k] # End => outQueue'[j] < outQueue'[k])
      OBVIOUS
    <3>1. j \in DOMAIN outQueue
      BY <1>0, <1>3
    <3>2. CASE k \in DOMAIN outQueue
      BY <1>3, <2>1, <3>1, <3>2 DEF QueueNewer
    <3>3. CASE k = Len(outQueue) + 1
      BY <1>3, <2>1, <3>1, <3>3
    <3> QED
      BY <1>3, <3>2, <3>3
  <2>3. \A q \in Elems(outQueue') : q # End =>
          item < q /\ (\A a \in Elems(sent) : a < q) /\ \A d \in lostItems : d < q
    BY <1>3 DEF QueueNewer
  <2> QED
    BY <1>1, <2>2, <2>3 DEF QueueNewer
<1>8. SentInOrder' /\ TubeCovered'
  BY <1>1, <1>4 DEF SentInOrder, TubeCovered
<1>9. LoopLeaves'
  BY <1>1 DEF LoopLeaves
<1> QED
  BY <1>5, <1>6, <1>7, <1>8, <1>9

\* The loop takes an item, or the None.
LEMMA GetItem_Inv == ASSUME TubeInv, GetItem PROVE TubeInv'
<1> USE DEF TubeInv
<1>0. /\ outQueue \in Seq(Nat) /\ Elems(sent) \subseteq Nat /\ lostItems \subseteq Nat
      /\ fetched \in Nat /\ outQueue # << >>
  BY SeqShape DEF TubeTypeOK, GetItem
<1>1. /\ item = End /\ item' = Head(outQueue) /\ outQueue' = Tail(outQueue)
      /\ loop' = (IF item' = End THEN "leave" ELSE "publish")
      /\ UNCHANGED << tube, fetched, polled, thread, sent, lostItems >>
  BY DEF GetItem, LoopLeaves
<1>2. /\ Tail(outQueue) \in Seq(Nat) /\ Head(outQueue) \in Nat /\ Head(outQueue) = outQueue[1]
      /\ 1 \in DOMAIN outQueue
      /\ \A k \in DOMAIN Tail(outQueue) : /\ k \in Nat /\ k + 1 \in DOMAIN outQueue
                                          /\ Tail(outQueue)[k] = outQueue[k + 1]
      /\ Elems(outQueue) = {Head(outQueue)} \cup Elems(Tail(outQueue))
  BY <1>0, SeqPop, SMTT(30)
<1>3. /\ outQueue' \in Seq(Nat) /\ item' \in Nat /\ item' = outQueue[1]
      /\ \A k \in DOMAIN outQueue' : /\ k \in Nat /\ k + 1 \in DOMAIN outQueue
                                     /\ outQueue'[k] = outQueue[k + 1]
      /\ Elems(outQueue) = {item'} \cup Elems(outQueue')
  BY <1>1, <1>2
<1>4. Passed' \cup {End} = Passed
  BY <1>1, <1>3 DEF Passed
<1>5. TubeTypeOK'
  BY <1>1, <1>3 DEF TubeTypeOK
<1>6. PolledNewer' /\ TubeCovered'
  <2>1. End \notin 1 .. fetched
    BY DEF End
  <2> QED
    BY <1>1, <1>4, <2>1 DEF PolledNewer, TubeCovered
<1>7. ASSUME NEW k \in DOMAIN outQueue'
      PROVE  item' # End /\ (outQueue'[k] # End => item' < outQueue'[k])
  <2>1. /\ k + 1 \in DOMAIN outQueue /\ 1 \in DOMAIN outQueue /\ 1 < k + 1
        /\ outQueue'[k] = outQueue[k + 1]
    <3>1. k \in Nat /\ k # 0
      BY <1>3, SeqShape
    <3> QED
      BY <1>2, <1>3, <3>1
  <2> QED
    BY <1>3, <2>1 DEF QueueNewer
<1>8. QueueNewer'
  <2>1. \A j, k \in DOMAIN outQueue' : j < k =>
           outQueue'[j] # End /\ (outQueue'[k] # End => outQueue'[j] < outQueue'[k])
    <3> SUFFICES ASSUME NEW j \in DOMAIN outQueue', NEW k \in DOMAIN outQueue', j < k
                 PROVE  outQueue'[j] # End /\ (outQueue'[k] # End => outQueue'[j] < outQueue'[k])
      OBVIOUS
    <3>1. /\ j + 1 \in DOMAIN outQueue /\ k + 1 \in DOMAIN outQueue /\ j + 1 < k + 1
          /\ outQueue'[j] = outQueue[j + 1] /\ outQueue'[k] = outQueue[k + 1]
      BY <1>3
    <3> QED
      BY <3>1 DEF QueueNewer
  <2>2. \A q \in Elems(outQueue') : q # End => item' < q
    BY <1>7 DEF Elems
  <2> QED
    BY <1>1, <1>3, <2>1, <2>2 DEF QueueNewer
<1>9. SentInOrder'
  <2>1. item' # End => (\A a \in Elems(sent) : a < item') /\ \A d \in lostItems : d < item'
    BY <1>3 DEF QueueNewer
  <2>2. item' # End => item' \notin lostItems
    <3>1. item' \in Nat
      BY <1>3
    <3> QED
      BY <2>1, <3>1
  <2> QED
    BY <1>1, <2>1, <2>2 DEF SentInOrder
<1>10. LoopLeaves'
  <2>1. item' = End => thread = "over"
    BY <1>3 DEF QueueNewer
  <2>2. item' = End => outQueue' = << >>
    <3>1. outQueue' # << >> => 1 \in DOMAIN outQueue'
      BY <1>3, SeqPop, SMTT(30)
    <3> QED
      BY <1>7, <3>1
  <2> QED
    BY <1>1, <2>1, <2>2 DEF LoopLeaves
<1> QED
  BY <1>5, <1>6, <1>8, <1>9, <1>10

LEMMA LoopSteps_Inv ==
    ASSUME TubeInv, PublishItem \/ PublishRaises \/ Leave
    PROVE  TubeInv'
<1> USE DEF TubeInv
<1>1. CASE PublishItem
  <2>0. sent \in Seq(Nat) /\ item \in Nat /\ End \in Nat
    BY DEF TubeTypeOK, End
  <2>1. /\ loop = "publish" /\ loop' = "get" /\ sent' = Append(sent, item) /\ item' = End
        /\ item # End
        /\ UNCHANGED << tube, fetched, polled, thread, outQueue, lostItems >>
    BY <1>1 DEF PublishItem, LoopLeaves
  <2>2. Rising(sent) /\ (\A a \in Elems(sent) : a < item) /\ item \notin lostItems
    BY <2>1 DEF SentInOrder
  <2>3. Append(sent, item) \in Seq(Nat) /\ Elems(Append(sent, item)) = Elems(sent) \cup {item}
    BY <2>0, SeqPush, SMTT(30)
  <2>4. Rising(Append(sent, item))
    BY <2>0, <2>2, RisingPush
  <2>5. sent' \in Seq(Nat) /\ Elems(sent') = Elems(sent) \cup {item} /\ Rising(sent')
    BY <2>1, <2>3, <2>4
  <2>6. Passed' = Passed \cup {End}
    BY <2>1, <2>5 DEF Passed
  <2>7. TubeTypeOK'
    BY <2>0, <2>1, <2>5 DEF TubeTypeOK
  <2>8. PolledNewer'
    <3>1. fetched \in Nat /\ End <= fetched /\ \A p \in Elems(polled) : 0 < p => End < p
      BY DEF TubeTypeOK, End
    <3> QED
      BY <2>1, <2>6, <3>1 DEF PolledNewer
  <2>9. QueueNewer'
    <3>1. \A q \in Elems(outQueue) : q # End => End < q
      BY SeqShape DEF TubeTypeOK, End
    <3> QED
      BY <2>1, <2>5, <3>1 DEF QueueNewer
  <2>10. SentInOrder'
    BY <2>1, <2>2, <2>5 DEF SentInOrder
  <2>11. LoopLeaves' /\ TubeCovered'
    BY <2>1, <2>6 DEF LoopLeaves, TubeCovered
  <2> QED
    BY <2>7, <2>8, <2>9, <2>10, <2>11
<1>2. CASE PublishRaises \/ Leave
  <2>1. /\ loop' \in {"leave", "gone"} /\ (loop = "publish" \/ loop = "leave")
        /\ UNCHANGED << tube, fetched, polled, thread, outQueue, item, sent, lostItems >>
    BY <1>2 DEF PublishRaises, Leave
  <2>2. TubeTypeOK'
    BY <2>1 DEF TubeTypeOK
  <2>3. PolledNewer' /\ QueueNewer' /\ SentInOrder' /\ TubeCovered'
    BY <2>1 DEF PolledNewer, QueueNewer, SentInOrder, TubeCovered, Passed
  <2>4. LoopLeaves'
    BY <2>1 DEF LoopLeaves
  <2> QED
    BY <2>2, <2>3, <2>4
<1> QED
  BY <1>1, <1>2

LEMMA TubeNext_Inv == TubeInv /\ [TubeNext]_tubeVars => TubeInv'
<1> SUFFICES ASSUME TubeInv, [TubeNext]_tubeVars PROVE TubeInv'
  OBVIOUS
<1>1. CASE Said \/ ChatOver \/ Create \/ ReaderRaises \/ QueueFull
  BY <1>1, TubeAround_Inv
<1>2. CASE Fetch
  BY <1>2, Fetch_Inv
<1>3. CASE PutItem \/ MakeRoom
  BY <1>3, DispatchSteps_Inv
<1>4. CASE PutEnd
  BY <1>4, PutEnd_Inv
<1>5. CASE GetItem
  BY <1>5, GetItem_Inv
<1>6. CASE PublishItem \/ PublishRaises \/ Leave
  BY <1>6, LoopSteps_Inv
<1>7. CASE UNCHANGED tubeVars
  <2>1. UNCHANGED << tube, fetched, polled, thread, outQueue, loop, item, sent, lostItems >>
    BY <1>7 DEF tubeVars
  <2>2. TubeTypeOK' /\ PolledNewer' /\ QueueNewer'
    BY <2>1 DEF TubeInv, TubeTypeOK, PolledNewer, QueueNewer, Passed
  <2>3. SentInOrder' /\ LoopLeaves' /\ TubeCovered'
    BY <2>1 DEF TubeInv, SentInOrder, LoopLeaves, TubeCovered, Passed
  <2> QED
    BY <2>2, <2>3 DEF TubeInv
<1> QED
  BY <1>1, <1>2, <1>3, <1>4, <1>5, <1>6, <1>7 DEF TubeNext

LEMMA TubeSpec_Inv == TubeSpec => []TubeInv
BY TubeInit_Inv, TubeNext_Inv, PTL DEF TubeSpec

\* The state of the YouTube chat is well formed.
THEOREM TubeTyping == TubeSpec => []TubeTypeOK
<1>1. TubeInv => TubeTypeOK
  BY DEF TubeInv
<1> QED
  BY TubeSpec_Inv, <1>1, PTL

LEMMA TubeOrdered == TubeSpec => []TubeInOrder
<1>1. TubeInv => TubeInOrder
  <2> SUFFICES ASSUME TubeInv PROVE TubeInOrder
    OBVIOUS
  <2> USE DEF TubeInv
  <2>1. /\ SetOf(polled) = Elems(polled) /\ SetOf(outQueue) = Elems(outQueue)
        /\ SetOf(sent) = Elems(sent)
    BY DEF SetOf, Elems
  <2>2. \A j, k \in DOMAIN sent : j < k => sent[j] < sent[k]
    BY DEF SentInOrder, Rising
  <2>3. 1 .. fetched \subseteq Elems(polled) \cup Elems(outQueue) \cup {item} \cup Elems(sent)
                                  \cup lostItems
    BY DEF TubeCovered, Passed
  <2>4. \A d \in lostItems, q \in Elems(outQueue) : q # End => d < q
    BY DEF QueueNewer
  <2>5. Elems(sent) \cap lostItems = {}
    BY DEF SentInOrder
  <2>6. loop = "gone" /\ item = End => 1 .. fetched \subseteq Elems(sent) \cup lostItems
    <3> SUFFICES ASSUME loop = "gone", item = End
                 PROVE  1 .. fetched \subseteq Elems(sent) \cup lostItems
      OBVIOUS
    <3>1. outQueue = << >> /\ polled = << >>
      BY DEF LoopLeaves, PolledNewer
    <3>2. Elems(outQueue) = {} /\ Elems(polled) = {}
      BY <3>1, SeqEmpty
    <3>3. End \notin 1 .. fetched
      BY DEF End
    <3> QED
      BY <2>3, <3>2, <3>3
  <2> QED
    BY <2>1, <2>2, <2>3, <2>4, <2>5, <2>6 DEF TubeInOrder
<1> QED
  BY TubeSpec_Inv, <1>1, PTL

-----------------------------------------------------------------------------
(* ChatIngress *)

Ids     == Nat \ {0}
Told    == [kind : {"chat", "online", "offline"}, id : Nat]
Handler == [id : Ids, pc : {"publish", "welcome"}, stream : Nat]

ChatTypeOK ==
    /\ chatters \in Seq({"viewer", "other"}) /\ live \in [number : Nat, on : BOOLEAN]
    /\ notices \subseteq Told /\ tasks \subseteq Handler /\ IsFiniteSet(tasks)
    /\ session \in [stream : Nat, claimed : BOOLEAN] /\ rows \subseteq Ids
    /\ published \in Seq(Ids) /\ welcomes \in Seq(Nat \X Ids) /\ armed \in Seq(Nat)
    /\ irc \in [on : BOOLEAN, queue : Seq(Ids), current : Nat] /\ troubles \in Nat

\* The messages the tasks of eventsub are publishing.
Publishing == {t.id : t \in {u \in tasks : u.pc = "publish"}}

\* A message is claimed before it is published, and has one publisher.
ClaimedOnce ==
    /\ Elems(published) \cup Publishing \subseteq rows
    /\ irc.current # 0 => irc.current \in rows \ (Elems(published) \cup Publishing)
    /\ Elems(published) \cap Publishing = {}
    /\ Distinct(published)
    /\ \A t \in tasks : t.pc = "publish" => t.stream = 0

ClaimsKept == troubles = 0 => rows \subseteq Elems(published) \cup Publishing \cup {irc.current}

\* The welcomes to stream s, given, on their way and still to claim, and its starts.
Welcomed(s) == {k \in DOMAIN welcomes : welcomes[k][1] = s}
Welcoming(s) == {t \in tasks : t.pc = "welcome" /\ t.stream = s}
Open(s) == IF session.stream = s /\ ~session.claimed THEN 1 ELSE 0
Armings(s) == {k \in DOMAIN armed : armed[k] = s}

WelcomesAllowed ==
    \A s : Cardinality(Welcomed(s)) + Cardinality(Welcoming(s)) + Open(s)
              <= Cardinality(Armings(s))

\* Who is or will be welcomed is a viewer.
ViewersKnown ==
    /\ \A n \in notices : n.kind = "chat" => n.id \in DOMAIN chatters
    /\ \A t \in tasks : t.id \in DOMAIN chatters /\ (t.pc = "welcome" => chatters[t.id] = "viewer")
    /\ \A k \in DOMAIN welcomes :
          welcomes[k][2] \in DOMAIN chatters /\ chatters[welcomes[k][2]] = "viewer"

ChatInv == ChatTypeOK /\ ClaimedOnce /\ ClaimsKept /\ WelcomesAllowed /\ ViewersKnown

LEMMA ChatInit_Inv == ChatInit => ChatInv
<1> SUFFICES ASSUME ChatInit PROVE ChatInv
  OBVIOUS
<1>1. /\ << >> \in Seq({"viewer", "other"}) /\ << >> \in Seq(Ids) /\ << >> \in Seq(Nat \X Ids)
      /\ << >> \in Seq(Nat) /\ Elems(<< >>) = {} /\ DOMAIN << >> = {}
  BY SeqEmpty
<1>2. IsFiniteSet({}) /\ Cardinality({}) = 0
  BY FS_EmptySet
<1>3. /\ chatters = << >> /\ live = [number |-> 0, on |-> FALSE] /\ notices = {} /\ tasks = {}
      /\ session = [stream |-> 0, claimed |-> TRUE] /\ rows = {} /\ published = << >>
      /\ welcomes = << >> /\ armed = << >>
      /\ irc = [on |-> FALSE, queue |-> << >>, current |-> 0] /\ troubles = 0
  BY DEF ChatInit, NoSession
<1>4. ChatTypeOK
  <2>1. irc \in [on : BOOLEAN, queue : Seq(Ids), current : Nat]
    BY <1>1, <1>3
  <2>2. session \in [stream : Nat, claimed : BOOLEAN] /\ live \in [number : Nat, on : BOOLEAN]
    BY <1>3
  <2> QED
    BY <1>1, <1>2, <1>3, <2>1, <2>2 DEF ChatTypeOK
<1>5. ClaimedOnce /\ ClaimsKept
  BY <1>1, <1>3 DEF ClaimedOnce, ClaimsKept, Publishing, Distinct
<1>6. WelcomesAllowed
  <2> SUFFICES ASSUME NEW s
               PROVE  Cardinality(Welcomed(s)) + Cardinality(Welcoming(s)) + Open(s)
                        <= Cardinality(Armings(s))
    BY DEF WelcomesAllowed
  <2>1. DOMAIN welcomes = {} /\ DOMAIN armed = {}
    BY <1>1, <1>3
  <2>2. Welcomed(s) = {} /\ Welcoming(s) = {} /\ Armings(s) = {}
    BY <1>3, <2>1 DEF Welcomed, Welcoming, Armings
  <2>3. Open(s) = 0
    BY <1>3 DEF Open
  <2>4. Cardinality(Welcomed(s)) = 0 /\ Cardinality(Welcoming(s)) = 0 /\ Cardinality(Armings(s)) = 0
    BY <1>2, <2>2
  <2> QED
    BY <2>3, <2>4
<1>7. ViewersKnown
  BY <1>1, <1>3 DEF ViewersKnown
<1> QED
  BY <1>4, <1>5, <1>6, <1>7 DEF ChatInv

LEMMA ChatCounted ==
    ASSUME ChatTypeOK, NEW s
    PROVE  /\ IsFiniteSet(Welcomed(s)) /\ Cardinality(Welcomed(s)) \in Nat
           /\ IsFiniteSet(Welcoming(s)) /\ Cardinality(Welcoming(s)) \in Nat
           /\ IsFiniteSet(Armings(s)) /\ Cardinality(Armings(s)) \in Nat
           /\ Open(s) \in {0, 1}
<1>1. /\ DOMAIN welcomes = 1 .. Len(welcomes) /\ Len(welcomes) \in Nat
      /\ DOMAIN armed = 1 .. Len(armed) /\ Len(armed) \in Nat
  BY SeqShape DEF ChatTypeOK
<1>2. IsFiniteSet(DOMAIN welcomes) /\ IsFiniteSet(DOMAIN armed) /\ IsFiniteSet(tasks)
  BY <1>1, FS_Interval DEF ChatTypeOK
<1>3. /\ Welcomed(s) \subseteq DOMAIN welcomes /\ Welcoming(s) \subseteq tasks
      /\ Armings(s) \subseteq DOMAIN armed
  BY DEF Welcomed, Welcoming, Armings
<1>4. IsFiniteSet(Welcomed(s)) /\ IsFiniteSet(Welcoming(s)) /\ IsFiniteSet(Armings(s))
  BY <1>2, <1>3, FS_Subset
<1> QED
  BY <1>4, FS_CardinalityType DEF Open

\* What a viewer's message leaves of the tasks and of the session.
LEMMA AfterChat_Step ==
    ASSUME ChatInv, NEW t, t.pc # "welcome", NEW id \in Ids, id \in DOMAIN chatters,
           AfterChat(t, id), UNCHANGED chatters
    PROVE  /\ tasks' \subseteq Handler /\ IsFiniteSet(tasks')
           /\ session' \in [stream : Nat, claimed : BOOLEAN]
           /\ {u \in tasks' : u.pc = "publish"} = {u \in tasks : u.pc = "publish"} \ {t}
           /\ \A u \in tasks' : /\ u.id \in DOMAIN chatters
                                /\ u.pc = "welcome" => chatters[u.id] = "viewer"
           /\ \A s : Cardinality(Welcoming(s))' + Open(s)' <= Cardinality(Welcoming(s)) + Open(s)
<1>0. /\ tasks \subseteq Handler /\ IsFiniteSet(tasks)
      /\ session \in [stream : Nat, claimed : BOOLEAN] /\ session.stream \in Nat
  BY DEF ChatInv, ChatTypeOK
<1>1. \A u \in tasks : /\ u.id \in DOMAIN chatters
                       /\ u.pc = "welcome" => chatters[u.id] = "viewer"
  BY DEF ChatInv, ViewersKnown
<1>2. \A s : Cardinality(Welcoming(s)) \in Nat /\ IsFiniteSet(Welcoming(s)) /\ Open(s) \in {0, 1}
  BY ChatCounted DEF ChatInv
<1>3. CASE Claimable(id)
  <2> DEFINE w == [id |-> id, pc |-> "welcome", stream |-> session.stream]
  <2>1. /\ tasks' = (tasks \ {t}) \cup {w} /\ session' = [session EXCEPT !.claimed = TRUE]
        /\ chatters[id] = "viewer" /\ ~session.claimed
    BY <1>3 DEF AfterChat, Becomes, Task, Claimable
  <2>2. w \in Handler /\ w.pc = "welcome" /\ w.id = id /\ w.stream = session.stream
    BY <1>0 DEF Handler
  <2> HIDE DEF w
  <2>3. session' = [stream |-> session.stream, claimed |-> TRUE]
    BY <1>0, <2>1
  <2>4. tasks' \subseteq Handler
    BY <1>0, <2>1, <2>2
  <2>5. IsFiniteSet(tasks')
    <3>1. IsFiniteSet(tasks \ {t})
      BY <1>0, FS_RemoveElement
    <3> QED
      BY <2>1, <3>1, FS_AddElement
  <2>6. {u \in tasks' : u.pc = "publish"} = {u \in tasks : u.pc = "publish"} \ {t}
    BY <2>1, <2>2
  <2>7. \A u \in tasks' : /\ u.id \in DOMAIN chatters
                          /\ u.pc = "welcome" => chatters[u.id] = "viewer"
    BY <1>1, <2>1, <2>2
  <2>8. ASSUME NEW s
        PROVE  Cardinality(Welcoming(s))' + Open(s)' <= Cardinality(Welcoming(s)) + Open(s)
    <3>1. CASE s = session.stream
      <4>1. Welcoming(s)' = Welcoming(s) \cup {w}
        BY <2>1, <2>2, <3>1 DEF Welcoming
      <4>2. \/ Cardinality(Welcoming(s) \cup {w}) = Cardinality(Welcoming(s))
            \/ Cardinality(Welcoming(s) \cup {w}) = Cardinality(Welcoming(s)) + 1
        BY <1>2, FS_AddElement
      <4>3. Open(s) = 1 /\ Open(s)' = 0
        BY <2>1, <2>3, <3>1 DEF Open
      <4>4. \/ Cardinality(Welcoming(s))' = Cardinality(Welcoming(s))
            \/ Cardinality(Welcoming(s))' = Cardinality(Welcoming(s)) + 1
        BY <4>1, <4>2
      <4> QED
        BY <1>2, <4>3, <4>4
    <3>2. CASE s # session.stream
      <4>1. Welcoming(s)' = Welcoming(s)
        BY <2>1, <2>2, <3>2 DEF Welcoming
      <4>2. Open(s) = 0 /\ Open(s)' = 0
        BY <2>3, <3>2 DEF Open
      <4>3. Cardinality(Welcoming(s))' = Cardinality(Welcoming(s))
        BY <4>1
      <4>4. Cardinality(Welcoming(s)) \in Nat
        BY <1>2
      <4> QED
        BY <4>2, <4>3, <4>4
    <3> QED
      BY <3>1, <3>2
  <2>9. session' \in [stream : Nat, claimed : BOOLEAN]
    BY <1>0, <2>3
  <2> QED
    BY <2>4, <2>5, <2>6, <2>7, <2>8, <2>9
<1>4. CASE ~Claimable(id)
  <2>1. tasks' = tasks \ {t} /\ session' = session
    BY <1>4 DEF AfterChat, Becomes
  <2>2. tasks' \subseteq Handler /\ session' \in [stream : Nat, claimed : BOOLEAN]
    BY <1>0, <2>1
  <2>3. IsFiniteSet(tasks')
    BY <1>0, <2>1, FS_RemoveElement
  <2>4. {u \in tasks' : u.pc = "publish"} = {u \in tasks : u.pc = "publish"} \ {t}
    BY <2>1
  <2>5. \A u \in tasks' : /\ u.id \in DOMAIN chatters
                          /\ u.pc = "welcome" => chatters[u.id] = "viewer"
    BY <1>1, <2>1
  <2>6. ASSUME NEW s
        PROVE  Cardinality(Welcoming(s))' + Open(s)' <= Cardinality(Welcoming(s)) + Open(s)
    <3>1. Welcoming(s)' = Welcoming(s) /\ Open(s)' = Open(s)
      BY <2>1 DEF Welcoming, Open
    <3>2. Cardinality(Welcoming(s))' = Cardinality(Welcoming(s))
      BY <3>1
    <3>3. Cardinality(Welcoming(s)) + Open(s) \in Nat
      BY <1>2
    <3>4. Cardinality(Welcoming(s))' + Open(s)' = Cardinality(Welcoming(s)) + Open(s)
      BY <3>1, <3>2
    <3> QED
      BY <3>3, <3>4
  <2> QED
    BY <2>2, <2>3, <2>4, <2>5, <2>6
<1> QED
  BY <1>3, <1>4

\* What is said and told, and the connection of the reader.
LEMMA ChatAround_Inv ==
    ASSUME ChatInv,
           \/ \E who \in {"viewer", "other"} : ChatSaid(who)
           \/ GoLive \/ GoOffline \/ IrcConnect \/ IrcDrop
    PROVE  ChatInv'
<1> USE DEF ChatInv
<1>0. /\ chatters \in Seq({"viewer", "other"}) /\ Len(chatters) \in Nat
      /\ DOMAIN chatters = 1 .. Len(chatters) /\ notices \subseteq Told
      /\ live \in [number : Nat, on : BOOLEAN] /\ live.number \in Nat
      /\ irc \in [on : BOOLEAN, queue : Seq(Ids), current : Nat] /\ irc.queue \in Seq(Ids)
      /\ irc.current \in Nat /\ troubles \in Nat
  BY SeqShape DEF ChatTypeOK
<1>1. /\ chatters' = chatters \/ \E who \in {"viewer", "other"} : chatters' = Append(chatters, who)
      /\ live' \in [number : Nat, on : BOOLEAN]
      /\ notices' \subseteq Told
      /\ \A n \in notices' : n.kind = "chat" => n \in notices \/ n.id \in DOMAIN chatters'
      /\ irc' \in [on : BOOLEAN, queue : Seq(Ids), current : Nat] /\ irc'.current = irc.current
      /\ troubles' = troubles \/ troubles' = troubles + 1
      /\ UNCHANGED << tasks, session, rows, published, welcomes, armed >>
  <2>1. ASSUME NEW who \in {"viewer", "other"}, ChatSaid(who)
        PROVE  <1>1!:
    <3> DEFINE id == Len(chatters) + 1
    <3>1. /\ chatters' = Append(chatters, who)
          /\ notices' = notices \cup {[kind |-> "chat", id |-> id]}
          /\ irc' = IF irc.on THEN [irc EXCEPT !.queue = Enqueued(irc.queue, id)] ELSE irc
          /\ UNCHANGED << live, tasks, session, rows, published, welcomes, armed, troubles >>
      BY <2>1 DEF ChatSaid
    <3>2. id \in Ids
      BY <1>0 DEF Ids
    <3>3. id \in DOMAIN Append(chatters, who)
      BY <1>0, SeqPush, SMTT(30)
    <3> HIDE DEF id
    <3>4. Enqueued(irc.queue, id) \in Seq(Ids)
      <4>1. QueueSize # 0 /\ (irc.queue = << >> <=> Len(irc.queue) = 0)
        BY <1>0, ChatAssumption, SeqShape
      <4>2. Append(irc.queue, id) \in Seq(Ids)
        BY <1>0, <3>2, SeqPush, SMTT(30)
      <4>3. irc.queue # << >> => Append(Tail(irc.queue), id) \in Seq(Ids)
        BY <1>0, <3>2, SeqShift, SMTT(30)
      <4> QED
        BY <4>1, <4>2, <4>3 DEF Enqueued
    <3>5. irc' \in [on : BOOLEAN, queue : Seq(Ids), current : Nat] /\ irc'.current = irc.current
      <4>1. CASE irc.on
        <5>1. irc' = [on |-> irc.on, queue |-> Enqueued(irc.queue, id), current |-> irc.current]
          BY <1>0, <3>1, <4>1
        <5> QED
          BY <1>0, <3>4, <5>1
      <4>2. CASE ~irc.on
        BY <1>0, <3>1, <4>2
      <4> QED
        BY <4>1, <4>2
    <3>6. /\ notices' \subseteq Told
          /\ \A n \in notices' : n.kind = "chat" => n \in notices \/ n.id \in DOMAIN chatters'
      BY <1>0, <3>1, <3>2, <3>3 DEF Told, Ids
    <3> QED
      BY <1>0, <3>1, <3>5, <3>6
  <2>2. CASE GoLive
    <3>1. /\ live' = [number |-> live.number + 1, on |-> TRUE]
          /\ notices' = notices \cup {[kind |-> "online", id |-> live.number + 1]}
          /\ UNCHANGED << chatters, irc, troubles, tasks, session, rows, published, welcomes,
                          armed >>
      BY <2>2 DEF GoLive
    <3> QED
      BY <1>0, <3>1 DEF Told
  <2>3. CASE GoOffline
    <3>1. /\ live' = [number |-> live.number, on |-> FALSE]
          /\ notices' = notices \cup {[kind |-> "offline", id |-> live.number]}
          /\ UNCHANGED << chatters, irc, troubles, tasks, session, rows, published, welcomes,
                          armed >>
      BY <1>0, <2>3 DEF GoOffline
    <3> QED
      BY <1>0, <3>1 DEF Told
  <2>4. CASE IrcConnect
    <3>1. /\ irc' = [on |-> TRUE, queue |-> irc.queue, current |-> irc.current]
          /\ UNCHANGED << chatters, live, notices, troubles, tasks, session, rows, published,
                          welcomes, armed >>
      BY <1>0, <2>4 DEF IrcConnect
    <3> QED
      BY <1>0, <3>1
  <2>5. CASE IrcDrop
    <3>1. /\ irc' = [on |-> FALSE, queue |-> irc.queue, current |-> irc.current]
          /\ troubles' = troubles + 1
          /\ UNCHANGED << chatters, live, notices, tasks, session, rows, published, welcomes,
                          armed >>
      BY <1>0, <2>5 DEF IrcDrop, Trouble
    <3> QED
      BY <1>0, <3>1
  <2> QED
    BY <2>1, <2>2, <2>3, <2>4, <2>5
<1>2. /\ chatters' \in Seq({"viewer", "other"})
      /\ \A k \in DOMAIN chatters : k \in DOMAIN chatters' /\ chatters'[k] = chatters[k]
  <2>1. \A who \in {"viewer", "other"} :
           /\ Append(chatters, who) \in Seq({"viewer", "other"})
           /\ \A k \in DOMAIN chatters : /\ k \in DOMAIN Append(chatters, who)
                                         /\ Append(chatters, who)[k] = chatters[k]
    BY <1>0, SeqPush, SMTT(30)
  <2> QED
    BY <1>0, <1>1, <2>1
<1>3. ChatTypeOK'
  BY <1>0, <1>1, <1>2, SMTT(30) DEF ChatTypeOK
<1>4. Publishing' = Publishing /\ (troubles' = 0 => troubles = 0)
  BY <1>0, <1>1 DEF Publishing
<1>5. ClaimedOnce' /\ ClaimsKept'
  BY <1>1, <1>4 DEF ClaimedOnce, ClaimsKept
<1>6. WelcomesAllowed'
  BY <1>1 DEF WelcomesAllowed, Welcomed, Welcoming, Open, Armings
<1>7. ViewersKnown'
  BY <1>1, <1>2 DEF ViewersKnown
<1> QED
  BY <1>3, <1>5, <1>6, <1>7

\* A step of a task that publishes nothing, loses nothing and welcomes nobody.
LEMMA TaskStep ==
    ASSUME ChatInv,
           tasks' \subseteq Handler, IsFiniteSet(tasks'),
           session' \in [stream : Nat, claimed : BOOLEAN],
           notices' \subseteq notices,
           \A u \in tasks' : /\ u.id \in DOMAIN chatters
                             /\ u.pc = "welcome" => chatters[u.id] = "viewer",
           \A s : Cardinality(Welcoming(s))' + Open(s)' <= Cardinality(Welcoming(s)) + Open(s),
           rows' \subseteq Ids, published' \in Seq(Ids), ClaimedOnce', ClaimsKept',
           troubles' \in Nat, irc' \in [on : BOOLEAN, queue : Seq(Ids), current : Nat],
           UNCHANGED << chatters, live, welcomes, armed >>
    PROVE  ChatInv'
<1> USE DEF ChatInv
<1>1. ChatTypeOK'
  BY DEF ChatTypeOK
<1>2. WelcomesAllowed'
  <2> SUFFICES ASSUME NEW s
               PROVE  Cardinality(Welcomed(s))' + Cardinality(Welcoming(s))' + Open(s)'
                        <= Cardinality(Armings(s))'
    BY DEF WelcomesAllowed
  <2>1. Welcomed(s)' = Welcomed(s) /\ Armings(s)' = Armings(s)
    BY DEF Welcomed, Armings
  <2>2. /\ Cardinality(Welcomed(s))' = Cardinality(Welcomed(s))
        /\ Cardinality(Armings(s))' = Cardinality(Armings(s))
    BY <2>1
  <2>3. /\ Cardinality(Welcomed(s)) \in Nat /\ Cardinality(Welcoming(s)) \in Nat
        /\ Cardinality(Armings(s)) \in Nat /\ Open(s) \in {0, 1}
    BY ChatCounted
  <2>4. Cardinality(Welcoming(s))' \in Nat /\ Open(s)' \in {0, 1}
    <3>1. Welcoming(s)' \subseteq tasks'
      BY DEF Welcoming
    <3>2. IsFiniteSet(Welcoming(s)')
      BY <3>1, FS_Subset
    <3> QED
      BY <3>2, FS_CardinalityType DEF Open
  <2>5. Cardinality(Welcoming(s))' + Open(s)' <= Cardinality(Welcoming(s)) + Open(s)
    OBVIOUS
  <2>6. Cardinality(Welcomed(s)) + Cardinality(Welcoming(s)) + Open(s) <= Cardinality(Armings(s))
    BY DEF WelcomesAllowed
  <2> QED
    BY <2>2, <2>3, <2>4, <2>5, <2>6, SMTT(30)
<1>3. ViewersKnown'
  BY DEF ViewersKnown
<1> QED
  BY <1>1, <1>2, <1>3

LEMMA NoticeStep ==
    ASSUME NEW n, NEW again, Delivered(n, again)
    PROVE  n \in notices /\ notices' \subseteq notices
BY DEF Delivered

LEMMA EventMessage_Inv ==
    ASSUME ChatInv, NEW n, NEW again \in BOOLEAN, EventMessage(n, again)
    PROVE  ChatInv'
<1> USE DEF ChatInv
<1>0. /\ rows \subseteq Ids /\ published \in Seq(Ids) /\ troubles \in Nat
      /\ irc \in [on : BOOLEAN, queue : Seq(Ids), current : Nat]
      /\ tasks \subseteq Handler /\ IsFiniteSet(tasks)
      /\ session \in [stream : Nat, claimed : BOOLEAN] /\ notices \subseteq Told
  BY DEF ChatTypeOK
<1>1. /\ n.kind = "chat" /\ n \in notices /\ notices' \subseteq notices
      /\ UNCHANGED << chatters, live, published, welcomes, armed, irc, troubles >>
  BY NoticeStep DEF EventMessage
<1>2. n.id \in DOMAIN chatters /\ n.id \in Ids
  <2>1. n.id \in DOMAIN chatters
    BY <1>1 DEF ViewersKnown
  <2> QED
    BY <2>1, SeqShape DEF Ids, ChatTypeOK
<1>3. CASE n.id \in rows
  <2> DEFINE t == Task(n.id, "none", 0)
  <2>1. AfterChat(t, n.id) /\ rows' = rows
    BY <1>3 DEF EventMessage
  <2>2. t.pc = "none"
    BY DEF Task
  <2>3. t \notin tasks
    BY <1>0, <2>2 DEF Handler
  <2> HIDE DEF t
  <2>4. t.pc # "welcome" /\ UNCHANGED chatters
    BY <1>1, <2>2
  <2>5. /\ tasks' \subseteq Handler /\ IsFiniteSet(tasks')
        /\ session' \in [stream : Nat, claimed : BOOLEAN]
        /\ {u \in tasks' : u.pc = "publish"} = {u \in tasks : u.pc = "publish"} \ {t}
        /\ \A u \in tasks' : /\ u.id \in DOMAIN chatters
                             /\ u.pc = "welcome" => chatters[u.id] = "viewer"
        /\ \A s : Cardinality(Welcoming(s))' + Open(s)' <= Cardinality(Welcoming(s)) + Open(s)
    BY <1>2, <2>1, <2>4, AfterChat_Step
  <2>6. {u \in tasks' : u.pc = "publish"} = {u \in tasks : u.pc = "publish"}
    BY <2>3, <2>5
  <2>7. Publishing' = Publishing
    BY <2>6 DEF Publishing
  <2>8. \A u \in tasks' : u.pc = "publish" => u.stream = 0
    BY <2>6 DEF ClaimedOnce
  <2>9. ClaimedOnce' /\ ClaimsKept'
    BY <1>1, <2>1, <2>7, <2>8 DEF ClaimedOnce, ClaimsKept
  <2> QED
    BY <1>0, <1>1, <2>1, <2>5, <2>9, TaskStep
<1>4. CASE n.id \notin rows
  <2> DEFINE t == [id |-> n.id, pc |-> "publish", stream |-> 0]
  <2>1. rows' = rows \cup {n.id} /\ tasks' = tasks \cup {t} /\ session' = session
    BY <1>4 DEF EventMessage, Task
  <2>2. t \in Handler /\ t.id = n.id /\ t.pc = "publish" /\ t.stream = 0
    BY <1>2 DEF Handler
  <2> HIDE DEF t
  <2>3. tasks' \subseteq Handler /\ IsFiniteSet(tasks')
    BY <1>0, <2>1, <2>2, FS_AddElement
  <2>4. Publishing' = Publishing \cup {n.id}
    BY <2>1, <2>2 DEF Publishing
  <2>5. n.id \notin Elems(published) /\ n.id \notin Publishing /\ n.id # irc.current
    BY <1>2, <1>4 DEF ClaimedOnce, Ids
  <2>6. ClaimedOnce'
    BY <1>1, <2>1, <2>2, <2>4, <2>5 DEF ClaimedOnce
  <2>7. ClaimsKept'
    BY <1>1, <2>1, <2>4 DEF ClaimsKept
  <2>8. \A u \in tasks' : /\ u.id \in DOMAIN chatters
                          /\ u.pc = "welcome" => chatters[u.id] = "viewer"
    BY <1>2, <2>1, <2>2 DEF ViewersKnown
  <2>9. ASSUME NEW s
        PROVE  Cardinality(Welcoming(s))' + Open(s)' <= Cardinality(Welcoming(s)) + Open(s)
    <3>1. Welcoming(s)' = Welcoming(s) /\ Open(s)' = Open(s)
      BY <2>1, <2>2 DEF Welcoming, Open
    <3>2. Cardinality(Welcoming(s))' = Cardinality(Welcoming(s))
      BY <3>1
    <3>3. Cardinality(Welcoming(s)) + Open(s) \in Nat
      BY ChatCounted
    <3>4. Cardinality(Welcoming(s))' + Open(s)' = Cardinality(Welcoming(s)) + Open(s)
      BY <3>1, <3>2
    <3> QED
      BY <3>3, <3>4
  <2>10. rows' \subseteq Ids
    BY <1>0, <1>2, <2>1
  <2> QED
    BY <1>0, <1>1, <2>1, <2>3, <2>6, <2>7, <2>8, <2>9, <2>10, TaskStep
<1> QED
  BY <1>3, <1>4

LEMMA ChatPublished_Inv == ASSUME ChatInv, NEW t, ChatPublished(t) PROVE ChatInv'
<1> USE DEF ChatInv
<1>0. /\ rows \subseteq Ids /\ published \in Seq(Ids) /\ troubles \in Nat
      /\ irc \in [on : BOOLEAN, queue : Seq(Ids), current : Nat] /\ tasks \subseteq Handler
  BY DEF ChatTypeOK
<1>1. /\ t \in tasks /\ t.pc = "publish" /\ published' = Append(published, t.id)
      /\ AfterChat(t, t.id)
      /\ UNCHANGED << chatters, live, notices, rows, welcomes, armed, irc, troubles >>
  BY DEF ChatPublished
<1>2. t.id \in Ids /\ t.id \in DOMAIN chatters /\ t.id \in Publishing
  BY <1>0, <1>1 DEF Handler, ViewersKnown, Publishing
<1>3. /\ tasks' \subseteq Handler /\ IsFiniteSet(tasks')
      /\ session' \in [stream : Nat, claimed : BOOLEAN]
      /\ {u \in tasks' : u.pc = "publish"} = {u \in tasks : u.pc = "publish"} \ {t}
      /\ \A u \in tasks' : /\ u.id \in DOMAIN chatters
                           /\ u.pc = "welcome" => chatters[u.id] = "viewer"
      /\ \A s : Cardinality(Welcoming(s))' + Open(s)' <= Cardinality(Welcoming(s)) + Open(s)
  BY <1>1, <1>2, AfterChat_Step
<1>4. \A u \in tasks : u.pc = "publish" => u.stream = 0 /\ (u.id = t.id => u = t)
  <2>1. \A u \in tasks : u.pc = "publish" => u.stream = 0
    BY DEF ClaimedOnce
  <2>2. \A u, v \in Handler : u.id = v.id /\ u.pc = v.pc /\ u.stream = v.stream => u = v
    BY DEF Handler
  <2>3. t \in Handler /\ \A u \in tasks : u \in Handler
    BY <1>0, <1>1
  <2> QED
    BY <1>1, <2>1, <2>2, <2>3
<1>5. Publishing' = Publishing \ {t.id}
  <2>1. Publishing' = {u.id : u \in {v \in tasks : v.pc = "publish"} \ {t}}
    BY <1>3 DEF Publishing
  <2> QED
    BY <1>1, <1>4, <2>1 DEF Publishing
<1>6. t.id \notin Elems(published) /\ (irc.current # 0 => irc.current # t.id)
  BY <1>2 DEF ClaimedOnce
<1>7. /\ Append(published, t.id) \in Seq(Ids) /\ Distinct(Append(published, t.id))
      /\ Elems(Append(published, t.id)) = Elems(published) \cup {t.id}
  <2>1. Distinct(published)
    BY DEF ClaimedOnce
  <2> QED
    BY <1>0, <1>2, <1>6, <2>1, SeqPush, DistinctPush
<1>8. /\ published' \in Seq(Ids) /\ Distinct(published')
      /\ Elems(published') = Elems(published) \cup {t.id}
  BY <1>1, <1>7
<1>9. \A u \in tasks' : u.pc = "publish" => u.stream = 0
  BY <1>3, <1>4
<1>10. ClaimedOnce'
  BY <1>1, <1>2, <1>5, <1>6, <1>8, <1>9 DEF ClaimedOnce
<1>11. ClaimsKept'
  BY <1>1, <1>5, <1>8 DEF ClaimsKept
<1>12. notices' \subseteq notices /\ rows' \subseteq Ids
  BY <1>0, <1>1
<1> QED
  BY <1>0, <1>1, <1>3, <1>8, <1>10, <1>11, <1>12, TaskStep

\* Fewer tasks ask for fewer welcomes.
LEMMA FewerWelcoming ==
    ASSUME ChatInv, tasks' \subseteq tasks,
           session' = session \/ session' = NoSession
    PROVE  \A s : Cardinality(Welcoming(s))' + Open(s)' <= Cardinality(Welcoming(s)) + Open(s)
<1> SUFFICES ASSUME NEW s
             PROVE  Cardinality(Welcoming(s))' + Open(s)' <= Cardinality(Welcoming(s)) + Open(s)
  OBVIOUS
<1>1. Welcoming(s)' \subseteq Welcoming(s) /\ IsFiniteSet(Welcoming(s))
  BY ChatCounted DEF Welcoming, ChatInv
<1>2. /\ Cardinality(Welcoming(s)') <= Cardinality(Welcoming(s))
      /\ IsFiniteSet(Welcoming(s)')
  BY <1>1, FS_Subset
<1>3. Cardinality(Welcoming(s)') \in Nat /\ Cardinality(Welcoming(s)) \in Nat
  BY <1>1, <1>2, FS_CardinalityType
<1>4. Open(s) \in {0, 1} /\ (Open(s)' = Open(s) \/ Open(s)' = 0)
  BY DEF Open, NoSession
<1> QED
  BY <1>2, <1>3, <1>4

LEMMA TaskEnds_Inv ==
    ASSUME ChatInv,
           \/ \E t \in tasks : TaskFails(t)
           \/ EventSubRestart
           \/ \E n \in notices, again \in BOOLEAN : EventOffline(n, again)
    PROVE  ChatInv'
<1> USE DEF ChatInv
<1>0. /\ rows \subseteq Ids /\ published \in Seq(Ids) /\ troubles \in Nat
      /\ irc \in [on : BOOLEAN, queue : Seq(Ids), current : Nat]
      /\ tasks \subseteq Handler /\ IsFiniteSet(tasks)
      /\ session \in [stream : Nat, claimed : BOOLEAN]
  BY DEF ChatTypeOK
<1>1. /\ tasks' \subseteq tasks /\ (session' = session \/ session' = NoSession)
      /\ notices' \subseteq notices
      /\ troubles' = troubles + 1 \/ (troubles' = troubles /\ tasks' = tasks)
      /\ UNCHANGED << chatters, live, rows, published, welcomes, armed, irc >>
  BY NoticeStep DEF TaskFails, EventSubRestart, EventOffline, Becomes, Trouble
<1>2. /\ tasks' \subseteq Handler /\ IsFiniteSet(tasks') /\ troubles' \in Nat
      /\ session' \in [stream : Nat, claimed : BOOLEAN]
  <2>1. IsFiniteSet(tasks')
    BY <1>0, <1>1, FS_Subset
  <2>2. tasks' \subseteq Handler
    BY <1>0, <1>1
  <2>3. troubles' \in Nat
    BY <1>0, <1>1
  <2>4. NoSession \in [stream : Nat, claimed : BOOLEAN]
    BY DEF NoSession
  <2>5. session' \in [stream : Nat, claimed : BOOLEAN]
    BY <1>0, <1>1, <2>4
  <2> QED
    BY <2>1, <2>2, <2>3, <2>5
<1>3. Publishing' \subseteq Publishing
  BY <1>1 DEF Publishing
<1>4. ClaimedOnce'
  BY <1>1, <1>3 DEF ClaimedOnce
<1>5. ClaimsKept'
  <2>1. troubles' = 0 => troubles = 0 /\ Publishing' = Publishing
    BY <1>0, <1>1 DEF Publishing
  <2> QED
    BY <1>1, <2>1 DEF ClaimsKept
<1>6. \A u \in tasks' : /\ u.id \in DOMAIN chatters
                        /\ u.pc = "welcome" => chatters[u.id] = "viewer"
  BY <1>1 DEF ViewersKnown
<1>7. \A s : Cardinality(Welcoming(s))' + Open(s)' <= Cardinality(Welcoming(s)) + Open(s)
  BY <1>1, FewerWelcoming
<1>8. /\ rows' \subseteq Ids /\ published' \in Seq(Ids)
      /\ irc' \in [on : BOOLEAN, queue : Seq(Ids), current : Nat]
  BY <1>0, <1>1
<1> QED
  BY <1>1, <1>2, <1>4, <1>5, <1>6, <1>7, <1>8, TaskStep

LEMMA IrcSteps_Inv ==
    ASSUME ChatInv, IrcTake \/ IrcPublish \/ IrcFails
    PROVE  ChatInv'
<1> USE DEF ChatInv
<1>0. /\ rows \subseteq Ids /\ published \in Seq(Ids) /\ troubles \in Nat
      /\ irc \in [on : BOOLEAN, queue : Seq(Ids), current : Nat]
      /\ irc.queue \in Seq(Ids) /\ irc.current \in Nat
      /\ tasks \subseteq Handler /\ IsFiniteSet(tasks)
      /\ session \in [stream : Nat, claimed : BOOLEAN]
  BY DEF ChatTypeOK
<1>1. UNCHANGED << chatters, live, notices, tasks, session, welcomes, armed >>
  BY DEF IrcTake, IrcPublish, IrcFails
<1>2. Publishing' = Publishing
  BY <1>1 DEF Publishing
<1>3. /\ \A s : Cardinality(Welcoming(s))' + Open(s)' <= Cardinality(Welcoming(s)) + Open(s)
      /\ \A u \in tasks' : /\ u.id \in DOMAIN chatters
                           /\ u.pc = "welcome" => chatters[u.id] = "viewer"
  BY <1>1, FewerWelcoming DEF ViewersKnown
<1>4. /\ rows' \subseteq Ids /\ published' \in Seq(Ids) /\ troubles' \in Nat
      /\ irc' \in [on : BOOLEAN, queue : Seq(Ids), current : Nat]
      /\ ClaimedOnce' /\ ClaimsKept'
  <2>1. CASE IrcTake
    <3> DEFINE id == Head(irc.queue)
    <3>1. /\ irc.current = 0 /\ irc.queue # << >> /\ rows' = rows \cup {id}
          /\ irc' = [irc EXCEPT !.queue = Tail(irc.queue),
                                !.current = IF id \in rows THEN 0 ELSE id]
          /\ published' = published /\ troubles' = troubles
      BY <2>1 DEF IrcTake
    <3>2. id \in Ids /\ Tail(irc.queue) \in Seq(Ids)
      BY <1>0, <3>1, SeqPop, SMTT(30)
    <3> HIDE DEF id
    <3>3. irc' = [on |-> irc.on, queue |-> Tail(irc.queue),
                  current |-> IF id \in rows THEN 0 ELSE id]
      BY <1>0, <3>1
    <3>4. irc' \in [on : BOOLEAN, queue : Seq(Ids), current : Nat]
      BY <1>0, <3>2, <3>3 DEF Ids
    <3>5. irc'.current = IF id \in rows THEN 0 ELSE id
      BY <3>3
    <3>6. ClaimedOnce'
      BY <1>1, <1>2, <3>1, <3>5 DEF ClaimedOnce
    <3>7. ClaimsKept'
      <4>1. 0 \notin rows
        BY <1>0 DEF Ids
      <4> QED
        BY <1>2, <3>1, <3>5, <4>1 DEF ClaimsKept
    <3> QED
      BY <1>0, <3>1, <3>2, <3>4, <3>6, <3>7
  <2>2. CASE IrcPublish
    <3>1. /\ irc.current # 0 /\ published' = Append(published, irc.current)
          /\ irc' = [on |-> irc.on, queue |-> irc.queue, current |-> 0]
          /\ rows' = rows /\ troubles' = troubles
      BY <1>0, <2>2 DEF IrcPublish
    <3>2. /\ irc.current \in Ids /\ irc.current \in rows /\ irc.current \notin Elems(published)
          /\ irc.current \notin Publishing /\ Distinct(published)
      BY <1>0, <3>1 DEF ClaimedOnce
    <3>3. /\ Append(published, irc.current) \in Seq(Ids)
          /\ Elems(Append(published, irc.current)) = Elems(published) \cup {irc.current}
      BY <1>0, <3>2, SeqPush, SMTT(30)
    <3>4. Distinct(Append(published, irc.current))
      BY <1>0, <3>2, DistinctPush
    <3>5. /\ published' \in Seq(Ids) /\ Distinct(published')
          /\ Elems(published') = Elems(published) \cup {irc.current}
      BY <3>1, <3>3, <3>4
    <3>6. irc' \in [on : BOOLEAN, queue : Seq(Ids), current : Nat] /\ irc'.current = 0
      BY <1>0, <3>1
    <3>7. ClaimedOnce'
      BY <1>1, <1>2, <3>1, <3>2, <3>5, <3>6 DEF ClaimedOnce
    <3>8. ClaimsKept'
      BY <1>2, <3>1, <3>5 DEF ClaimsKept
    <3> QED
      BY <1>0, <3>1, <3>5, <3>6, <3>7, <3>8
  <2>3. CASE IrcFails
    <3>1. /\ irc' = [on |-> FALSE, queue |-> << >>, current |-> 0]
          /\ published' = published /\ rows' = rows /\ troubles' = troubles + 1
      BY <2>3 DEF IrcFails, Trouble
    <3>2. irc' \in [on : BOOLEAN, queue : Seq(Ids), current : Nat] /\ irc'.current = 0
      BY <3>1, SeqEmpty
    <3>3. ClaimedOnce'
      BY <1>1, <1>2, <3>1, <3>2 DEF ClaimedOnce
    <3>4. ClaimsKept'
      BY <1>0, <3>1 DEF ClaimsKept
    <3> QED
      BY <1>0, <3>1, <3>2, <3>3, <3>4
  <2> QED
    BY <2>1, <2>2, <2>3
<1>5. /\ tasks' \subseteq Handler /\ IsFiniteSet(tasks') /\ notices' \subseteq notices
      /\ session' \in [stream : Nat, claimed : BOOLEAN]
  BY <1>0, <1>1
<1> QED
  BY <1>1, <1>3, <1>4, <1>5, TaskStep

\* A welcome is given.
LEMMA Welcome_Inv == ASSUME ChatInv, NEW t, Welcome(t) PROVE ChatInv'
<1> USE DEF ChatInv
<1>0. /\ tasks \subseteq Handler /\ IsFiniteSet(tasks) /\ welcomes \in Seq(Nat \X Ids)
  BY DEF ChatTypeOK
<1>1. /\ t \in tasks /\ t.pc = "welcome" /\ welcomes' = Append(welcomes, << t.stream, t.id >>)
      /\ tasks' = tasks \ {t}
      /\ UNCHANGED << chatters, live, notices, session, rows, published, armed, irc, troubles >>
  BY DEF Welcome, Becomes
<1> DEFINE w == << t.stream, t.id >>
<1>2. w \in Nat \X Ids /\ w[1] = t.stream /\ w[2] = t.id
  BY <1>0, <1>1 DEF Handler
<1> HIDE DEF w
<1>3. welcomes' = Append(welcomes, w)
  BY <1>1 DEF w
<1>4. /\ Append(welcomes, w) \in Seq(Nat \X Ids)
      /\ DOMAIN Append(welcomes, w) = DOMAIN welcomes \cup {Len(welcomes) + 1}
      /\ Append(welcomes, w)[Len(welcomes) + 1] = w /\ Len(welcomes) + 1 \notin DOMAIN welcomes
      /\ \A k \in DOMAIN welcomes : Append(welcomes, w)[k] = welcomes[k]
  BY <1>0, <1>2, SeqPush, SMTT(30)
<1>5. /\ welcomes' \in Seq(Nat \X Ids)
      /\ DOMAIN welcomes' = DOMAIN welcomes \cup {Len(welcomes) + 1}
      /\ welcomes'[Len(welcomes) + 1] = w /\ Len(welcomes) + 1 \notin DOMAIN welcomes
      /\ \A k \in DOMAIN welcomes : welcomes'[k] = welcomes[k]
  BY <1>3, <1>4
<1>6. tasks' \subseteq Handler /\ IsFiniteSet(tasks')
  BY <1>0, <1>1, FS_RemoveElement
<1>7. ChatTypeOK'
  BY <1>1, <1>5, <1>6 DEF ChatTypeOK
<1>8. Publishing' = Publishing
  BY <1>1 DEF Publishing
<1>9. ClaimedOnce' /\ ClaimsKept'
  BY <1>1, <1>8 DEF ClaimedOnce, ClaimsKept
<1>10. WelcomesAllowed'
  <2> SUFFICES ASSUME NEW s
               PROVE  Cardinality(Welcomed(s))' + Cardinality(Welcoming(s))' + Open(s)'
                        <= Cardinality(Armings(s))'
    BY DEF WelcomesAllowed
  <2>1. /\ Cardinality(Welcomed(s)) \in Nat /\ Cardinality(Welcoming(s)) \in Nat
        /\ Cardinality(Armings(s)) \in Nat /\ Open(s) \in {0, 1}
        /\ IsFiniteSet(Welcomed(s)) /\ IsFiniteSet(Welcoming(s))
    BY ChatCounted
  <2>2. Cardinality(Welcomed(s)) + Cardinality(Welcoming(s)) + Open(s) <= Cardinality(Armings(s))
    BY DEF WelcomesAllowed
  <2>3. Cardinality(Armings(s))' = Cardinality(Armings(s)) /\ Open(s)' = Open(s)
    BY <1>1 DEF Armings, Open
  <2>4. CASE t.stream = s
    <3>1. Welcomed(s)' = Welcomed(s) \cup {Len(welcomes) + 1}
      BY <1>2, <1>5, <2>4 DEF Welcomed
    <3>2. Len(welcomes) + 1 \notin Welcomed(s)
      BY <1>5 DEF Welcomed
    <3>3. Cardinality(Welcomed(s)') = Cardinality(Welcomed(s)) + 1
      BY <2>1, <3>1, <3>2, FS_AddElement
    <3>4. Welcoming(s)' = Welcoming(s) \ {t} /\ t \in Welcoming(s)
      BY <1>1, <2>4 DEF Welcoming
    <3>5. Cardinality(Welcoming(s)') = Cardinality(Welcoming(s)) - 1
      BY <2>1, <3>4, FS_RemoveElement
    <3> QED
      BY <2>1, <2>2, <2>3, <3>3, <3>5
  <2>5. CASE t.stream # s
    <3>1. Welcomed(s)' = Welcomed(s)
      BY <1>2, <1>5, <2>5 DEF Welcomed
    <3>2. Welcoming(s)' = Welcoming(s)
      BY <1>1, <2>5 DEF Welcoming
    <3>3. /\ Cardinality(Welcomed(s))' = Cardinality(Welcomed(s))
          /\ Cardinality(Welcoming(s))' = Cardinality(Welcoming(s))
      BY <3>1, <3>2
    <3> QED
      BY <2>1, <2>2, <2>3, <3>3
  <2> QED
    BY <2>4, <2>5
<1>11. ViewersKnown'
  <2>1. t.id \in DOMAIN chatters /\ chatters[t.id] = "viewer"
    BY <1>1 DEF ViewersKnown
  <2>2. \A k \in DOMAIN welcomes' :
           welcomes'[k][2] \in DOMAIN chatters /\ chatters[welcomes'[k][2]] = "viewer"
    BY <1>2, <1>5, <2>1 DEF ViewersKnown
  <2> QED
    BY <1>1, <2>2 DEF ViewersKnown
<1> QED
  BY <1>7, <1>9, <1>10, <1>11

\* The stream starts: one more welcome is allowed.
LEMMA EventOnline_Inv ==
    ASSUME ChatInv, NEW n, NEW again \in BOOLEAN, EventOnline(n, again)
    PROVE  ChatInv'
<1> USE DEF ChatInv
<1>1. /\ n \in notices /\ notices' \subseteq notices
      /\ session' = [stream |-> n.id, claimed |-> FALSE] /\ armed' = Append(armed, n.id)
      /\ UNCHANGED << chatters, live, tasks, rows, published, welcomes, irc, troubles >>
  BY NoticeStep DEF EventOnline
<1>2. n.id \in Nat /\ armed \in Seq(Nat)
  BY <1>1 DEF ChatTypeOK, Told
<1>3. /\ Append(armed, n.id) \in Seq(Nat)
      /\ DOMAIN Append(armed, n.id) = DOMAIN armed \cup {Len(armed) + 1}
      /\ Append(armed, n.id)[Len(armed) + 1] = n.id /\ Len(armed) + 1 \notin DOMAIN armed
      /\ \A k \in DOMAIN armed : Append(armed, n.id)[k] = armed[k]
  BY <1>2, SeqPush, SMTT(30)
<1>4. /\ armed' \in Seq(Nat) /\ DOMAIN armed' = DOMAIN armed \cup {Len(armed) + 1}
      /\ armed'[Len(armed) + 1] = n.id /\ Len(armed) + 1 \notin DOMAIN armed
      /\ \A k \in DOMAIN armed : armed'[k] = armed[k]
  BY <1>1, <1>3
<1>5. session' \in [stream : Nat, claimed : BOOLEAN]
  BY <1>1, <1>2
<1>6. ChatTypeOK'
  BY <1>1, <1>4, <1>5 DEF ChatTypeOK
<1>7. ClaimedOnce' /\ ClaimsKept'
  BY <1>1 DEF ClaimedOnce, ClaimsKept, Publishing
<1>8. WelcomesAllowed'
  <2> SUFFICES ASSUME NEW s
               PROVE  Cardinality(Welcomed(s))' + Cardinality(Welcoming(s))' + Open(s)'
                        <= Cardinality(Armings(s))'
    BY DEF WelcomesAllowed
  <2>1. /\ Cardinality(Welcomed(s)) \in Nat /\ Cardinality(Welcoming(s)) \in Nat
        /\ Cardinality(Armings(s)) \in Nat /\ Open(s) \in {0, 1} /\ IsFiniteSet(Armings(s))
    BY ChatCounted
  <2>2. Cardinality(Welcomed(s)) + Cardinality(Welcoming(s)) + Open(s) <= Cardinality(Armings(s))
    BY DEF WelcomesAllowed
  <2>3. /\ Cardinality(Welcomed(s))' = Cardinality(Welcomed(s))
        /\ Cardinality(Welcoming(s))' = Cardinality(Welcoming(s))
    BY <1>1 DEF Welcomed, Welcoming
  <2>4. CASE n.id = s
    <3>1. Armings(s)' = Armings(s) \cup {Len(armed) + 1}
      BY <1>4, <2>4 DEF Armings
    <3>2. Len(armed) + 1 \notin Armings(s)
      BY <1>4 DEF Armings
    <3>3. Cardinality(Armings(s)') = Cardinality(Armings(s)) + 1
      BY <2>1, <3>1, <3>2, FS_AddElement
    <3>4. Open(s)' = 1
      BY <1>1, <2>4 DEF Open
    <3> QED
      BY <2>1, <2>2, <2>3, <3>3, <3>4
  <2>5. CASE n.id # s
    <3>1. Armings(s)' = Armings(s)
      BY <1>4, <2>5 DEF Armings
    <3>2. Cardinality(Armings(s))' = Cardinality(Armings(s))
      BY <3>1
    <3>3. Open(s)' = 0
      BY <1>1, <2>5 DEF Open
    <3> QED
      BY <2>1, <2>2, <2>3, <3>2, <3>3
  <2> QED
    BY <2>4, <2>5
<1>9. ViewersKnown'
  BY <1>1 DEF ViewersKnown
<1> QED
  BY <1>6, <1>7, <1>8, <1>9

LEMMA ChatNext_Inv == ChatInv /\ [ChatNext]_chatVars => ChatInv'
<1> SUFFICES ASSUME ChatInv, [ChatNext]_chatVars PROVE ChatInv'
  OBVIOUS
<1>1. CASE \/ \E who \in {"viewer", "other"} : ChatSaid(who)
           \/ GoLive \/ GoOffline \/ IrcConnect \/ IrcDrop
  BY <1>1, ChatAround_Inv
<1>2. CASE \E n \in notices, again \in BOOLEAN : EventMessage(n, again)
  BY <1>2, EventMessage_Inv
<1>3. CASE \E n \in notices, again \in BOOLEAN : EventOnline(n, again)
  BY <1>3, EventOnline_Inv
<1>4. CASE \E t \in tasks : ChatPublished(t)
  BY <1>4, ChatPublished_Inv
<1>5. CASE \E t \in tasks : Welcome(t)
  BY <1>5, Welcome_Inv
<1>6. CASE \/ \E t \in tasks : TaskFails(t)
           \/ EventSubRestart
           \/ \E n \in notices, again \in BOOLEAN : EventOffline(n, again)
  BY <1>6, TaskEnds_Inv
<1>7. CASE IrcTake \/ IrcPublish \/ IrcFails
  BY <1>7, IrcSteps_Inv
<1>8. CASE UNCHANGED chatVars
  <2>1. UNCHANGED << chatters, live, notices, tasks, session, rows, published, welcomes, armed,
                     irc, troubles >>
    BY <1>8 DEF chatVars
  <2>2. ChatTypeOK' /\ ClaimedOnce' /\ ClaimsKept'
    BY <2>1 DEF ChatInv, ChatTypeOK, ClaimedOnce, ClaimsKept, Publishing
  <2>3. WelcomesAllowed' /\ ViewersKnown'
    BY <2>1 DEF ChatInv, WelcomesAllowed, Welcomed, Welcoming, Open, Armings, ViewersKnown
  <2> QED
    BY <2>2, <2>3 DEF ChatInv
<1> QED
  BY <1>1, <1>2, <1>3, <1>4, <1>5, <1>6, <1>7, <1>8 DEF ChatNext

LEMMA ChatSpec_Inv == ChatSpec => []ChatInv
BY ChatInit_Inv, ChatNext_Inv, PTL DEF ChatSpec

\* The state of the Twitch chat is well formed.
THEOREM ChatTyping == ChatSpec => []ChatTypeOK
<1>1. ChatInv => ChatTypeOK
  BY DEF ChatInv
<1> QED
  BY ChatSpec_Inv, <1>1, PTL

LEMMA ChatInOnce == ChatSpec => []IngressOnce
<1>1. ChatInv => IngressOnce
  <2> SUFFICES ASSUME ChatInv PROVE IngressOnce
    OBVIOUS
  <2> USE DEF ChatInv
  <2>1. Out = Elems(published) /\ InHand = Publishing \cup {irc.current}
    BY DEF Out, InHand, Elems, Publishing
  <2>2. \A j, k \in DOMAIN published : published[j] = published[k] => j = k
    BY DEF ClaimedOnce, Distinct
  <2>3. troubles = 0 => rows \subseteq Out \cup InHand
    BY <2>1 DEF ClaimsKept
  <2>4. ASSUME NEW s \in 1 .. MaxStreams
        PROVE  Cardinality({k \in DOMAIN welcomes : welcomes[k][1] = s})
                 <= Cardinality({k \in DOMAIN armed : armed[k] = s})
    <3>1. /\ Cardinality(Welcomed(s)) \in Nat /\ Cardinality(Welcoming(s)) \in Nat
          /\ Cardinality(Armings(s)) \in Nat /\ Open(s) \in {0, 1}
      BY ChatCounted
    <3>2. Cardinality(Welcomed(s)) + Cardinality(Welcoming(s)) + Open(s) <= Cardinality(Armings(s))
      BY DEF WelcomesAllowed
    <3>3. Cardinality(Welcomed(s)) <= Cardinality(Armings(s))
      BY <3>1, <3>2
    <3> QED
      BY <3>3 DEF Welcomed, Armings
  <2>5. \A k \in DOMAIN welcomes : chatters[welcomes[k][2]] = "viewer"
    BY DEF ViewersKnown
  <2> QED
    BY <2>2, <2>3, <2>4, <2>5 DEF IngressOnce
<1> QED
  BY ChatSpec_Inv, <1>1, PTL

-----------------------------------------------------------------------------
(* CharacterPipeline *)

Asks  == [id : Nat, prefix : BOOLEAN]
Turns == [id : Nat, text : Nat, of : Nat]

CharacterTypeOK ==
    /\ inbox \in Seq(Asks) /\ asked \in Nat /\ interrupted \in Nat
    /\ answering \in [all : BOOLEAN, at : {"idle", "turn", "memory", "reply", "settle"}]
    /\ memory \in Seq(Nat) /\ turns \in Seq(Turns) /\ thisRun \in 0 .. Len(turns)
    /\ replies \subseteq [of : Nat, text : Nat] /\ bound \subseteq Followers
    /\ follow \in [Followers -> [queue : Seq(Turns), busy : BOOLEAN]]
    /\ made \in [Followers -> SUBSET [turn : Nat, text : Nat]]

\* The id of a turn and its text tell the same, in the queues and in what is made of it.
TurnsTold ==
    /\ \A k \in DOMAIN turns : turns[k].id = k /\ turns[k].text = k
    /\ \A f \in Followers : /\ \A t \in Elems(follow[f].queue) : t.text = t.id
                            /\ follow[f].busy => follow[f].queue # << >>
                            /\ \A x \in made[f] : x.text = x.turn

\* Who is in the middle of an answer has its message, and from the publish on its turn
\* is the last; what was replied is the text of a turn.
AnswerAtHand ==
    /\ answering.at # "idle" => inbox # << >>
    /\ answering.at \in {"memory", "reply"} =>
          turns # << >> /\ turns[Len(turns)].of = Head(inbox).id
    /\ answering.at = "memory" => thisRun < Len(turns)
    /\ \A r \in replies : \E k \in DOMAIN turns : turns[k].of = r.of /\ turns[k].text = r.text

\* The texts from a to b without a; from where on the brain remembers them.
TextsOf(a, b)  == [k \in 1 .. (b - a) |-> k + a]
Since(a, b)    == IF b - a > MemoryTurns THEN b - MemoryTurns ELSE a
Recent(a, b)   == TextsOf(Since(a, b), b)

\* The memory has the newest texts of this run, at "memory" but for the last.
Remembered ==
    memory = Recent(thisRun, IF answering.at = "memory" THEN Len(turns) - 1 ELSE Len(turns))

CharacterInv == CharacterTypeOK /\ TurnsTold /\ AnswerAtHand /\ Remembered

LEMMA TextsOfShape ==
    ASSUME NEW a \in Nat, NEW b \in Nat, a <= b
    PROVE  /\ TextsOf(a, b) \in Seq(Nat) /\ Len(TextsOf(a, b)) = b - a
           /\ \A k \in 1 .. (b - a) : TextsOf(a, b)[k] = k + a
<1>1. b - a \in Nat /\ \A k \in 1 .. (b - a) : k + a \in Nat
  OBVIOUS
<1>2. TextsOf(a, b) \in [1 .. (b - a) -> Nat]
  BY <1>1 DEF TextsOf
<1>3. TextsOf(a, b) \in Seq(Nat) /\ Len(TextsOf(a, b)) = b - a
  BY <1>1, <1>2
<1> QED
  BY <1>3 DEF TextsOf

\* One text more, and the newest of them.
LEMMA TextsOfGrows ==
    ASSUME NEW a \in Nat, NEW b \in Nat, NEW c \in Nat, a <= b, c = b + 1
    PROVE  Append(TextsOf(a, b), c) = TextsOf(a, c)
<1> DEFINE s == TextsOf(a, b)
           t == TextsOf(a, c)
<1>1. s \in Seq(Nat) /\ Len(s) = b - a /\ \A k \in 1 .. (b - a) : s[k] = k + a
  BY TextsOfShape
<1>2. t \in Seq(Nat) /\ Len(t) = c - a /\ \A k \in 1 .. (c - a) : t[k] = k + a
  <2>1. a <= c
    OBVIOUS
  <2> QED
    BY <2>1, TextsOfShape
<1> HIDE DEF s, t
<1>3. /\ Append(s, c) \in Seq(Nat) /\ Len(Append(s, c)) = Len(s) + 1
      /\ Append(s, c)[Len(s) + 1] = c
      /\ \A k \in 1 .. Len(s) : Append(s, c)[k] = s[k]
  BY <1>1, AppendProperties
<1>4. Len(Append(s, c)) = Len(t)
  BY <1>1, <1>2, <1>3
<1>5. \A k \in 1 .. Len(t) : Append(s, c)[k] = t[k]
  <2> TAKE k \in 1 .. Len(t)
  <2>1. k \in 1 .. Len(s) \/ k = Len(s) + 1
    BY <1>1, <1>2
  <2>2. t[k] = k + a
    BY <1>2
  <2>3. CASE k \in 1 .. Len(s)
    <3>1. s[k] = k + a
      BY <1>1, <2>3
    <3> QED
      BY <1>3, <2>2, <2>3, <3>1
  <2>4. CASE k = Len(s) + 1
    <3>1. k + a = c
      BY <1>1, <2>4
    <3> QED
      BY <1>3, <2>2, <2>4, <3>1
  <2> QED
    BY <2>1, <2>3, <2>4
<1>6. Append(s, c) = t
  BY <1>2, <1>3, <1>4, <1>5, SeqEqual
<1> QED
  BY <1>6 DEF s, t

LEMMA NewestTexts ==
    ASSUME NEW a \in Nat, NEW b \in Nat, a <= b
    PROVE  Newest(TextsOf(a, b), MemoryTurns) = Recent(a, b) /\ Since(a, b) \in a .. b
<1> DEFINE s == TextsOf(a, b)
           c == b - MemoryTurns
           t == TextsOf(c, b)
<1>1. s \in Seq(Nat) /\ Len(s) = b - a /\ \A k \in 1 .. (b - a) : s[k] = k + a
  BY TextsOfShape
<1>2. MemoryTurns \in Nat
  BY CharacterAssumption
<1>3. CASE b - a > MemoryTurns
  <2>1. c \in Nat /\ a <= c /\ c <= b /\ b - c = MemoryTurns
    BY <1>2, <1>3
  <2>2. t \in Seq(Nat) /\ Len(t) = b - c /\ \A k \in 1 .. (b - c) : t[k] = k + c
    BY <2>1, TextsOfShape
  <2> HIDE DEF s, t
  <2>3. Len(s) - MemoryTurns + 1 \in 1 .. (Len(s) + 1) /\ Len(s) \in Nat
    BY <1>1, <1>2, <1>3
  <2> DEFINE m == Len(s) - MemoryTurns + 1
  <2>4. m \in 1 .. (Len(s) + 1) /\ Len(s) \in (m - 1) .. Len(s) /\ Len(s) - m + 1 = MemoryTurns
    BY <1>2, <2>3
  <2> HIDE DEF m
  <2>5. /\ SubSeq(s, m, Len(s)) \in Seq(Nat) /\ Len(SubSeq(s, m, Len(s))) = Len(s) - m + 1
        /\ \A k \in 1 .. (Len(s) - m + 1) : SubSeq(s, m, Len(s))[k] = s[m + k - 1]
    BY <1>1, <2>4, SubSeqProperties
  <2>6. \A k \in 1 .. Len(t) : SubSeq(s, m, Len(s))[k] = t[k]
    <3> TAKE k \in 1 .. Len(t)
    <3>1. k \in 1 .. (b - c) /\ k \in 1 .. (Len(s) - m + 1) /\ t[k] = k + c
      BY <2>1, <2>2, <2>4
    <3>2. m + k - 1 \in 1 .. (b - a) /\ m + k - 1 + a = k + c
      BY <1>1, <1>2, <1>3, <3>1 DEF m
    <3> QED
      BY <1>1, <2>5, <3>1, <3>2
  <2>7. SubSeq(s, m, Len(s)) = t
    BY <2>1, <2>2, <2>4, <2>5, <2>6, SeqEqual
  <2>8. Newest(s, MemoryTurns) = t
    BY <1>1, <1>3, <2>7 DEF Newest, m
  <2>9. Since(a, b) = c
    BY <1>3 DEF Since
  <2> QED
    BY <2>1, <2>8, <2>9 DEF Recent, s, t
<1>4. CASE ~(b - a > MemoryTurns)
  <2>1. Since(a, b) = a /\ a \in a .. b
    BY <1>4 DEF Since
  <2> HIDE DEF s
  <2>2. Newest(s, MemoryTurns) = s
    BY <1>1, <1>4 DEF Newest
  <2> QED
    BY <2>1, <2>2 DEF Recent, s
<1> QED
  BY <1>3, <1>4

LEMMA RecentGrows ==
    ASSUME NEW a \in Nat, NEW b \in Nat, NEW n \in Nat, a <= b, n = b + 1
    PROVE  /\ Recent(a, b) \in Seq(Nat)
           /\ Newest(Append(Recent(a, b), n), MemoryTurns) = Recent(a, n)
<1>1. Since(a, b) \in a .. b
  BY NewestTexts
<1> DEFINE c == Since(a, b)
<1>2. c \in Nat /\ c <= b /\ c <= n
  BY <1>1
<1>3. Since(c, n) = Since(a, n)
  BY CharacterAssumption DEF Since
<1>4. Recent(a, b) = TextsOf(c, b)
  BY DEF Recent
<1> HIDE DEF c
<1>5. Append(TextsOf(c, b), n) = TextsOf(c, n)
  BY <1>2, TextsOfGrows
<1>6. Newest(TextsOf(c, n), MemoryTurns) = Recent(c, n)
  BY <1>2, NewestTexts
<1>7. TextsOf(c, b) \in Seq(Nat)
  BY <1>2, TextsOfShape
<1>8. Recent(c, n) = Recent(a, n)
  BY <1>3 DEF Recent
<1> QED
  BY <1>4, <1>5, <1>6, <1>7, <1>8

LEMMA PushHead ==
    ASSUME NEW S, NEW q \in Seq(S), NEW x \in S, q # << >>
    PROVE  Head(Append(q, x)) = Head(q)
<1>1. Head(q) = q[1] /\ 1 \in DOMAIN q
  BY SeqPop, SMTT(30)
<1>2. Append(q, x) \in Seq(S) /\ Append(q, x) # << >> /\ Append(q, x)[1] = q[1]
  BY <1>1, SeqPush, SMTT(30)
<1>3. Head(Append(q, x)) = Append(q, x)[1]
  BY <1>2, SeqPop, SMTT(30)
<1> QED
  BY <1>1, <1>2, <1>3

LEMMA CharacterInit_Inv == CharacterInit => CharacterInv
<1> SUFFICES ASSUME CharacterInit PROVE CharacterInv
  OBVIOUS
<1> USE DEF CharacterInit
<1>1. << >> \in Seq(Asks) /\ << >> \in Seq(Turns) /\ << >> \in Seq(Nat) /\ Len(turns) = 0
  BY SeqEmpty
<1>2. Elems(<< >>) = {} /\ DOMAIN turns = {}
  BY SeqEmpty
<1>3. CharacterTypeOK
  BY <1>1 DEF CharacterTypeOK
<1>4. TurnsTold
  <2>1. \A f \in Followers : follow[f].queue = << >> /\ follow[f].busy = FALSE /\ made[f] = {}
    OBVIOUS
  <2> QED
    BY <1>2, <2>1 DEF TurnsTold
<1>5. AnswerAtHand
  BY DEF AnswerAtHand
<1>6. Remembered
  <2>1. Since(0, 0) = 0
    BY CharacterAssumption DEF Since
  <2>2. TextsOf(0, 0) \in Seq(Nat) /\ Len(TextsOf(0, 0)) = 0
    BY TextsOfShape
  <2>3. Recent(0, 0) = << >>
    BY <2>1, <2>2, EmptySeq DEF Recent
  <2> QED
    BY <1>1, <2>3 DEF Remembered
<1> QED
  BY <1>3, <1>4, <1>5, <1>6 DEF CharacterInv

\* What the followers do touches neither the brain nor the turns.
LEMMA FollowersStep ==
    ASSUME CharacterInv, UNCHANGED brainVars, interrupted' \in Nat, bound' \subseteq Followers,
           follow' \in [Followers -> [queue : Seq(Turns), busy : BOOLEAN]],
           made' \in [Followers -> SUBSET [turn : Nat, text : Nat]],
           \A f \in Followers : /\ \A t \in Elems(follow'[f].queue) : t.text = t.id
                                /\ follow'[f].busy => follow'[f].queue # << >>
                                /\ \A x \in made'[f] : x.text = x.turn
    PROVE  CharacterInv'
<1> USE DEF CharacterInv
<1>1. UNCHANGED << inbox, answering, memory, turns, thisRun, replies, asked >>
  BY DEF brainVars
<1>2. CharacterTypeOK'
  BY <1>1 DEF CharacterTypeOK
<1>3. TurnsTold'
  BY <1>1 DEF TurnsTold
<1>4. AnswerAtHand' /\ Remembered'
  BY <1>1 DEF AnswerAtHand, Remembered
<1> QED
  BY <1>2, <1>3, <1>4

LEMMA Followers_Inv ==
    ASSUME CharacterInv, NEW f \in Followers,
           BindFollower(f) \/ Serve(f) \/ ServeAck(f) \/ FollowerEnds(f)
    PROVE  CharacterInv'
<1> USE DEF CharacterInv
<1>1. /\ follow \in [Followers -> [queue : Seq(Turns), busy : BOOLEAN]]
      /\ made \in [Followers -> SUBSET [turn : Nat, text : Nat]]
      /\ bound \subseteq Followers /\ interrupted \in Nat
      /\ follow[f].queue \in Seq(Turns) /\ follow[f].busy \in BOOLEAN
  BY DEF CharacterTypeOK
<1>2. \A g \in Followers : /\ \A t \in Elems(follow[g].queue) : t.text = t.id
                           /\ follow[g].busy => follow[g].queue # << >>
                           /\ \A x \in made[g] : x.text = x.turn
  BY DEF TurnsTold
<1>3. UNCHANGED brainVars
  BY DEF BindFollower, Serve, ServeAck, FollowerEnds
<1>4. CASE BindFollower(f)
  BY <1>1, <1>2, <1>3, <1>4, FollowersStep DEF BindFollower
<1>5. CASE Serve(f)
  <2> DEFINE t == Head(follow[f].queue)
             x == [turn |-> t.id, text |-> t.text]
  <2>1. /\ follow[f].queue # << >> /\ made' = [made EXCEPT ![f] = @ \cup {x}]
        /\ follow' = [follow EXCEPT ![f].busy = TRUE]
        /\ UNCHANGED << bound, interrupted >>
    BY <1>5 DEF Serve
  <2>2. t \in Turns /\ t \in Elems(follow[f].queue)
    BY <1>1, <2>1, SeqPop, SMTT(30)
  <2>3. t.text = t.id
    BY <1>2, <2>2
  <2>4. x \in [turn : Nat, text : Nat] /\ x.text = x.turn
    BY <2>2, <2>3 DEF Turns
  <2> HIDE DEF t, x
  <2>5. /\ made' \in [Followers -> SUBSET [turn : Nat, text : Nat]]
        /\ made'[f] = made[f] \cup {x} /\ \A g \in Followers \ {f} : made'[g] = made[g]
    BY <1>1, <2>1, <2>4
  <2>6. /\ follow' \in [Followers -> [queue : Seq(Turns), busy : BOOLEAN]]
        /\ \A g \in Followers : follow'[g].queue = follow[g].queue
        /\ \A g \in Followers \ {f} : follow'[g].busy = follow[g].busy
    BY <1>1, <2>1
  <2>7. \A g \in Followers : /\ \A y \in Elems(follow'[g].queue) : y.text = y.id
                             /\ follow'[g].busy => follow'[g].queue # << >>
    BY <1>2, <2>1, <2>6
  <2>8. \A g \in Followers : \A y \in made'[g] : y.text = y.turn
    BY <1>2, <2>4, <2>5
  <2> QED
    BY <1>1, <1>3, <2>1, <2>5, <2>6, <2>7, <2>8, FollowersStep
<1>6. CASE ServeAck(f)
  <2>1. /\ follow[f].busy
        /\ follow' = [follow EXCEPT ![f] = [queue |-> Tail(follow[f].queue), busy |-> FALSE]]
        /\ UNCHANGED << bound, interrupted, made >>
    BY <1>6 DEF ServeAck
  <2>2. follow[f].queue # << >>
    BY <1>2, <2>1
  <2>3. /\ Tail(follow[f].queue) \in Seq(Turns)
        /\ Elems(Tail(follow[f].queue)) \subseteq Elems(follow[f].queue)
    BY <1>1, <2>2, SeqPop, SMTT(30)
  <2>4. /\ follow' \in [Followers -> [queue : Seq(Turns), busy : BOOLEAN]]
        /\ follow'[f] = [queue |-> Tail(follow[f].queue), busy |-> FALSE]
        /\ \A g \in Followers \ {f} : follow'[g] = follow[g]
    BY <1>1, <2>1, <2>3
  <2>5. follow'[f].queue = Tail(follow[f].queue) /\ ~follow'[f].busy
    BY <2>4
  <2>6. \A g \in Followers : /\ \A y \in Elems(follow'[g].queue) : y.text = y.id
                             /\ follow'[g].busy => follow'[g].queue # << >>
    <3> SUFFICES ASSUME NEW g \in Followers
                 PROVE  /\ \A y \in Elems(follow'[g].queue) : y.text = y.id
                        /\ follow'[g].busy => follow'[g].queue # << >>
      OBVIOUS
    <3>1. CASE g = f
      <4>1. \A y \in Elems(Tail(follow[f].queue)) : y.text = y.id
        BY <1>2, <2>3
      <4> QED
        BY <2>5, <3>1, <4>1
    <3>2. CASE g # f
      <4>1. follow'[g] = follow[g]
        BY <2>4, <3>2
      <4> QED
        BY <1>2, <4>1
    <3> QED
      BY <3>1, <3>2
  <2> QED
    BY <1>1, <1>2, <1>3, <2>1, <2>4, <2>6, FollowersStep
<1>7. CASE FollowerEnds(f)
  <2>1. /\ follow' = [follow EXCEPT ![f].busy = FALSE] /\ interrupted' = interrupted + 1
        /\ UNCHANGED << bound, made >>
    BY <1>7 DEF FollowerEnds, Interrupted
  <2>2. /\ follow' \in [Followers -> [queue : Seq(Turns), busy : BOOLEAN]]
        /\ \A g \in Followers : follow'[g].queue = follow[g].queue
        /\ \A g \in Followers : follow'[g].busy => follow[g].busy
    BY <1>1, <2>1
  <2>3. \A g \in Followers : /\ \A y \in Elems(follow'[g].queue) : y.text = y.id
                             /\ follow'[g].busy => follow'[g].queue # << >>
    BY <1>2, <2>2
  <2>4. interrupted' \in Nat
    BY <1>1, <2>1
  <2> QED
    BY <1>1, <1>2, <1>3, <2>1, <2>2, <2>3, <2>4, FollowersStep
<1> QED
  BY <1>4, <1>5, <1>6, <1>7

\* The steps of the brain that publish no turn.
LEMMA Brain_Inv ==
    ASSUME CharacterInv,
           \/ \E yes \in BOOLEAN : AskCharacter(yes) \/ Generate(yes) \/ Remember(yes)
           \/ PublishReply \/ BrainSettles \/ BrainEnds
    PROVE  CharacterInv'
<1> USE DEF CharacterInv
<1>1. /\ inbox \in Seq(Asks) /\ asked \in Nat /\ interrupted \in Nat
      /\ answering \in [all : BOOLEAN, at : {"idle", "turn", "memory", "reply", "settle"}]
      /\ memory \in Seq(Nat) /\ turns \in Seq(Turns) /\ thisRun \in 0 .. Len(turns)
      /\ replies \subseteq [of : Nat, text : Nat]
      /\ Len(turns) \in Nat
  BY SeqShape DEF CharacterTypeOK
<1>2. UNCHANGED << turns, bound, follow, made >>
  BY DEF AskCharacter, Generate, Remember, PublishReply, BrainSettles, BrainEnds, followVars
<1>3. TurnsTold'
  BY <1>2 DEF TurnsTold
<1> SUFFICES CharacterTypeOK' /\ AnswerAtHand' /\ Remembered'
  BY <1>3
<1>4. ASSUME NEW yes \in BOOLEAN, AskCharacter(yes)
      PROVE  CharacterTypeOK' /\ AnswerAtHand' /\ Remembered'
  <2> DEFINE m == [id |-> asked + 1, prefix |-> yes]
  <2>1. /\ asked' = asked + 1 /\ inbox' = Append(inbox, m)
        /\ UNCHANGED << answering, memory, turns, thisRun, replies, interrupted >>
    BY <1>4 DEF AskCharacter
  <2>2. m \in Asks
    BY <1>1 DEF Asks
  <2> HIDE DEF m
  <2>3. /\ inbox' \in Seq(Asks) /\ inbox' # << >>
        /\ inbox # << >> => Head(inbox') = Head(inbox)
    BY <1>1, <2>1, <2>2, SeqPush, PushHead
  <2>4. AnswerAtHand'
    BY <2>1, <2>3 DEF AnswerAtHand
  <2> QED
    BY <1>1, <1>2, <2>1, <2>3, <2>4 DEF CharacterTypeOK, Remembered
<1>5. ASSUME NEW yes \in BOOLEAN, Generate(yes)
      PROVE  CharacterTypeOK' /\ AnswerAtHand' /\ Remembered'
  <2>1. /\ answering.at = "idle" /\ inbox # << >>
        /\ \E p \in {"turn", "settle"} : answering' = [answering EXCEPT !.at = p]
        /\ UNCHANGED << inbox, memory, thisRun, replies, asked, interrupted >>
    BY <1>5 DEF Generate, BrainAt, BrainTo
  <2>2. /\ answering' \in [all : BOOLEAN, at : {"idle", "turn", "memory", "reply", "settle"}]
        /\ answering'.at \in {"turn", "settle"}
    BY <1>1, <2>1
  <2> QED
    BY <1>1, <1>2, <2>1, <2>2 DEF CharacterTypeOK, AnswerAtHand, Remembered
<1>6. ASSUME NEW yes \in BOOLEAN, Remember(yes)
      PROVE  CharacterTypeOK' /\ AnswerAtHand' /\ Remembered'
  <2>1. /\ answering.at = "memory"
        /\ memory' = Newest(Append(memory, turns[Len(turns)].text), MemoryTurns)
        /\ \E p \in {"reply", "settle"} : answering' = [answering EXCEPT !.at = p]
        /\ UNCHANGED << inbox, thisRun, replies, asked, interrupted >>
    BY <1>6 DEF Remember, BrainAt, BrainTo
  <2>2. /\ answering' \in [all : BOOLEAN, at : {"idle", "turn", "memory", "reply", "settle"}]
        /\ answering'.at \in {"reply", "settle"}
    BY <1>1, <2>1
  <2> DEFINE n == Len(turns)
             b == n - 1
  <2>3. thisRun \in Nat /\ b \in Nat /\ n \in Nat /\ thisRun <= b /\ n = b + 1
    BY <1>1, <2>1 DEF AnswerAtHand
  <2>4. turns[n].text = n
    <3>1. DOMAIN turns = 1 .. Len(turns)
      BY <1>1, SeqShape
    <3> QED
      BY <2>3, <3>1 DEF TurnsTold
  <2>5. memory = Recent(thisRun, b)
    BY <2>1 DEF Remembered
  <2>6. memory' = Newest(Append(Recent(thisRun, b), n), MemoryTurns)
    BY <2>1, <2>4, <2>5
  <2>7. /\ Recent(thisRun, b) \in Seq(Nat)
        /\ Newest(Append(Recent(thisRun, b), n), MemoryTurns) = Recent(thisRun, n)
    <3> HIDE DEF n, b
    <3> QED
      BY <2>3, RecentGrows
  <2>8. Recent(thisRun, n) \in Seq(Nat)
    <3> HIDE DEF n, b
    <3>0. thisRun <= n
      BY <2>3
    <3>1. Since(thisRun, n) \in thisRun .. n
      BY <2>3, <3>0, NewestTexts
    <3>2. Since(thisRun, n) \in Nat /\ Since(thisRun, n) <= n
      BY <2>3, <3>1
    <3> QED
      BY <2>3, <3>2, TextsOfShape DEF Recent
  <2>9. Remembered'
    BY <1>2, <2>1, <2>2, <2>6, <2>7 DEF Remembered
  <2>10. memory' \in Seq(Nat)
    BY <2>6, <2>7, <2>8
  <2>11. AnswerAtHand'
    BY <1>2, <2>1, <2>2 DEF AnswerAtHand
  <2>12. CharacterTypeOK'
    BY <1>1, <1>2, <2>1, <2>2, <2>10 DEF CharacterTypeOK
  <2> QED
    BY <2>9, <2>11, <2>12
<1>7. CASE PublishReply
  <2> DEFINE r == [of |-> Head(inbox).id, text |-> turns[Len(turns)].text]
  <2>1. /\ answering.at = "reply" /\ replies' = replies \cup {r}
        /\ answering' = [answering EXCEPT !.at = "settle"]
        /\ UNCHANGED << inbox, memory, thisRun, asked, interrupted >>
    BY <1>7 DEF PublishReply, BrainAt, BrainTo
  <2>2. /\ answering' \in [all : BOOLEAN, at : {"idle", "turn", "memory", "reply", "settle"}]
        /\ answering'.at = "settle"
    BY <1>1, <2>1
  <2>3. /\ inbox # << >> /\ turns # << >> /\ turns[Len(turns)].of = Head(inbox).id
    BY <2>1 DEF AnswerAtHand
  <2>4. Len(turns) \in DOMAIN turns /\ turns[Len(turns)] \in Turns
    BY <1>1, <2>3, SeqShape
  <2>5. Head(inbox) \in Asks
    BY <1>1, <2>3, SeqPop, SMTT(30)
  <2>6. r \in [of : Nat, text : Nat]
    BY <2>4, <2>5 DEF Turns, Asks
  <2>7. \E k \in DOMAIN turns : turns[k].of = r.of /\ turns[k].text = r.text
    BY <2>3, <2>4
  <2> HIDE DEF r
  <2>8. AnswerAtHand'
    BY <1>2, <2>1, <2>2, <2>3, <2>7 DEF AnswerAtHand
  <2>9. CharacterTypeOK'
    BY <1>1, <1>2, <2>1, <2>2, <2>6 DEF CharacterTypeOK
  <2>10. Remembered'
    BY <1>2, <2>1, <2>2 DEF Remembered
  <2> QED
    BY <2>8, <2>9, <2>10
<1>8. CASE BrainSettles
  <2>1. /\ answering.at = "settle" /\ answering' = [answering EXCEPT !.at = "idle"]
        /\ inbox' = Tail(inbox)
        /\ UNCHANGED << memory, thisRun, replies, asked, interrupted >>
    BY <1>8 DEF BrainSettles, BrainAt, BrainTo
  <2>2. /\ answering' \in [all : BOOLEAN, at : {"idle", "turn", "memory", "reply", "settle"}]
        /\ answering'.at = "idle"
    BY <1>1, <2>1
  <2>3. inbox' \in Seq(Asks)
    BY <1>1, <2>1, SeqPop DEF AnswerAtHand
  <2>4. AnswerAtHand' /\ Remembered'
    BY <1>2, <2>1, <2>2 DEF AnswerAtHand, Remembered
  <2> QED
    BY <1>1, <1>2, <2>1, <2>2, <2>3, <2>4 DEF CharacterTypeOK
<1>9. CASE BrainEnds
  <2>1. /\ answering' = [answering EXCEPT !.at = "idle"] /\ interrupted' = interrupted + 1
        /\ memory' = << >> /\ thisRun' = Len(turns)
        /\ UNCHANGED << inbox, replies, asked >>
    BY <1>9 DEF BrainEnds, Interrupted, BrainTo
  <2>2. /\ answering' \in [all : BOOLEAN, at : {"idle", "turn", "memory", "reply", "settle"}]
        /\ answering'.at = "idle"
    BY <1>1, <2>1
  <2>3. << >> \in Seq(Nat)
    BY SeqEmpty
  <2>4. Remembered'
    <3> DEFINE n == Len(turns)
    <3>1. n \in Nat
      BY <1>1
    <3> HIDE DEF n
    <3>2. Since(n, n) = n /\ n - n = 0 /\ n <= n
      BY <3>1, CharacterAssumption DEF Since
    <3>3. TextsOf(n, n) \in Seq(Nat) /\ Len(TextsOf(n, n)) = 0
      BY <3>1, <3>2, TextsOfShape
    <3>4. Recent(n, n) = << >>
      BY <3>2, <3>3, EmptySeq DEF Recent
    <3> QED
      BY <1>2, <2>1, <2>2, <3>4 DEF Remembered, n
  <2>5. AnswerAtHand'
    BY <1>2, <2>1, <2>2 DEF AnswerAtHand
  <2>6. CharacterTypeOK'
    BY <1>1, <1>2, <2>1, <2>2, <2>3 DEF CharacterTypeOK
  <2> QED
    BY <2>4, <2>5, <2>6
<1> QED
  BY <1>4, <1>5, <1>6, <1>7, <1>8, <1>9

LEMMA PublishTurn_Inv == ASSUME CharacterInv, PublishTurn PROVE CharacterInv'
<1> USE DEF CharacterInv
<1> DEFINE n == Len(turns) + 1
           turn == [id |-> n, text |-> n, of |-> Head(inbox).id]
<1>1. /\ inbox \in Seq(Asks) /\ turns \in Seq(Turns) /\ thisRun \in 0 .. Len(turns)
      /\ answering \in [all : BOOLEAN, at : {"idle", "turn", "memory", "reply", "settle"}]
      /\ follow \in [Followers -> [queue : Seq(Turns), busy : BOOLEAN]]
      /\ Len(turns) \in Nat /\ DOMAIN turns = 1 .. Len(turns)
  BY SeqShape DEF CharacterTypeOK
<1>2. /\ answering.at = "turn" /\ turns' = Append(turns, turn)
      /\ follow' = [f \in Followers |->
             IF f \in bound THEN [follow[f] EXCEPT !.queue = Append(@, turn)] ELSE follow[f]]
      /\ answering' = [answering EXCEPT !.at = "memory"]
      /\ UNCHANGED << inbox, memory, thisRun, replies, bound, made, asked, interrupted >>
  BY DEF PublishTurn, BrainAt, BrainTo, TurnId
<1>3. inbox # << >>
  BY <1>2 DEF AnswerAtHand
<1>4. turn \in Turns /\ turn.id = n /\ turn.text = n /\ turn.of = Head(inbox).id
  <2>1. Head(inbox) \in Asks
    BY <1>1, <1>3, SeqPop, SMTT(30)
  <2> QED
    BY <1>1, <2>1 DEF Turns, Asks
<1> HIDE DEF turn
<1>5. /\ Append(turns, turn) \in Seq(Turns) /\ Len(Append(turns, turn)) = n
      /\ Append(turns, turn) # << >> /\ Append(turns, turn)[n] = turn
      /\ DOMAIN Append(turns, turn) = DOMAIN turns \cup {n}
      /\ \A k \in DOMAIN turns : Append(turns, turn)[k] = turns[k]
  BY <1>1, <1>4, SeqPush, SMTT(30)
<1>6. /\ turns' \in Seq(Turns) /\ Len(turns') = n /\ turns' # << >> /\ turns'[n] = turn
      /\ DOMAIN turns' = DOMAIN turns \cup {n}
      /\ \A k \in DOMAIN turns : turns'[k] = turns[k]
  BY <1>2, <1>5
<1>7. /\ answering' \in [all : BOOLEAN, at : {"idle", "turn", "memory", "reply", "settle"}]
      /\ answering'.at = "memory"
  BY <1>1, <1>2
<1>8. ASSUME NEW f \in Followers
      PROVE  /\ follow'[f] \in [queue : Seq(Turns), busy : BOOLEAN]
             /\ \A t \in Elems(follow'[f].queue) : t.text = t.id
             /\ follow'[f].busy => follow'[f].queue # << >>
  <2>1. /\ follow[f] \in [queue : Seq(Turns), busy : BOOLEAN] /\ follow[f].queue \in Seq(Turns)
        /\ \A t \in Elems(follow[f].queue) : t.text = t.id
        /\ follow[f].busy => follow[f].queue # << >>
    BY <1>1 DEF TurnsTold
  <2>2. CASE f \notin bound
    <3>1. follow'[f] = follow[f]
      BY <1>2, <2>2
    <3> QED
      BY <2>1, <3>1
  <2>3. CASE f \in bound
    <3> DEFINE q == follow[f].queue
    <3>1. follow'[f] = [follow[f] EXCEPT !.queue = Append(q, turn)]
      BY <1>2, <2>3
    <3>2. /\ Append(q, turn) \in Seq(Turns) /\ Append(q, turn) # << >>
          /\ Elems(Append(q, turn)) = Elems(q) \cup {turn}
      BY <1>4, <2>1, SeqPush, SMTT(30)
    <3>3. follow'[f].queue = Append(q, turn) /\ follow'[f].busy = follow[f].busy
      BY <2>1, <3>1
    <3>4. follow'[f] \in [queue : Seq(Turns), busy : BOOLEAN]
      BY <2>1, <3>1, <3>2
    <3> QED
      BY <1>4, <2>1, <3>2, <3>3, <3>4
  <2> QED
    BY <2>2, <2>3
<1>9. follow' \in [Followers -> [queue : Seq(Turns), busy : BOOLEAN]]
  BY <1>2, <1>8
<1>10. n \in Nat /\ n \notin DOMAIN turns /\ thisRun \in 0 .. n /\ thisRun < n
  BY <1>1
<1>11. CharacterTypeOK'
  BY <1>2, <1>6, <1>7, <1>9, <1>10 DEF CharacterTypeOK
<1>12. TurnsTold'
  BY <1>2, <1>4, <1>6, <1>8 DEF TurnsTold
<1>13. AnswerAtHand'
  <2>1. \A r \in replies' : \E k \in DOMAIN turns' : turns'[k].of = r.of /\ turns'[k].text = r.text
    BY <1>2, <1>6 DEF AnswerAtHand
  <2> QED
    BY <1>2, <1>3, <1>4, <1>6, <1>7, <1>10, <2>1 DEF AnswerAtHand
<1>14. Remembered'
  <2>1. Len(turns') - 1 = Len(turns)
    BY <1>1, <1>6
  <2>2. memory = Recent(thisRun, Len(turns))
    BY <1>2 DEF Remembered
  <2> QED
    BY <1>2, <1>7, <2>1, <2>2 DEF Remembered
<1> QED
  BY <1>11, <1>12, <1>13, <1>14

LEMMA CharacterNext_Inv == CharacterInv /\ [CharacterNext]_characterVars => CharacterInv'
<1> SUFFICES ASSUME CharacterInv, [CharacterNext]_characterVars PROVE CharacterInv'
  OBVIOUS
<1>1. CASE UNCHANGED characterVars
  BY <1>1 DEF characterVars, CharacterInv, CharacterTypeOK, TurnsTold, AnswerAtHand, Remembered
<1>2. CASE \/ \E yes \in BOOLEAN : AskCharacter(yes) \/ Generate(yes) \/ Remember(yes)
           \/ PublishReply \/ BrainSettles \/ BrainEnds
  BY <1>2, Brain_Inv
<1>3. CASE PublishTurn
  BY <1>3, PublishTurn_Inv
<1>4. CASE \E f \in Followers : BindFollower(f) \/ Serve(f) \/ ServeAck(f) \/ FollowerEnds(f)
  BY <1>4, Followers_Inv
<1> QED
  BY <1>1, <1>2, <1>3, <1>4 DEF CharacterNext

LEMMA CharacterSpec_Inv == CharacterSpec => []CharacterInv
BY CharacterInit_Inv, CharacterNext_Inv, PTL DEF CharacterSpec

\* Every variable of the character's processes stays within its type.
THEOREM CharacterTyping == CharacterSpec => []CharacterTypeOK
<1>1. CharacterInv => CharacterTypeOK
  BY DEF CharacterInv
<1> QED
  BY CharacterSpec_Inv, <1>1, PTL

\* What is heard and seen of an answer is of one text, a chat reply has the text of a turn
\* that was published, and the brain remembers the newest answers of its run and no other
\* (CharacterBrain.handle, turn_id, _append_memory).
THEOREM CharacterBelongsTogether == CharacterSpec => []AnswersBelongTogether
<1>1. CharacterInv => AnswersBelongTogether
  <2> SUFFICES ASSUME CharacterInv PROVE AnswersBelongTogether
    OBVIOUS
  <2> USE DEF CharacterInv
  <2>1. /\ turns \in Seq(Turns) /\ Len(turns) \in Nat /\ thisRun \in Nat /\ thisRun <= Len(turns)
        /\ DOMAIN turns = 1 .. Len(turns)
    BY SeqShape DEF CharacterTypeOK
  <2>2. \A f, g \in Followers : \A x \in made[f], y \in made[g] :
            x.turn = y.turn => x.text = y.text
    BY DEF TurnsTold
  <2>3. \A r \in replies : \E k \in DOMAIN turns : turns[k].of = r.of /\ turns[k].text = r.text
    BY DEF AnswerAtHand
  <2>4. ASSUME ~BrainAt("memory")
        PROVE  memory = Newest([k \in 1 .. (Len(turns) - thisRun) |-> turns[k + thisRun].text],
                               MemoryTurns)
    <3>1. memory = Recent(thisRun, Len(turns))
      BY <2>4 DEF Remembered, BrainAt
    <3>2. \A k \in 1 .. (Len(turns) - thisRun) : turns[k + thisRun].text = k + thisRun
      <4> TAKE k \in 1 .. (Len(turns) - thisRun)
      <4>1. k + thisRun \in DOMAIN turns
        BY <2>1
      <4> QED
        BY <4>1 DEF TurnsTold
    <3>3. [k \in 1 .. (Len(turns) - thisRun) |-> turns[k + thisRun].text]
            = TextsOf(thisRun, Len(turns))
      BY <3>2 DEF TextsOf
    <3>4. Newest(TextsOf(thisRun, Len(turns)), MemoryTurns) = Recent(thisRun, Len(turns))
      BY <2>1, NewestTexts
    <3> QED
      BY <3>1, <3>3, <3>4
  <2> QED
    BY <2>2, <2>3, <2>4 DEF AnswersBelongTogether
<1> QED
  BY CharacterSpec_Inv, <1>1, PTL

-----------------------------------------------------------------------------
(* LensReader *)

Readers == [loop : BOOLEAN, event : BOOLEAN, signal : BOOLEAN, stopped : BOOLEAN,
            irc : {"none", "starting", "connecting", "reading", "ending", "ended"},
            queue : Seq(Nat), lines : Nat]
LensItems == {"chat", "over", "connected", "stopped"} \X Nat \X Nat

LensTypeOK ==
    /\ serving \in {"idle", "stop", "close", "join", "stopped"} /\ next \in {"start", "stop"}
    /\ current \in 0 .. MaxReads /\ flag \in BOOLEAN
    /\ reader \in [Read -> Readers]
    /\ worker \in [Read -> {"none", "begin", "drain", "close", "ended"}]
    /\ outbox \in Seq(LensItems) /\ wire \in Seq(LensItems)
    /\ late \subseteq Read /\ strays \subseteq Read

\* The session has a reader while it stops one, and none when it has; the reads start in
\* their order, and one is left for the start command that is under way.
ServedInTurn ==
    /\ serving = "stopped" => current = 0
    /\ serving \in {"stop", "close", "join"} => current # 0
    /\ current \in Started \cup {0}
    /\ \E n \in 0 .. MaxReads : Started = 1 .. n
    /\ next = "start" /\ serving # "idle" => Started # Read

\* A read is over once its threads are: a thread that a join did not give up on has ended
\* when the reader forgets it, and when its draining thread ends.
IrcOver(r) == reader[r].irc \in {"none", "ended"}

ThreadsEnd ==
    /\ \A r \in Read :
          /\ worker[r] \in {"none", "begin"} => reader[r].irc = "none"
          /\ r \notin late /\ ~reader[r].loop => IrcOver(r)
          /\ r \notin late /\ worker[r] = "ended" => IrcOver(r)
          /\ r \in Started /\ r # current /\ r \notin late => worker[r] = "ended"
    /\ strays \subseteq late

\* What may follow what on the wire.
Before(x, y) ==
    x[1] \in {"chat", "over"} /\ y[1] = "chat" /\ x[2] = y[2] => x[1] = "chat" /\ x[3] < y[3]

InOrder(q)   == \A j, k \in DOMAIN q : j < k => Before(q[j], q[k])
LineOrder(q) == \A j, k \in DOMAIN q : j < k /\ q[k] # 0 => q[j] < q[k]

\* A line sent is older than those of its read that wait; "over" was the thread's last.
ItemSound(x) ==
    /\ x[1] = "chat" => /\ x[2] \in Read /\ x[3] < reader[x[2]].lines + 1
                        /\ \A i \in Elems(reader[x[2]].queue) : i # 0 => x[3] < i
    /\ x[1] = "over" => x[2] \in Read /\ worker[x[2]] = "ended"

LinesLeave ==
    /\ InOrder(wire) /\ InOrder(outbox)
    /\ \A x \in Elems(wire), y \in Elems(outbox) : Before(x, y)
    /\ \A x \in Elems(wire) \cup Elems(outbox) : ItemSound(x)
    /\ \A r \in Read : /\ LineOrder(reader[r].queue)
                       /\ \A i \in Elems(reader[r].queue) : i < reader[r].lines + 1

LensInv == LensTypeOK /\ ServedInTurn /\ ThreadsEnd /\ LinesLeave

LEMMA InOrderPush ==
    ASSUME NEW q \in Seq(LensItems), InOrder(q), NEW x \in LensItems,
           \A a \in Elems(q) : Before(a, x)
    PROVE  InOrder(Append(q, x))
<1>1. \A j, k \in DOMAIN q : j < k => Before(q[j], q[k])
  BY DEF InOrder
<1>2. Len(q) \in Nat /\ DOMAIN q = 1 .. Len(q) /\ \A k \in DOMAIN q : Before(q[k], x)
  BY SeqShape
<1>3. /\ DOMAIN Append(q, x) = 1 .. (Len(q) + 1) /\ Append(q, x)[Len(q) + 1] = x
      /\ \A k \in 1 .. Len(q) : Append(q, x)[k] = q[k]
  BY AppendProperties, LenProperties
<1> QED
  BY <1>1, <1>2, <1>3 DEF InOrder

LEMMA InOrderPop ==
    ASSUME NEW q \in Seq(LensItems), InOrder(q), q # << >>
    PROVE  InOrder(Tail(q)) /\ \A b \in Elems(Tail(q)) : Before(Head(q), b)
<1>1. InOrder(Tail(q))
  <2> SUFFICES ASSUME NEW j \in DOMAIN Tail(q), NEW k \in DOMAIN Tail(q), j < k
               PROVE  Before(Tail(q)[j], Tail(q)[k])
    BY DEF InOrder
  <2>1. /\ j \in Nat /\ j + 1 \in DOMAIN q /\ Tail(q)[j] = q[j + 1]
        /\ k \in Nat /\ k + 1 \in DOMAIN q /\ Tail(q)[k] = q[k + 1]
    BY SeqPop, SMTT(30)
  <2>2. j + 1 < k + 1
    BY <2>1
  <2> QED
    BY <2>1, <2>2 DEF InOrder
<1>2. \A k \in DOMAIN Tail(q) : Before(Head(q), Tail(q)[k])
  <2> SUFFICES ASSUME NEW k \in DOMAIN Tail(q) PROVE Before(Head(q), Tail(q)[k])
    OBVIOUS
  <2>1. /\ k \in Nat /\ k + 1 \in DOMAIN q /\ Tail(q)[k] = q[k + 1] /\ Head(q) = q[1]
        /\ 1 \in DOMAIN q /\ DOMAIN Tail(q) = 1 .. Len(Tail(q)) /\ Len(Tail(q)) \in Nat
    BY SeqPop, SeqShape
  <2>2. 1 < k + 1
    BY <2>1
  <2> QED
    BY <2>1, <2>2 DEF InOrder
<1> QED
  BY <1>1, <1>2 DEF Elems

LEMMA LinePush ==
    ASSUME NEW q \in Seq(Nat), LineOrder(q), NEW x \in Nat,
           x # 0 => \A a \in Elems(q) : a < x
    PROVE  LineOrder(Append(q, x))
<1>1. \A j, k \in DOMAIN q : j < k /\ q[k] # 0 => q[j] < q[k]
  BY DEF LineOrder
<1>2. Len(q) \in Nat /\ DOMAIN q = 1 .. Len(q) /\ \A k \in DOMAIN q : x # 0 => q[k] < x
  BY SeqShape
<1>3. /\ DOMAIN Append(q, x) = 1 .. (Len(q) + 1) /\ Append(q, x)[Len(q) + 1] = x
      /\ \A k \in 1 .. Len(q) : Append(q, x)[k] = q[k]
  BY AppendProperties, LenProperties
<1> QED
  BY <1>1, <1>2, <1>3 DEF LineOrder

LEMMA LinePop ==
    ASSUME NEW q \in Seq(Nat), LineOrder(q), q # << >>
    PROVE  LineOrder(Tail(q)) /\ \A b \in Elems(Tail(q)) : b # 0 => Head(q) < b
<1>1. LineOrder(Tail(q))
  <2> SUFFICES ASSUME NEW j \in DOMAIN Tail(q), NEW k \in DOMAIN Tail(q),
                      j < k, Tail(q)[k] # 0
               PROVE  Tail(q)[j] < Tail(q)[k]
    BY DEF LineOrder
  <2>1. /\ j \in Nat /\ j + 1 \in DOMAIN q /\ Tail(q)[j] = q[j + 1]
        /\ k \in Nat /\ k + 1 \in DOMAIN q /\ Tail(q)[k] = q[k + 1]
    BY SeqPop, SMTT(30)
  <2>2. j + 1 < k + 1
    BY <2>1
  <2> QED
    BY <2>1, <2>2 DEF LineOrder
<1>2. \A k \in DOMAIN Tail(q) : Tail(q)[k] # 0 => Head(q) < Tail(q)[k]
  <2> SUFFICES ASSUME NEW k \in DOMAIN Tail(q), Tail(q)[k] # 0 PROVE Head(q) < Tail(q)[k]
    OBVIOUS
  <2>1. /\ k \in Nat /\ k + 1 \in DOMAIN q /\ Tail(q)[k] = q[k + 1] /\ Head(q) = q[1]
        /\ 1 \in DOMAIN q /\ DOMAIN Tail(q) = 1 .. Len(Tail(q)) /\ Len(Tail(q)) \in Nat
    BY SeqPop, SeqShape
  <2>2. 1 < k + 1
    BY <2>1
  <2> QED
    BY <2>1, <2>2 DEF LineOrder
<1> QED
  BY <1>1, <1>2 DEF Elems

LEMMA LensInit_Inv == LensInit => LensInv
<1> SUFFICES ASSUME LensInit PROVE LensInv
  OBVIOUS
<1> USE DEF LensInit
<1>1. /\ << >> \in Seq(LensItems) /\ << >> \in Seq(Nat) /\ Elems(<< >>) = {}
      /\ DOMAIN << >> = {}
  BY SeqEmpty
<1>2. Fresh \in Readers
  BY <1>1 DEF Fresh, Readers
<1>3. \A r \in Read : /\ reader[r] = Fresh /\ worker[r] = "none" /\ reader[r].irc = "none"
                      /\ reader[r].queue = << >>
  BY DEF Fresh
<1>4. MaxReads \in Nat /\ 0 \in 0 .. MaxReads
  BY LensAssumption
<1>5. LensTypeOK
  BY <1>1, <1>2, <1>4 DEF LensTypeOK
<1>6. ServedInTurn
  <2>1. Started = {} /\ 1 .. 0 = {}
    BY <1>3 DEF Started
  <2> QED
    BY <1>4, <2>1 DEF ServedInTurn
<1>7. ThreadsEnd
  BY <1>3 DEF ThreadsEnd, IrcOver, Started
<1>8. LinesLeave
  BY <1>1, <1>3 DEF LinesLeave, InOrder, LineOrder
<1> QED
  BY <1>5, <1>6, <1>7, <1>8 DEF LensInv

\* A step that neither takes nor adds a line, nor sends anything.
LEMMA QuietLines ==
    ASSUME LensInv, UNCHANGED << wire, outbox >>,
           \A r \in Read : /\ reader'[r].queue = reader[r].queue
                           /\ reader'[r].lines = reader[r].lines
                           /\ worker[r] = "ended" => worker'[r] = "ended"
    PROVE  LinesLeave'
<1> USE DEF LensInv
<1>1. ASSUME NEW x, ItemSound(x) PROVE ItemSound(x)'
  BY <1>1 DEF ItemSound
<1>2. \A x \in Elems(wire') \cup Elems(outbox') : ItemSound(x)'
  BY <1>1 DEF LinesLeave
<1>3. \A r \in Read : /\ LineOrder(reader'[r].queue)
                      /\ \A i \in Elems(reader'[r].queue) : i < reader'[r].lines + 1
  BY DEF LinesLeave
<1> QED
  BY <1>2, <1>3 DEF LinesLeave

\* A step of one reader, and what forgetting its thread leaves as it was.
LEMMA OneReader ==
    ASSUME reader \in [Read -> Readers], NEW r \in Read, NEW v \in Readers,
           reader' = [reader EXCEPT ![r] = v]
    PROVE  /\ reader' \in [Read -> Readers] /\ reader'[r] = v
           /\ \A k \in Read \ {r} : reader'[k] = reader[k]
OBVIOUS

LEMMA ForgottenShape ==
    ASSUME reader \in [Read -> Readers], NEW r \in Read, reader' = Forgotten(r)
    PROVE  /\ reader' \in [Read -> Readers] /\ ~reader'[r].loop
           /\ \A k \in Read : /\ reader'[k].queue = reader[k].queue
                              /\ reader'[k].lines = reader[k].lines
                              /\ reader'[k].irc = reader[k].irc
                              /\ k # r => reader'[k].loop = reader[k].loop
<1> DEFINE v == [reader[r] EXCEPT !.stopped = TRUE, !.loop = FALSE, !.event = FALSE]
<1>1. reader' = [reader EXCEPT ![r] = v]
  BY DEF Forgotten
<1>2. /\ v \in Readers /\ v.loop = FALSE /\ v.queue = reader[r].queue
      /\ v.lines = reader[r].lines /\ v.irc = reader[r].irc
  <2>1. reader[r] \in Readers
    OBVIOUS
  <2> QED
    BY <2>1 DEF Readers
<1> HIDE DEF v
<1>3. /\ reader' \in [Read -> Readers] /\ reader'[r] = v
      /\ \A k \in Read \ {r} : reader'[k] = reader[k]
  BY <1>1, <1>2, OneReader
<1> QED
  BY <1>2, <1>3

\* The command, and the steps that stop a reader.
LEMMA LensStops_Inv ==
    ASSUME LensInv,
           \/ \E what \in {"start", "stop"} : LensCommand(what)
           \/ ReaderStop
           \/ \E gaveUp \in BOOLEAN : ReaderClose(gaveUp) \/ JoinWorker(gaveUp)
    PROVE  LensInv'
<1> USE DEF LensInv
<1>1. /\ serving \in {"idle", "stop", "close", "join", "stopped"} /\ next \in {"start", "stop"}
      /\ current \in 0 .. MaxReads /\ flag \in BOOLEAN /\ reader \in [Read -> Readers]
      /\ late \subseteq Read
  BY DEF LensTypeOK
<1>2. /\ UNCHANGED << worker, outbox, wire, strays >> /\ Started' = Started
  BY DEF LensCommand, ReaderStop, ReaderClose, JoinWorker, Started
<1>3. serving \in {"stop", "close", "join"} => current \in Read /\ current \in Started
  BY <1>1 DEF ServedInTurn, Read, Started
<1>4. CASE \E what \in {"start", "stop"} : LensCommand(what)
  <2>1. PICK what \in {"start", "stop"} : LensCommand(what)
    BY <1>4
  <2>2. /\ serving = "idle" /\ next' = what /\ flag' = TRUE
        /\ IF what = "start" THEN Started # Read ELSE current # 0
        /\ serving' = IF current = 0 THEN "stopped" ELSE "stop"
        /\ UNCHANGED << current, reader, late >>
    BY <2>1 DEF LensCommand
  <2>3. LensTypeOK'
    BY <1>1, <1>2, <2>2 DEF LensTypeOK
  <2>4. ServedInTurn'
    BY <1>2, <2>2 DEF ServedInTurn
  <2>5. ThreadsEnd'
    BY <1>2, <2>2 DEF ThreadsEnd, IrcOver
  <2>6. LinesLeave'
    BY <1>2, <2>2, QuietLines
  <2> QED
    BY <2>3, <2>4, <2>5, <2>6
<1>5. CASE ReaderStop
  <2> DEFINE v == [reader[current] EXCEPT !.stopped = TRUE,
                     !.signal = @ \/ (reader[current].loop /\ reader[current].event)]
  <2>1. /\ serving = "stop" /\ serving' = "close" /\ reader' = [reader EXCEPT ![current] = v]
        /\ UNCHANGED << next, current, flag, late >>
    BY <1>5 DEF ReaderStop
  <2>2. current \in Read /\ current \in Started
    BY <1>3, <2>1
  <2>3. /\ v \in Readers /\ v.loop = reader[current].loop /\ v.queue = reader[current].queue
        /\ v.lines = reader[current].lines /\ v.irc = reader[current].irc
    <3>1. reader[current] \in Readers
      BY <1>1, <2>2
    <3> QED
      BY <3>1 DEF Readers
  <2> HIDE DEF v
  <2>4. /\ reader' \in [Read -> Readers] /\ reader'[current] = v
        /\ \A k \in Read \ {current} : reader'[k] = reader[k]
    BY <1>1, <2>1, <2>2, <2>3, OneReader
  <2>5. \A k \in Read : /\ reader'[k].queue = reader[k].queue /\ reader'[k].lines = reader[k].lines
                        /\ reader'[k].irc = reader[k].irc /\ reader'[k].loop = reader[k].loop
    BY <2>3, <2>4
  <2>6. LensTypeOK'
    BY <1>1, <1>2, <2>1, <2>4 DEF LensTypeOK
  <2>7. ServedInTurn'
    BY <1>2, <2>1 DEF ServedInTurn
  <2>8. ThreadsEnd'
    BY <1>2, <2>1, <2>5 DEF ThreadsEnd, IrcOver
  <2>9. LinesLeave'
    BY <1>2, <2>5, QuietLines
  <2> QED
    BY <2>6, <2>7, <2>8, <2>9
<1>6. ASSUME NEW gaveUp \in BOOLEAN, ReaderClose(gaveUp) PROVE LensInv'
  <2>1. /\ serving = "close" /\ gaveUp # LoopOver(current) /\ reader' = Forgotten(current)
        /\ late' = IF gaveUp THEN late \cup {current} ELSE late
        /\ serving' = "join" /\ UNCHANGED << next, current, flag >>
    BY <1>6 DEF ReaderClose
  <2>2. current \in Read /\ current \in Started
    BY <1>3, <2>1
  <2>3. /\ reader' \in [Read -> Readers] /\ ~reader'[current].loop
        /\ \A k \in Read : /\ reader'[k].queue = reader[k].queue
                           /\ reader'[k].lines = reader[k].lines
                           /\ reader'[k].irc = reader[k].irc
                           /\ k # current => reader'[k].loop = reader[k].loop
    BY <1>1, <2>1, <2>2, ForgottenShape
  <2>4. late \subseteq late' /\ late' \subseteq Read
    BY <1>1, <2>1, <2>2
  <2>5. current \notin late' => IrcOver(current)
    <3> SUFFICES ASSUME current \notin late' PROVE IrcOver(current)
      OBVIOUS
    <3>1. ~gaveUp /\ current \notin late
      BY <2>1
    <3>2. LoopOver(current)
      BY <2>1, <3>1 DEF LoopOver
    <3> QED
      BY <2>2, <3>1, <3>2 DEF LoopOver, ThreadsEnd, IrcOver
  <2>6. LensTypeOK'
    BY <1>1, <1>2, <2>1, <2>3, <2>4 DEF LensTypeOK
  <2>7. ServedInTurn'
    BY <1>2, <2>1 DEF ServedInTurn
  <2>8. ThreadsEnd'
    BY <1>2, <2>1, <2>3, <2>4, <2>5 DEF ThreadsEnd, IrcOver
  <2>9. LinesLeave'
    BY <1>2, <2>3, QuietLines
  <2> QED
    BY <2>6, <2>7, <2>8, <2>9
<1>7. ASSUME NEW gaveUp \in BOOLEAN, JoinWorker(gaveUp) PROVE LensInv'
  <2>1. /\ serving = "join" /\ gaveUp # (worker[current] = "ended")
        /\ late' = IF gaveUp THEN late \cup {current} ELSE late
        /\ current' = 0 /\ serving' = "stopped" /\ UNCHANGED << next, flag, reader >>
    BY <1>7 DEF JoinWorker
  <2>2. current \in Read /\ current \in Started
    BY <1>3, <2>1
  <2>3. late \subseteq late' /\ late' \subseteq Read
    BY <1>1, <2>1, <2>2
  <2>4. current \notin late' => worker[current] = "ended"
    BY <2>1
  <2>5. LensTypeOK'
    BY <1>1, <1>2, <2>1, <2>3, LensAssumption DEF LensTypeOK
  <2>6. ServedInTurn'
    BY <1>2, <2>1 DEF ServedInTurn
  <2>7. ThreadsEnd'
    BY <1>2, <2>1, <2>3, <2>4 DEF ThreadsEnd, IrcOver
  <2>8. LinesLeave'
    BY <1>2, <2>1, QuietLines
  <2> QED
    BY <2>5, <2>6, <2>7, <2>8
<1> QED
  BY <1>4, <1>5, <1>6, <1>7

\* What is said on the wire besides lines and "over" disturbs no order.
LEMMA WirePush ==
    ASSUME LensInv, NEW x \in LensItems, x[1] \in {"connected", "stopped"},
           wire' = Append(wire, x), outbox' = outbox, reader' = reader,
           \A r \in Read : worker[r] = "ended" => worker'[r] = "ended"
    PROVE  LinesLeave' /\ wire' \in Seq(LensItems)
<1> USE DEF LensInv
<1>1. wire \in Seq(LensItems) /\ InOrder(wire)
  BY DEF LensTypeOK, LinesLeave
<1>2. \A y : Before(x, y) /\ Before(y, x)
  BY DEF Before
<1>3. /\ Append(wire, x) \in Seq(LensItems) /\ InOrder(Append(wire, x))
      /\ Elems(Append(wire, x)) = Elems(wire) \cup {x}
  BY <1>1, <1>2, SeqPush, InOrderPush
<1>4. wire' \in Seq(LensItems) /\ InOrder(wire') /\ Elems(wire') = Elems(wire) \cup {x}
  BY <1>3
<1>5. \A y \in Elems(wire') \cup Elems(outbox') : ItemSound(y)'
  <2> TAKE y \in Elems(wire') \cup Elems(outbox')
  <2>1. CASE y = x
    BY <2>1 DEF ItemSound
  <2>2. CASE y # x
    <3>1. ItemSound(y)
      BY <1>4, <2>2 DEF LinesLeave
    <3> QED
      BY <3>1 DEF ItemSound
  <2> QED
    BY <2>1, <2>2
<1>6. \A y \in Elems(wire'), z \in Elems(outbox') : Before(y, z)
  BY <1>2, <1>4 DEF LinesLeave
<1> QED
  BY <1>4, <1>5, <1>6 DEF LinesLeave

LEMMA LensSays_Inv ==
    ASSUME LensInv, SayStopped \/ StartReading \/ Send
    PROVE  LensInv'
<1> USE DEF LensInv
<1>1. /\ serving \in {"idle", "stop", "close", "join", "stopped"} /\ next \in {"start", "stop"}
      /\ current \in 0 .. MaxReads /\ flag \in BOOLEAN /\ reader \in [Read -> Readers]
      /\ worker \in [Read -> {"none", "begin", "drain", "close", "ended"}]
      /\ outbox \in Seq(LensItems) /\ wire \in Seq(LensItems)
  BY DEF LensTypeOK
<1>2. UNCHANGED << next, reader, late, strays >>
  BY DEF SayStopped, StartReading, Send
<1>3. CASE SayStopped
  <2>1. /\ wire' = Append(wire, << "stopped", 0, 0 >>) /\ serving' = "idle"
        /\ UNCHANGED << current, flag, worker, outbox >>
    BY <1>3 DEF SayStopped
  <2>2. LinesLeave' /\ wire' \in Seq(LensItems)
    <3> DEFINE x == << "stopped", 0, 0 >>
    <3>1. x \in LensItems /\ x[1] \in {"connected", "stopped"}
      BY DEF LensItems
    <3>2. wire' = Append(wire, x)
      BY <2>1
    <3> HIDE DEF x
    <3> QED
      BY <1>2, <2>1, <3>1, <3>2, WirePush
  <2>3. Started' = Started
    BY <2>1 DEF Started
  <2>4. LensTypeOK'
    BY <1>1, <1>2, <2>1, <2>2 DEF LensTypeOK
  <2>5. ServedInTurn'
    BY <2>1, <2>3 DEF ServedInTurn
  <2>6. ThreadsEnd'
    BY <1>2, <2>1, <2>3 DEF ThreadsEnd, IrcOver
  <2> QED
    BY <2>2, <2>4, <2>5, <2>6
<1>4. CASE StartReading
  <2>1. PICK n \in 0 .. MaxReads : Started = 1 .. n
    BY DEF ServedInTurn
  <2>2. /\ serving = "stopped" /\ next = "start" /\ serving' = "idle" /\ flag' = FALSE
        /\ outbox' = outbox
    BY <1>4 DEF StartReading
  <2>3. MaxReads \in Nat /\ n \in Nat /\ n + 1 \in Read /\ n + 1 \notin Started
    <3>1. n # MaxReads
      BY <2>1, <2>2 DEF ServedInTurn, Read
    <3> QED
      BY <2>1, <3>1, LensAssumption DEF Read
  <2>4. \A j \in Read \ Started : n + 1 = j \/ n + 1 < j
    BY <2>1, <2>3 DEF Read
  <2> DEFINE r == CHOOSE k \in Read \ Started : \A j \in Read \ Started : k <= j
  <2>5. r = n + 1
    <3>1. n + 1 \in Read \ Started /\ \A j \in Read \ Started : n + 1 <= j
      BY <2>3, <2>4 DEF Read
    <3>2. r \in Read \ Started /\ \A j \in Read \ Started : r <= j
      BY <3>1
    <3>3. r <= n + 1 /\ n + 1 <= r /\ r \in Nat
      BY <3>1, <3>2, <2>3 DEF Read
    <3> HIDE DEF r
    <3> QED
      BY <2>3, <3>3
  <2>6. /\ current' = r /\ worker' = [worker EXCEPT ![r] = "begin"]
        /\ wire' = Append(wire, << "connected", r, 0 >>)
    BY <1>4 DEF StartReading
  <2> HIDE DEF r
  <2>7. r \in Read /\ r \notin Started /\ r \in Nat /\ r # 0
    BY <2>3, <2>5 DEF Read
  <2>8. /\ worker' \in [Read -> {"none", "begin", "drain", "close", "ended"}]
        /\ worker'[r] = "begin" /\ \A k \in Read \ {r} : worker'[k] = worker[k]
        /\ worker[r] = "none"
    BY <1>1, <2>6, <2>7 DEF Started
  <2>9. Started' = Started \cup {r}
    BY <2>7, <2>8 DEF Started
  <2>10. Started' = 1 .. (n + 1) /\ n + 1 \in 0 .. MaxReads
    BY <2>1, <2>3, <2>5, <2>9 DEF Read
  <2>11. LinesLeave' /\ wire' \in Seq(LensItems)
    <3> DEFINE x == << "connected", r, 0 >>
    <3>1. x \in LensItems /\ x[1] \in {"connected", "stopped"}
      BY <2>7 DEF LensItems
    <3>2. wire' = Append(wire, x)
      BY <2>6
    <3>3. \A k \in Read : worker[k] = "ended" => worker'[k] = "ended"
      BY <2>8
    <3> HIDE DEF x
    <3> QED
      BY <1>2, <2>2, <3>1, <3>2, <3>3, WirePush
  <2>12. LensTypeOK'
    BY <1>1, <1>2, <2>2, <2>3, <2>5, <2>6, <2>8, <2>10, <2>11 DEF LensTypeOK
  <2>13. ServedInTurn'
    BY <2>2, <2>6, <2>7, <2>9, <2>10 DEF ServedInTurn
  <2>14. ThreadsEnd'
    <3>1. current = 0
      BY <2>2 DEF ServedInTurn
    <3>2. \A k \in Read : k # 0
      BY DEF Read
    <3> QED
      BY <1>2, <2>6, <2>7, <2>8, <2>9, <3>1, <3>2 DEF ThreadsEnd, IrcOver
  <2> QED
    BY <2>11, <2>12, <2>13, <2>14
<1>5. CASE Send
  <2>1. /\ outbox # << >> /\ wire' = Append(wire, Head(outbox)) /\ outbox' = Tail(outbox)
        /\ UNCHANGED << serving, current, flag, worker >>
    BY <1>5 DEF Send
  <2> DEFINE h == Head(outbox)
  <2>2. /\ h \in LensItems /\ Tail(outbox) \in Seq(LensItems)
        /\ Elems(outbox) = {h} \cup Elems(Tail(outbox))
    BY <1>1, <2>1, SeqPop, SMTT(30)
  <2>3. InOrder(Tail(outbox)) /\ \A b \in Elems(Tail(outbox)) : Before(h, b)
    BY <1>1, <2>1, InOrderPop DEF LinesLeave
  <2>4. \A a \in Elems(wire) : Before(a, h)
    BY <2>2 DEF LinesLeave
  <2> HIDE DEF h
  <2>5. /\ Append(wire, h) \in Seq(LensItems) /\ InOrder(Append(wire, h))
        /\ Elems(Append(wire, h)) = Elems(wire) \cup {h}
    BY <1>1, <2>2, <2>4, SeqPush, InOrderPush DEF LinesLeave
  <2>6. /\ wire' \in Seq(LensItems) /\ InOrder(wire') /\ Elems(wire') = Elems(wire) \cup {h}
    BY <2>1, <2>5 DEF h
  <2>7. \A x \in Elems(wire'), y \in Elems(outbox') : Before(x, y)
    BY <2>1, <2>2, <2>3, <2>6 DEF LinesLeave
  <2>8. \A x \in Elems(wire') \cup Elems(outbox') : ItemSound(x)'
    <3> TAKE x \in Elems(wire') \cup Elems(outbox')
    <3>1. ItemSound(x)
      BY <2>1, <2>2, <2>6 DEF LinesLeave
    <3> QED
      BY <1>2, <2>1, <3>1 DEF ItemSound
  <2>9. LinesLeave'
    BY <1>2, <2>1, <2>3, <2>6, <2>7, <2>8 DEF LinesLeave
  <2>10. Started' = Started
    BY <2>1 DEF Started
  <2>11. LensTypeOK'
    BY <1>1, <1>2, <2>1, <2>2, <2>6 DEF LensTypeOK
  <2>12. ServedInTurn'
    BY <1>2, <2>1, <2>10 DEF ServedInTurn
  <2>13. ThreadsEnd'
    BY <1>2, <2>1, <2>10 DEF ThreadsEnd, IrcOver
  <2> QED
    BY <2>9, <2>11, <2>12, <2>13
<1> QED
  BY <1>3, <1>4, <1>5

\* A step of one thread that ends nothing: its reader keeps its loop, and the IRC thread
\* goes from not over to not over or to the end.
LEMMA ThreadStep ==
    ASSUME LensInv, NEW r \in Read, worker[r] \notin {"none", "begin"},
           UNCHANGED << serving, next, current, flag, late >>, strays' \subseteq late,
           worker' \in [Read -> {"none", "begin", "drain", "close", "ended"}],
           reader' \in [Read -> Readers],
           outbox' \in Seq(LensItems), wire' = wire,
           \A k \in Read \ {r} : worker'[k] = worker[k] /\ reader'[k] = reader[k],
           worker'[r] \notin {"none", "begin"}, worker[r] = "ended" => worker'[r] = "ended",
           worker'[r] = "ended" /\ r \notin late => IrcOver(r)',
           ~reader'[r].loop /\ r \notin late => IrcOver(r)'
    PROVE  LensTypeOK' /\ ServedInTurn' /\ ThreadsEnd'
<1> USE DEF LensInv
<1>1. Started' = Started
  BY DEF Started
<1>2. late \subseteq Read
  BY DEF LensTypeOK
<1>3. LensTypeOK'
  BY <1>2 DEF LensTypeOK
<1>4. ServedInTurn'
  BY <1>1 DEF ServedInTurn
<1>5. ASSUME NEW k \in Read
      PROVE  /\ worker'[k] \in {"none", "begin"} => reader'[k].irc = "none"
             /\ k \notin late' /\ ~reader'[k].loop => IrcOver(k)'
             /\ k \notin late' /\ worker'[k] = "ended" => IrcOver(k)'
             /\ k \in Started' /\ k # current' /\ k \notin late' => worker'[k] = "ended"
  <2>1. CASE k = r
    BY <1>1, <2>1 DEF ThreadsEnd
  <2>2. CASE k # r
    BY <1>1, <2>2 DEF ThreadsEnd, IrcOver
  <2> QED
    BY <2>1, <2>2
<1>6. ThreadsEnd'
  BY <1>5 DEF ThreadsEnd
<1> QED
  BY <1>3, <1>4, <1>6

\* A line that leaves the queue or is sent, and no other.
LEMMA OutboxPush ==
    ASSUME LensInv, NEW x \in LensItems, wire' = wire, outbox' = Append(outbox, x),
           x[1] = "chat" => \A y \in Elems(wire) \cup Elems(outbox) : Before(y, x),
           x[1] \in {"chat", "over"}, ItemSound(x)',
           \A y \in Elems(wire) \cup Elems(outbox) : ItemSound(y)',
           \A k \in Read : /\ LineOrder(reader'[k].queue)
                           /\ \A i \in Elems(reader'[k].queue) : i < reader'[k].lines + 1
    PROVE  LinesLeave' /\ outbox' \in Seq(LensItems)
<1> USE DEF LensInv
<1>1. outbox \in Seq(LensItems) /\ InOrder(outbox)
  BY DEF LensTypeOK, LinesLeave
<1>2. \A y \in Elems(wire) \cup Elems(outbox) : Before(y, x)
  BY DEF Before
<1>3. /\ Append(outbox, x) \in Seq(LensItems) /\ InOrder(Append(outbox, x))
      /\ Elems(Append(outbox, x)) = Elems(outbox) \cup {x}
  BY <1>1, <1>2, SeqPush, InOrderPush
<1>4. outbox' \in Seq(LensItems) /\ InOrder(outbox') /\ Elems(outbox') = Elems(outbox) \cup {x}
  BY <1>3
<1>5. \A y \in Elems(wire') \cup Elems(outbox') : ItemSound(y)'
  BY <1>4
<1>6. \A y \in Elems(wire'), z \in Elems(outbox') : Before(y, z)
  BY <1>2, <1>4 DEF LinesLeave
<1> QED
  BY <1>4, <1>5, <1>6 DEF LinesLeave

LEMMA WorkerTake_Inv == ASSUME LensInv, NEW r \in Read, WorkerTake(r) PROVE LensInv'
<1> USE DEF LensInv
<1> DEFINE q    == reader[r].queue
           line == Head(q)
           v    == [reader[r] EXCEPT !.queue = Tail(q)]
<1>1. /\ reader \in [Read -> Readers] /\ reader[r] \in Readers /\ q \in Seq(Nat)
      /\ worker \in [Read -> {"none", "begin", "drain", "close", "ended"}]
      /\ outbox \in Seq(LensItems) /\ flag \in BOOLEAN /\ strays \subseteq late
      /\ reader[r].lines \in Nat
  BY DEF LensTypeOK, Readers, ThreadsEnd
<1>2. /\ worker[r] = "drain" /\ q # << >> /\ reader' = [reader EXCEPT ![r] = v]
      /\ UNCHANGED << serving, next, current, flag, wire, late >>
  BY DEF WorkerTake
<1>3. /\ Tail(q) \in Seq(Nat) /\ line \in Nat /\ line \in Elems(q)
      /\ Elems(Tail(q)) \subseteq Elems(q)
  BY <1>1, <1>2, SeqPop, SMTT(30)
<1>4. LineOrder(q) /\ \A i \in Elems(q) : i < reader[r].lines + 1
  BY DEF LinesLeave
<1>5. LineOrder(Tail(q)) /\ \A b \in Elems(Tail(q)) : b # 0 => line < b
  BY <1>1, <1>2, <1>4, LinePop
<1>6. /\ v \in Readers /\ v.queue = Tail(q) /\ v.lines = reader[r].lines
      /\ v.irc = reader[r].irc /\ v.loop = reader[r].loop
  BY <1>1, <1>3 DEF Readers
<1> HIDE DEF v
<1>7. /\ reader' \in [Read -> Readers] /\ reader'[r] = v
      /\ \A k \in Read \ {r} : reader'[k] = reader[k]
  BY <1>1, <1>2, <1>6, OneReader
<1>8. \A k \in Read : /\ reader'[k].lines = reader[k].lines
                      /\ Elems(reader'[k].queue) \subseteq Elems(reader[k].queue)
                      /\ LineOrder(reader'[k].queue)
                      /\ \A i \in Elems(reader'[k].queue) : i < reader'[k].lines + 1
  <2> TAKE k \in Read
  <2>1. CASE k = r
    BY <1>3, <1>4, <1>5, <1>6, <1>7, <2>1
  <2>2. CASE k # r
    BY <1>7, <2>2 DEF LinesLeave
  <2> QED
    BY <2>1, <2>2
<1>9. \A k \in Read : worker[k] = "ended" => worker'[k] = "ended"
  BY <1>1, <1>2 DEF WorkerTake
<1>10. ASSUME NEW y, ItemSound(y) PROVE ItemSound(y)'
  BY <1>8, <1>9, <1>10 DEF ItemSound
<1>11. \A y \in Elems(wire) \cup Elems(outbox) : ItemSound(y) /\ ItemSound(y)'
  BY <1>10 DEF LinesLeave
<1>12. CASE line = 0 \/ flag
  <2>1. worker' = [worker EXCEPT ![r] = "close"] /\ UNCHANGED << outbox, strays >>
    BY <1>12 DEF WorkerTake
  <2>2. /\ worker' \in [Read -> {"none", "begin", "drain", "close", "ended"}]
        /\ worker'[r] = "close" /\ \A k \in Read \ {r} : worker'[k] = worker[k]
    BY <1>1, <2>1
  <2>3. ~reader'[r].loop /\ r \notin late => IrcOver(r)'
    BY <1>6, <1>7 DEF ThreadsEnd, IrcOver
  <2>4. LensTypeOK' /\ ServedInTurn' /\ ThreadsEnd'
    BY <1>1, <1>2, <1>7, <2>1, <2>2, <2>3, ThreadStep
  <2>5. LinesLeave'
    BY <1>2, <1>8, <1>11, <2>1 DEF LinesLeave
  <2> QED
    BY <2>4, <2>5
<1>13. CASE ~(line = 0 \/ flag)
  <2>0. PICK x : x = << "chat", r, line >>
    OBVIOUS
  <2>1. /\ outbox' = Append(outbox, x) /\ worker' = worker
        /\ strays' = IF current # r THEN strays \cup {r} ELSE strays
    BY <1>13, <2>0 DEF WorkerTake
  <2>2. r \in Nat /\ x \in LensItems /\ x[1] = "chat" /\ x[2] = r /\ x[3] = line
    BY <1>3, <2>0 DEF LensItems, Read
  <2>3. line # 0
    BY <1>13
  <2>4. \A y \in Elems(wire) \cup Elems(outbox) : Before(y, x)
    <3> TAKE y \in Elems(wire) \cup Elems(outbox)
    <3>1. ItemSound(y)
      BY <1>11
    <3> QED
      BY <1>2, <1>3, <2>2, <2>3, <3>1 DEF Before, ItemSound
  <2>5. ItemSound(x)'
    <3>1. line < reader'[r].lines + 1
      BY <1>3, <1>4, <1>6, <1>7
    <3>2. \A i \in Elems(reader'[r].queue) : i # 0 => line < i
      BY <1>5, <1>6, <1>7
    <3>3. x[3] < reader'[x[2]].lines + 1 /\ x[2] \in Read
      BY <2>2, <3>1
    <3>4. \A i \in Elems(reader'[x[2]].queue) : i # 0 => x[3] < i
      BY <2>2, <3>2
    <3>5. x[1] # "over"
      BY <2>2
    <3> QED
      BY <3>3, <3>4, <3>5 DEF ItemSound
  <2>6. LinesLeave' /\ outbox' \in Seq(LensItems)
    <3>1. x[1] \in {"chat", "over"}
      BY <2>2
    <3>2. \A k \in Read : /\ LineOrder(reader'[k].queue)
                          /\ \A i \in Elems(reader'[k].queue) : i < reader'[k].lines + 1
      BY <1>8
    <3>3. \A y \in Elems(wire) \cup Elems(outbox) : ItemSound(y)'
      BY <1>11
    <3>4. wire' = wire /\ outbox' = Append(outbox, x) /\ x \in LensItems
      BY <1>2, <2>1, <2>2
    <3> QED
      BY <2>4, <2>5, <3>1, <3>2, <3>3, <3>4, OutboxPush
  <2>7. r \in Started
    BY <1>2 DEF Started
  <2>8. strays' \subseteq late
    BY <1>1, <1>2, <2>1, <2>7 DEF ThreadsEnd
  <2>9. ~reader'[r].loop /\ r \notin late => IrcOver(r)'
    BY <1>6, <1>7 DEF ThreadsEnd, IrcOver
  <2>10. LensTypeOK' /\ ServedInTurn' /\ ThreadsEnd'
    BY <1>1, <1>2, <1>7, <2>1, <2>6, <2>8, <2>9, ThreadStep
  <2> QED
    BY <2>6, <2>10
<1> QED
  BY <1>12, <1>13

LEMMA WorkerSteps_Inv ==
    ASSUME LensInv, NEW r \in Read,
           WorkerBegin(r) \/ WorkerIdle(r) \/ \E gaveUp \in BOOLEAN : WorkerClose(r, gaveUp)
    PROVE  LensInv'
<1> USE DEF LensInv
<1>1. /\ reader \in [Read -> Readers] /\ reader[r] \in Readers
      /\ worker \in [Read -> {"none", "begin", "drain", "close", "ended"}]
      /\ outbox \in Seq(LensItems) /\ wire \in Seq(LensItems) /\ flag \in BOOLEAN
      /\ late \subseteq Read /\ strays \subseteq late
  BY DEF LensTypeOK, ThreadsEnd
<1>2. UNCHANGED << serving, next, current, flag, wire, strays >>
  BY DEF WorkerBegin, WorkerIdle, WorkerClose
<1>3. CASE WorkerBegin(r)
  <2> DEFINE v == [reader[r] EXCEPT !.stopped = FALSE, !.loop = TRUE, !.irc = "starting"]
  <2>1. /\ worker[r] = "begin" /\ worker' = [worker EXCEPT ![r] = "drain"]
        /\ reader' = [reader EXCEPT ![r] = v] /\ UNCHANGED << outbox, late >>
    BY <1>3 DEF WorkerBegin
  <2>2. /\ v \in Readers /\ v.loop /\ v.irc = "starting" /\ v.queue = reader[r].queue
        /\ v.lines = reader[r].lines
    BY <1>1 DEF Readers
  <2> HIDE DEF v
  <2>3. /\ reader' \in [Read -> Readers] /\ reader'[r] = v
        /\ \A k \in Read \ {r} : reader'[k] = reader[k]
    BY <1>1, <2>1, <2>2, OneReader
  <2>4. /\ worker' \in [Read -> {"none", "begin", "drain", "close", "ended"}]
        /\ worker'[r] = "drain" /\ \A k \in Read \ {r} : worker'[k] = worker[k]
    BY <1>1, <2>1
  <2>5. Started' = Started
    BY <2>1, <2>4 DEF Started
  <2>6. LensTypeOK'
    BY <1>1, <1>2, <2>1, <2>3, <2>4 DEF LensTypeOK
  <2>7. ServedInTurn'
    BY <1>2, <2>5 DEF ServedInTurn
  <2>8. ASSUME NEW k \in Read
        PROVE  /\ worker'[k] \in {"none", "begin"} => reader'[k].irc = "none"
               /\ k \notin late' /\ ~reader'[k].loop => IrcOver(k)'
               /\ k \notin late' /\ worker'[k] = "ended" => IrcOver(k)'
               /\ k \in Started' /\ k # current' /\ k \notin late' => worker'[k] = "ended"
    <3>1. CASE k = r
      <4>1. r \in Started /\ worker[r] # "ended"
        BY <2>1 DEF Started
      <4> QED
        BY <1>2, <2>1, <2>2, <2>3, <2>4, <3>1, <4>1 DEF ThreadsEnd
    <3>2. CASE k # r
      BY <1>2, <2>1, <2>3, <2>4, <2>5, <3>2 DEF ThreadsEnd, IrcOver
    <3> QED
      BY <3>1, <3>2
  <2>9. ThreadsEnd'
    BY <1>1, <1>2, <2>1, <2>8 DEF ThreadsEnd
  <2>10. LinesLeave'
    <3>1. \A k \in Read : /\ reader'[k].queue = reader[k].queue
                          /\ reader'[k].lines = reader[k].lines
                          /\ worker[k] = "ended" => worker'[k] = "ended"
      BY <2>1, <2>2, <2>3, <2>4
    <3> QED
      BY <1>2, <2>1, <3>1, QuietLines
  <2> QED
    BY <2>6, <2>7, <2>9, <2>10
<1>4. CASE WorkerIdle(r)
  <2>1. /\ worker[r] = "drain" /\ worker' = [worker EXCEPT ![r] = "close"]
        /\ UNCHANGED << reader, outbox, late >>
    BY <1>4 DEF WorkerIdle
  <2>2. /\ worker' \in [Read -> {"none", "begin", "drain", "close", "ended"}]
        /\ worker'[r] = "close" /\ \A k \in Read \ {r} : worker'[k] = worker[k]
    BY <1>1, <2>1
  <2>3. ~reader'[r].loop /\ r \notin late => IrcOver(r)'
    BY <2>1 DEF ThreadsEnd, IrcOver
  <2>4. LensTypeOK' /\ ServedInTurn' /\ ThreadsEnd'
    BY <1>1, <1>2, <2>1, <2>2, <2>3, ThreadStep
  <2>5. LinesLeave'
    <3>1. \A k \in Read : worker[k] = "ended" => worker'[k] = "ended"
      BY <2>1, <2>2
    <3> QED
      BY <1>2, <2>1, <3>1, QuietLines
  <2> QED
    BY <2>4, <2>5
<1>5. ASSUME NEW gaveUp \in BOOLEAN, WorkerClose(r, gaveUp) PROVE LensInv'
  <2> DEFINE x == << "over", r, 0 >>
  <2>1. /\ worker[r] = "close" /\ gaveUp # LoopOver(r) /\ reader' = Forgotten(r)
        /\ late' = IF gaveUp THEN late \cup {r} ELSE late
        /\ worker' = [worker EXCEPT ![r] = "ended"]
        /\ outbox' = IF flag THEN outbox ELSE Append(outbox, x)
    BY <1>5 DEF WorkerClose
  <2>2. /\ reader' \in [Read -> Readers] /\ ~reader'[r].loop
        /\ \A k \in Read : /\ reader'[k].queue = reader[k].queue
                           /\ reader'[k].lines = reader[k].lines
                           /\ reader'[k].irc = reader[k].irc
                           /\ k # r => reader'[k].loop = reader[k].loop
    BY <1>1, <2>1, ForgottenShape
  <2>3. /\ worker' \in [Read -> {"none", "begin", "drain", "close", "ended"}]
        /\ worker'[r] = "ended" /\ \A k \in Read \ {r} : worker'[k] = worker[k]
    BY <1>1, <2>1
  <2>4. late \subseteq late' /\ late' \subseteq Read
    BY <1>1, <2>1
  <2>5. Started' = Started
    BY <2>1, <2>3 DEF Started
  <2>6. r \notin late' => IrcOver(r)
    <3> SUFFICES ASSUME r \notin late' PROVE IrcOver(r)
      OBVIOUS
    <3>1. ~gaveUp /\ r \notin late
      BY <2>1
    <3>2. LoopOver(r)
      BY <2>1, <3>1 DEF LoopOver
    <3> QED
      BY <3>1, <3>2 DEF LoopOver, ThreadsEnd, IrcOver
  <2>7. ServedInTurn'
    BY <1>2, <2>5 DEF ServedInTurn
  <2>8. ASSUME NEW k \in Read
        PROVE  /\ worker'[k] \in {"none", "begin"} => reader'[k].irc = "none"
               /\ k \notin late' /\ ~reader'[k].loop => IrcOver(k)'
               /\ k \notin late' /\ worker'[k] = "ended" => IrcOver(k)'
               /\ k \in Started' /\ k # current' /\ k \notin late' => worker'[k] = "ended"
    <3>1. CASE k = r
      BY <2>2, <2>3, <2>6, <3>1 DEF IrcOver
    <3>2. CASE k # r
      BY <1>2, <2>2, <2>3, <2>4, <2>5, <3>2 DEF ThreadsEnd, IrcOver
    <3> QED
      BY <3>1, <3>2
  <2>9. ThreadsEnd'
    BY <1>1, <1>2, <2>4, <2>8 DEF ThreadsEnd
  <2>10. \A k \in Read : worker[k] = "ended" => worker'[k] = "ended"
    BY <2>1, <2>3
  <2>11. LinesLeave' /\ outbox' \in Seq(LensItems)
    <3>1. CASE flag
      <4>1. outbox' = outbox
        BY <2>1, <3>1
      <4> QED
        BY <1>1, <1>2, <2>2, <2>10, <4>1, QuietLines
    <3>2. CASE ~flag
      <4>1. outbox' = Append(outbox, x)
        BY <2>1, <3>2
      <4>2. x \in LensItems /\ x[1] = "over" /\ x[2] = r
        BY DEF LensItems, Read
      <4> HIDE DEF x
      <4>3. ItemSound(x)'
        BY <2>3, <4>2 DEF ItemSound
      <4>4. ASSUME NEW y, ItemSound(y) PROVE ItemSound(y)'
        BY <2>2, <2>10, <4>4 DEF ItemSound
      <4>5. \A y \in Elems(wire) \cup Elems(outbox) : ItemSound(y)'
        BY <4>4 DEF LinesLeave
      <4>6. \A k \in Read : /\ LineOrder(reader'[k].queue)
                            /\ \A i \in Elems(reader'[k].queue) : i < reader'[k].lines + 1
        BY <2>2 DEF LinesLeave
      <4>7. x[1] \in {"chat", "over"} /\ x[1] # "chat"
        BY <4>2
      <4> QED
        BY <1>2, <4>1, <4>2, <4>3, <4>5, <4>6, <4>7, OutboxPush
    <3> QED
      BY <3>1, <3>2
  <2>12. LensTypeOK'
    BY <1>1, <1>2, <2>2, <2>3, <2>4, <2>11 DEF LensTypeOK
  <2> QED
    BY <2>7, <2>9, <2>11, <2>12
<1> QED
  BY <1>3, <1>4, <1>5

\* A step of the IRC thread, once it was started.
LEMMA IrcStep ==
    ASSUME LensInv, NEW r \in Read, NEW v \in Readers,
           reader[r].irc \in {"starting", "connecting", "reading", "ending"},
           reader' = [reader EXCEPT ![r] = v], v.loop = reader[r].loop, v.irc # "none",
           UNCHANGED << serving, next, current, flag, worker, outbox, wire, late, strays >>,
           LineOrder(v.queue), \A i \in Elems(v.queue) : i < v.lines + 1,
           v.lines = reader[r].lines \/ v.lines = reader[r].lines + 1,
           \A i \in Elems(v.queue) :
              i # 0 => i \in Elems(reader[r].queue) \/ i = reader[r].lines + 1
    PROVE  LensInv'
<1> USE DEF LensInv
<1>1. reader \in [Read -> Readers] /\ reader[r] \in Readers /\ reader[r].lines \in Nat
  BY DEF LensTypeOK, Readers
<1>2. /\ reader' \in [Read -> Readers] /\ reader'[r] = v
      /\ \A k \in Read \ {r} : reader'[k] = reader[k]
  BY <1>1, OneReader
<1>3. /\ worker[r] \notin {"none", "begin"}
      /\ r \notin late => reader[r].loop /\ worker[r] # "ended"
  BY DEF ThreadsEnd, IrcOver
<1>4. LensTypeOK'
  BY <1>2 DEF LensTypeOK
<1>5. Started' = Started
  BY DEF Started
<1>6. ServedInTurn'
  BY <1>5 DEF ServedInTurn
<1>7. ASSUME NEW k \in Read
      PROVE  /\ worker'[k] \in {"none", "begin"} => reader'[k].irc = "none"
             /\ k \notin late' /\ ~reader'[k].loop => IrcOver(k)'
             /\ k \notin late' /\ worker'[k] = "ended" => IrcOver(k)'
             /\ k \in Started' /\ k # current' /\ k \notin late' => worker'[k] = "ended"
  <2>1. CASE k = r
    BY <1>2, <1>3, <1>5, <2>1 DEF ThreadsEnd
  <2>2. CASE k # r
    BY <1>2, <1>5, <2>2 DEF ThreadsEnd, IrcOver
  <2> QED
    BY <2>1, <2>2
<1>8. ThreadsEnd'
  BY <1>7 DEF ThreadsEnd
<1>9. ASSUME NEW x \in Elems(wire) \cup Elems(outbox) PROVE ItemSound(x)'
  <2>1. ItemSound(x)
    BY DEF LinesLeave
  <2>2. CASE x[2] = r /\ x[1] = "chat"
    <3>0. x \in LensItems /\ x[3] \in Nat
      BY SeqShape DEF LensTypeOK, LensItems
    <3>1. /\ x[3] < reader[r].lines + 1
          /\ \A i \in Elems(reader[r].queue) : i # 0 => x[3] < i
      BY <2>1, <2>2 DEF ItemSound
    <3>2. x[3] < v.lines + 1 /\ \A i \in Elems(v.queue) : i # 0 => x[3] < i
      BY <1>1, <3>0, <3>1
    <3>3. reader'[x[2]] = v
      BY <1>2, <2>2
    <3> QED
      BY <2>2, <3>2, <3>3 DEF ItemSound
  <2>3. CASE ~(x[2] = r /\ x[1] = "chat")
    BY <1>2, <2>1, <2>3 DEF ItemSound
  <2> QED
    BY <2>2, <2>3
<1>10. \A k \in Read : /\ LineOrder(reader'[k].queue)
                       /\ \A i \in Elems(reader'[k].queue) : i < reader'[k].lines + 1
  BY <1>2 DEF LinesLeave
<1>11. LinesLeave'
  BY <1>9, <1>10 DEF LinesLeave
<1> QED
  BY <1>4, <1>6, <1>8, <1>11

LEMMA Irc_Inv ==
    ASSUME LensInv, NEW r \in Read,
           IrcLoop(r) \/ IrcJoin(r) \/ IrcLine(r) \/ IrcEnds(r) \/ IrcSentinel(r)
    PROVE  LensInv'
<1> USE DEF LensInv
<1> DEFINE q == reader[r].queue
           n == reader[r].lines + 1
<1>1. /\ reader \in [Read -> Readers] /\ reader[r] \in Readers /\ q \in Seq(Nat)
      /\ reader[r].lines \in Nat /\ n \in Nat
      /\ LineOrder(q) /\ \A i \in Elems(q) : i \in Nat /\ i < n
  <2>1. reader \in [Read -> Readers] /\ reader[r] \in Readers
    BY DEF LensTypeOK
  <2>2. q \in Seq(Nat) /\ reader[r].lines \in Nat
    BY <2>1 DEF Readers
  <2> QED
    BY <2>1, <2>2, SeqShape DEF LinesLeave
<1>2. UNCHANGED << serving, next, current, flag, worker, outbox, wire, late, strays >>
  BY DEF IrcLoop, IrcJoin, IrcLine, IrcEnds, IrcSentinel
<1>3. CASE IrcLoop(r) \/ IrcJoin(r) \/ IrcEnds(r)
  <2>1. PICK s \in {"connecting", "reading", "ending"}, e \in BOOLEAN :
           reader' = [reader EXCEPT ![r] = [reader[r] EXCEPT !.irc = s, !.event = e]]
    <3>1. CASE IrcLoop(r)
      <4>1. reader' = [reader EXCEPT ![r] = [reader[r] EXCEPT !.irc = "connecting",
                                                              !.event = TRUE]]
        BY <3>1 DEF IrcLoop
      <4> QED
        BY <4>1
    <3>2. CASE IrcJoin(r) \/ IrcEnds(r)
      <4>1. \E s \in {"reading", "ending"} : reader' = [reader EXCEPT ![r].irc = s]
        BY <3>2 DEF IrcJoin, IrcEnds
      <4>2. PICK s \in {"reading", "ending"} : reader' = [reader EXCEPT ![r].irc = s]
        BY <4>1
      <4>3. reader[r].event \in BOOLEAN
        BY <1>1 DEF Readers
      <4>4. [reader[r] EXCEPT !.irc = s]
              = [reader[r] EXCEPT !.irc = s, !.event = reader[r].event]
        BY <1>1 DEF Readers
      <4>5. reader' = [reader EXCEPT ![r] = [reader[r] EXCEPT !.irc = s,
                                                              !.event = reader[r].event]]
        BY <4>2, <4>4
      <4> QED
        BY <4>3, <4>5
    <3> QED
      BY <1>3, <3>1, <3>2
  <2> DEFINE v == [reader[r] EXCEPT !.irc = s, !.event = e]
  <2>2. /\ v \in Readers /\ v.loop = reader[r].loop /\ v.irc # "none" /\ v.queue = q
        /\ v.lines = reader[r].lines
    BY <1>1 DEF Readers
  <2>3. reader[r].irc \in {"starting", "connecting", "reading", "ending"}
    BY <1>3 DEF IrcLoop, IrcJoin, IrcEnds
  <2>4. reader' = [reader EXCEPT ![r] = v]
    BY <2>1
  <2> HIDE DEF v
  <2>5. /\ LineOrder(v.queue) /\ \A i \in Elems(v.queue) : i < v.lines + 1
        /\ \A i \in Elems(v.queue) : i # 0 => i \in Elems(reader[r].queue)
    BY <1>1, <2>2
  <2> QED
    BY <1>2, <2>2, <2>3, <2>4, <2>5, IrcStep
<1>4. CASE IrcLine(r)
  <2> DEFINE p == CASE reader[r].stopped -> q
                    [] ~reader[r].stopped /\ Len(q) = LineQueue -> Append(Tail(q), n)
                    [] OTHER -> Append(q, n)
             v == [reader[r] EXCEPT !.lines = n, !.queue = p]
  <2>1. reader[r].irc = "reading" /\ reader' = [reader EXCEPT ![r] = v]
    BY <1>4 DEF IrcLine
  <2>2. p = q \/ (p = Append(Tail(q), n) /\ q # << >>) \/ p = Append(q, n)
    <3>1. Len(q) = LineQueue => q # << >>
      BY <1>1, SeqShape, LensAssumption
    <3> QED
      BY <3>1
  <2> HIDE DEF p
  <2>3. p \in Seq(Nat) /\ Elems(p) \subseteq Elems(q) \cup {n} /\ LineOrder(p)
    <3>1. CASE p = q
      BY <1>1, <3>1
    <3>2. CASE p = Append(q, n)
      <4>1. \A a \in Elems(q) : a < n
        BY <1>1
      <4>2. /\ Append(q, n) \in Seq(Nat) /\ Elems(Append(q, n)) = Elems(q) \cup {n}
            /\ LineOrder(Append(q, n))
        <5> HIDE DEF q, n
        <5> QED
          BY <1>1, <4>1, SeqPush, LinePush
      <4> QED
        BY <3>2, <4>2
    <3>3. CASE p = Append(Tail(q), n) /\ q # << >>
      <4> DEFINE t == Tail(q)
      <4>1. t \in Seq(Nat) /\ Elems(t) \subseteq Elems(q) /\ LineOrder(t)
        <5> HIDE DEF q
        <5> QED
          BY <1>1, <3>3, SeqPop, LinePop
      <4> HIDE DEF t, q, n
      <4>2. \A a \in Elems(t) : a < n
        BY <1>1, <4>1
      <4>3. Append(t, n) \in Seq(Nat) /\ Elems(Append(t, n)) = Elems(t) \cup {n}
        BY <1>1, <4>1, SeqPush, SMTT(30)
      <4>4. LineOrder(Append(t, n))
        BY <1>1, <4>1, <4>2, LinePush
      <4> QED
        BY <3>3, <4>1, <4>3, <4>4 DEF t
    <3> QED
      BY <2>2, <3>1, <3>2, <3>3
  <2>4. /\ v \in Readers /\ v.loop = reader[r].loop /\ v.irc = reader[r].irc /\ v.queue = p
        /\ v.lines = n
    BY <1>1, <2>3 DEF Readers
  <2> HIDE DEF v
  <2>5. v.lines = reader[r].lines + 1 /\ v.irc # "none"
    BY <2>1, <2>4
  <2>6. \A i \in Elems(v.queue) : i < v.lines + 1
    <3>1. \A i \in Elems(q) \cup {n} : i \in Nat /\ (i < n \/ i = n)
      BY <1>1
    <3> HIDE DEF q, n
    <3> QED
      BY <1>1, <2>3, <2>4, <3>1
  <2>7. \A i \in Elems(v.queue) : i \in Elems(reader[r].queue) \/ i = reader[r].lines + 1
    BY <2>3, <2>4
  <2>8. LineOrder(v.queue) /\ reader[r].irc \in {"starting", "connecting", "reading", "ending"}
    BY <2>1, <2>3, <2>4
  <2> QED
    BY <1>2, <2>1, <2>4, <2>5, <2>6, <2>7, <2>8, IrcStep
<1>5. CASE IrcSentinel(r)
  <2> DEFINE p == Append(q, 0)
             v == [reader[r] EXCEPT !.irc = "ended", !.queue = p]
  <2>1. reader[r].irc = "ending" /\ reader' = [reader EXCEPT ![r] = v]
    BY <1>5 DEF IrcSentinel
  <2>2. p \in Seq(Nat) /\ Elems(p) = Elems(q) \cup {0} /\ LineOrder(p)
    <3> HIDE DEF q
    <3>1. 0 \in Nat /\ q \in Seq(Nat) /\ LineOrder(q)
      BY <1>1
    <3>2. p \in Seq(Nat) /\ Elems(p) = Elems(q) \cup {0}
      BY <3>1, SeqPush, SMTT(30)
    <3>3. LineOrder(p)
      BY <3>1, LinePush
    <3> QED
      BY <3>2, <3>3
  <2> HIDE DEF p
  <2>3. /\ v \in Readers /\ v.loop = reader[r].loop /\ v.irc # "none" /\ v.queue = p
        /\ v.lines = reader[r].lines
    BY <1>1, <2>2 DEF Readers
  <2> HIDE DEF v
  <2>4. /\ LineOrder(v.queue) /\ \A i \in Elems(v.queue) : i < v.lines + 1
        /\ \A i \in Elems(v.queue) : i # 0 => i \in Elems(reader[r].queue)
    BY <1>1, <2>2, <2>3
  <2>5. reader[r].irc \in {"starting", "connecting", "reading", "ending"}
    BY <2>1
  <2> QED
    BY <1>2, <2>1, <2>3, <2>4, <2>5, IrcStep
<1> QED
  BY <1>3, <1>4, <1>5

LEMMA LensNext_Inv == LensInv /\ [LensNext]_lensVars => LensInv'
<1> SUFFICES ASSUME LensInv, [LensNext]_lensVars PROVE LensInv'
  OBVIOUS
<1>1. CASE UNCHANGED lensVars
  <2>1. UNCHANGED << serving, next, current, flag, reader, worker, outbox, wire, late, strays >>
    BY <1>1 DEF lensVars
  <2>2. Started' = Started
    BY <2>1 DEF Started
  <2>3. LinesLeave'
    BY <2>1, QuietLines
  <2>4. LensTypeOK' /\ ServedInTurn' /\ ThreadsEnd'
    BY <2>1, <2>2 DEF LensInv, LensTypeOK, ServedInTurn, ThreadsEnd, IrcOver
  <2> QED
    BY <2>3, <2>4 DEF LensInv
<1>2. CASE \/ \E what \in {"start", "stop"} : LensCommand(what)
           \/ ReaderStop
           \/ \E gaveUp \in BOOLEAN : ReaderClose(gaveUp) \/ JoinWorker(gaveUp)
  BY <1>2, LensStops_Inv
<1>3. CASE SayStopped \/ StartReading \/ Send
  BY <1>3, LensSays_Inv
<1>4. ASSUME NEW r \in Read, WorkerTake(r) PROVE LensInv'
  BY <1>4, WorkerTake_Inv
<1>5. ASSUME NEW r \in Read,
             WorkerBegin(r) \/ WorkerIdle(r) \/ \E gaveUp \in BOOLEAN : WorkerClose(r, gaveUp)
      PROVE  LensInv'
  BY <1>5, WorkerSteps_Inv
<1>6. ASSUME NEW r \in Read,
             IrcLoop(r) \/ IrcJoin(r) \/ IrcLine(r) \/ IrcEnds(r) \/ IrcSentinel(r)
      PROVE  LensInv'
  BY <1>6, Irc_Inv
<1> QED
  BY <1>1, <1>2, <1>3, <1>4, <1>5, <1>6 DEF LensNext

LEMMA LensSpec_Inv == LensSpec => []LensInv
BY LensInit_Inv, LensNext_Inv, PTL DEF LensSpec

\* Every variable of the session and of its readers stays within its type.
THEOREM LensTyping == LensSpec => []LensTypeOK
<1>1. LensInv => LensTypeOK
  BY DEF LensInv
<1> QED
  BY LensSpec_Inv, <1>1, PTL

\* A read that the session has let go is over and sends nothing new unless a join gave up
\* on it, and the client receives the lines of a read once and in order (ChatSession
\* start_reading and stop_reading, LiveChatReader stop, close and iter_messages).
THEOREM LensOwnsReads == LensSpec => []SessionOwnsReads
<1>1. LensInv => SessionOwnsReads
  <2> SUFFICES ASSUME LensInv PROVE SessionOwnsReads
    OBVIOUS
  <2>1. LetGoIsOver
    <3>1. \A r \in Started \ ({current} \cup late) :
             worker[r] = "ended" /\ reader[r].irc \in {"none", "ended"}
      BY DEF LensInv, ThreadsEnd, IrcOver, Started
    <3> QED
      BY <3>1 DEF LetGoIsOver, LensInv, ThreadsEnd
  <2>2. LinesInOrder
    BY DEF LensInv, LinesLeave, InOrder, Before, LinesInOrder
  <2> QED
    BY <2>1, <2>2 DEF SessionOwnsReads
<1> QED
  BY LensSpec_Inv, <1>1, PTL

-----------------------------------------------------------------------------
(* The properties of the run that two components share *)

\* Chat arrives once, whichever the platform: of Twitch a message is published at most once
\* and a viewer greeted at most once a stream, of YouTube each message is sent in its order
\* (ingress_twitch_eventsub and ingress_irc_read, ingress_yt_read).
THEOREM ChatArrivesOnce == ChatSpec /\ TubeSpec => []ChatArrives
BY ChatInOnce, TubeOrdered, PTL DEF ChatArrives

\* The screens show what they should: a page of the overlay follows the chat, and the
\* subtitles obey the rules that were saved (sub_show_overlay, sub_subtitle).
THEOREM ScreensShow == OverlaySpec /\ SubtitleSpec => []ScreensCurrent
BY OverlayFollowed, SubtitlesObeyed, PTL DEF ScreensCurrent
=============================================================================

--------------------------- MODULE KnowledgeIndex ---------------------------
(***************************************************************************)
(* The Chroma collections sub-llm retrieves from (sub_llm/chroma_store.py).*)
(* A source is the knowledge directory or one session's summaries; its     *)
(* chunks are upserted when the fingerprint kept in a JSON file differs    *)
(* from that of the source.  Nothing is ever deleted from a collection.    *)
(* Two instances of sub-llm share the files.                               *)
(***************************************************************************)
EXTENDS Integers, FiniteSets

CONSTANTS Reader,    \* the processes with a knowledge store
          Source,    \* sources sharing one fingerprint file
          Chunk,     \* chunk ids of a source
          MaxEdits,  \* bound: changes of a source
          MaxStops   \* bound: processes killed

VARIABLES
    docs,        \* [Source -> [Chunk -> version]], 0 is "absent"
    collection,  \* what was upserted, same shape
    prints,      \* the fingerprint file: [Source -> docs]
    sync,        \* [Reader -> where its synchronisation stands]
    overlapped,  \* history: two synchronisations ran at a time
    restored,    \* history: an edit brought a source back to what its fingerprint says
    edits, stops

indexVars == << docs, collection, prints, sync, overlapped, restored, edits, stops >>

Absent == [c \in Chunk |-> 0]
Resting == [pc |-> "idle"]

IndexInit ==
    /\ docs = [s \in Source |-> Absent] /\ collection = docs /\ prints = docs
    /\ sync = [r \in Reader |-> Resting]
    /\ overlapped = FALSE /\ restored = FALSE /\ edits = 0 /\ stops = 0

\* A file is written or shrinks, a summary is saved or repaired away.
Edit(s, c, version) ==
    /\ edits < MaxEdits /\ edits' = edits + 1
    /\ docs[s][c] # version
    /\ docs' = [docs EXCEPT ![s][c] = version]
    /\ restored' = (restored \/ docs'[s] = prints[s])
    /\ UNCHANGED << collection, prints, sync, overlapped, stops >>

\* preload, or query: the source is read and compared with the file.  An empty source
\* is left alone, its old chunks included.
Compare(r, s) ==
    /\ sync[r] = Resting
    /\ docs[s] # prints[s] /\ docs[s] # Absent
    /\ sync' = [sync EXCEPT ![r] = [pc |-> "upsert", source |-> s, seen |-> docs[s]]]
    /\ overlapped' = (overlapped \/ \E other \in Reader : sync[other] # Resting)
    /\ UNCHANGED << docs, collection, prints, restored, edits, stops >>

Merged(s, seen) == [c \in Chunk |-> IF seen[c] = 0 THEN collection[s][c] ELSE seen[c]]

\* Mutant: the fingerprint is written first, then the chunks.
Upsert_PrintFirst(r) ==
    /\ sync[r].pc = "upsert"
    /\ IF prints[sync[r].source] # sync[r].seen
       THEN /\ prints' = [prints EXCEPT ![sync[r].source] = sync[r].seen]
            /\ UNCHANGED << collection, sync >>
       ELSE /\ collection' = [collection EXCEPT ![sync[r].source] =
                                 Merged(sync[r].source, sync[r].seen)]
            /\ sync' = [sync EXCEPT ![r] = Resting] /\ UNCHANGED prints
    /\ UNCHANGED << docs, overlapped, restored, edits, stops >>

Upsert(r) ==
    /\ sync[r].pc = "upsert"
    /\ collection' = [collection EXCEPT ![sync[r].source] = Merged(sync[r].source, sync[r].seen)]
    /\ sync' = [sync EXCEPT ![r] = [pc |-> "read", source |-> sync[r].source,
                                    seen |-> sync[r].seen]]
    /\ UNCHANGED << docs, prints, overlapped, restored, edits, stops >>

\* _write_memory_fingerprint reads the whole file, and writes it whole.
ReadPrints(r) ==
    /\ sync[r].pc = "read"
    /\ sync' = [sync EXCEPT ![r] =
                   [pc |-> "write", prints |-> [prints EXCEPT ![sync[r].source] = sync[r].seen]]]
    /\ UNCHANGED << docs, collection, prints, overlapped, restored, edits, stops >>

WritePrints(r) ==
    /\ sync[r].pc = "write"
    /\ prints' = sync[r].prints
    /\ sync' = [sync EXCEPT ![r] = Resting]
    /\ UNCHANGED << docs, collection, overlapped, restored, edits, stops >>

\* The process ends between two steps; a Chroma error ends it the same way.
StopSync(r) ==
    /\ sync[r] # Resting /\ stops < MaxStops /\ stops' = stops + 1
    /\ sync' = [sync EXCEPT ![r] = Resting]
    /\ UNCHANGED << docs, collection, prints, overlapped, restored, edits >>

IndexNext ==
    \/ \E s \in Source, c \in Chunk, version \in 0..2 : Edit(s, c, version)
    \/ \E r \in Reader : \/ \E s \in Source : Compare(r, s)
                         \/ Upsert(r) \/ ReadPrints(r) \/ WritePrints(r) \/ StopSync(r)

IndexSpec == IndexInit /\ [][IndexNext]_indexVars

\* A source the file calls up to date is in the collection whole, in its present
\* version, whatever was killed on the way, or else no later query would ever repair the
\* index.  Left out is what happens once two synchronisations have overlapped, or once an
\* edit has brought a source back to the text of its fingerprint: if a synchronisation of
\* the text in between was cut short, the index keeps chunks of that.
IndexComplete ==
    ~overlapped /\ ~restored =>
       \A s \in Source : prints[s] = docs[s]
          => \A c \in Chunk : docs[s][c] # 0 => collection[s][c] = docs[s][c]
=============================================================================

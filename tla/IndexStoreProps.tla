--------------------------- MODULE IndexStoreProps ---------------------------
(***************************************************************************)
(* What the versioned layout of IndexStore.tla must guarantee.             *)
(***************************************************************************)
EXTENDS IndexStore

\* Every variable holds a value of its kind: the shape of a model directory,
\* of the saves and of the loads in src/faiss-store-layout.ts.
TypeOK ==
  /\ link \in Version \cup {Nil}
  /\ DOMAIN dirs \subseteq Version
  /\ dirs \in [DOMAIN dirs -> VersionDir]
  /\ lock \in Writers \cup {Nil}
  /\ saves \in Nat
  /\ writer \in [Writers -> WriterState]
  /\ reader \in [Readers -> ReaderState]
  /\ latest \in Nat
  /\ leftover \in {"none", "repair", "purge"}
  /\ seen \in [Readers -> Seen]

\* The active symlink never names a missing, partial or mixed directory: at
\* every moment, whichever writer crashed at whichever step of a save and
\* whatever a later save cleared, the active version holds the two files of
\* one save and its manifest (saveFaissStoreAtomic stages before it renames;
\* pruneInactiveIndexVersions spares the active version).
ActiveComplete ==
  link # Nil => /\ link \in DOMAIN dirs
                /\ Complete(dirs[link])
                /\ dirs[link].faiss = latest

\* A load that no removal of the link overlapped never mixes two saves, and
\* what it returns was the active index at some moment since it began:
\* loadFaissStoreAtomic resolves the symlink once, before it opens a file.
CoherentLoad ==
  \A r \in Readers :
    reader[r].pc = "loaded" /\ ~seen[r].dropped =>
      /\ reader[r].faiss = reader[r].docstore
      /\ reader[r].faiss \in seen[r].offered

\* The retention margin of RFC 014: as long as no repair or purge has left
\* directories behind, a load of an intact index breaks only after more swaps since its
\* realpath than the retention keeps inactive versions.
RetentionMargin ==
  \A r \in Readers \ Mismatched :
    reader[r].pc = "broken" /\ ~seen[r].dropped /\ leftover = "none" =>
      seen[r].swaps > Retention

\* The abstract register this layout implements.
LoadOf(r) ==
  [state   |-> CASE Loading(r) -> "busy"
                 [] reader[r].pc = "loaded" -> "done"
                 [] OTHER -> "idle",
   offered |-> seen[r].offered,
   dropped |-> seen[r].dropped,
   value   |-> IF reader[r].pc = "loaded" /\ reader[r].faiss = reader[r].docstore
               THEN reader[r].faiss ELSE Nil]

Snapshot == INSTANCE SnapshotStore WITH
  current <- IF link = Nil THEN Nil ELSE dirs[link].faiss,
  load    <- [r \in Readers |-> LoadOf(r)]

\* Commits are atomic and go forward, loads are snapshots: every step of the
\* layout is a step of the abstract register or none.
ImplementsSnapshot == Snapshot!Spec
=============================================================================

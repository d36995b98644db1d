-------------------------- MODULE DocstoreCasProps --------------------------
(* Properties of DocstoreCas.                                              *)
EXTENDS DocstoreCas

\* Every variable stays in its type: the files, the names that point at them
\* and the savers' places in saveFaissStoreAtomic.
TypeOK ==
  /\ dir \in [Models -> [Version -> Dir]]
  /\ active \in [Models -> -1 .. MaxSaves]
  /\ cas \in [Contents -> File \cup {Nil}]
  /\ casLock \in Models \cup {Dead, Nil}
  /\ saver \in [Models -> SaverState]
  /\ disabled \subseteq Models
  /\ saves \in 0 .. MaxSaves
  /\ opened \in BOOLEAN

\* An entry of the shared directory is whole and says what its hash stands
\* for, at every moment and whatever died while writing it: a hit may link to
\* it without reading it (pathExists and link in dedupeDocstoreOnSave).
EntriesWhole == \A c \in Contents : cas[c] # Nil => cas[c].says = c

\* Between a saver's decision that the entry is there and its link, the entry
\* does not go away, as long as no lock has failed open: the collection and
\* the links of all models are serialized (withCasLock).
EntryAwaitsLink ==
  ~opened => \A m \in Models : saver[m].pc = "link" => cas[saver[m].hash] # Nil

\* A version that shares its docstore shares the one entry of its contents,
\* as long as no lock has failed open: what is linked is never collected and
\* then written again beside it, so that versions with the same contents take
\* the space of one (the link count that gcDocstoreCas reads).
SharedIsEntry ==
  ~opened =>
    \A m \in Models, v \in Version :
      LET f == dir[m][v].doc IN f # Nil /\ f.id > 0 => cas[f.says] = f

\* The version's docstore as its model reads it.
Docstore(m, v) ==
  IF dir[m][v].doc = Nil THEN Nil ELSE dir[m][v].doc.says

Private == INSTANCE PrivateDocstores WITH
             Versions <- Version,
             docstore <- [m \in Models |-> [v \in Version |-> Docstore(m, v)]]

\* Each model has a docstore of its own: nothing that other models, the
\* collection or a crash do to shared files changes or removes the docstore
\* of a version that is active, and no version becomes active that is not
\* whole (the crash-safety contract of docstore-cas.ts).
ImplementsPrivate == Private!Spec
=============================================================================

-------------------------- MODULE LexicalCacheProps -------------------------
(* Properties of LexicalCache.                                             *)
EXTENDS LexicalCache

\* Every variable stays in its type: the file, the cache's maps and tokens,
\* and the requests.
TypeOK ==
  /\ corpus \in [Files -> 1 .. MaxEdits + 1]
  /\ file \in [v : Versions, stamp : Nat]
  /\ lock \in Requests \cup {Nil}
  /\ obj \in [Requests -> Index]
  /\ entry \in [obj : Requests, stamp : Nat] \cup {Nil}
  /\ inFlight \in [owner : Requests, stamp : Nat] \cup {Nil}
  /\ valid \subseteq Requests
  /\ mode \in [Requests -> [path : {"leg", "lexical"}, refresh : BOOLEAN]]
  /\ req \in [Requests -> Request]
  /\ floor \in Versions
  /\ need \in [Requests -> Versions]
  /\ asked \in [Requests -> Versions]
  /\ skipped \in [Requests -> SUBSET Files]
  /\ answer \in [Requests -> Versions]

\* No cached index that a lookup would hit has, of any file, an older entry
\* than what the cache has been told of: an index.json that was replaced
\* during its parse, a parse that was displaced and a refresh that saved
\* within the clock's grain never leave an old index under the present stamp
\* (loadStable, the tokens, invalidate).
NoStaleEntry ==
  entry # Nil /\ entry.stamp = file.stamp =>
    \A f \in Files : obj[entry.obj].v[f] >= floor[f]

\* A search that succeeds is answered from an index that has, of every file,
\* an entry at least as new as what the cache had been told of when it was
\* called, or as what a save has put in its place since, through whatever
\* hits, joined parses, retirements and retries; one that refreshes is
\* answered from the corpus as it was when it was called, or from a later
\* one, but for the files its refresh went around.
AnswersAreFresh ==
  \A r \in Requests : req[r].pc = "done" =>
    \A f \in Files :
      /\ answer[r][f] >= need[r][f]
      /\ mode[r].refresh /\ f \notin skipped[r] => answer[r][f] >= asked[r][f]

\* A search of this process never puts an older entry over a newer one,
\* though indexes are parsed before the lock is taken and objects outlive the
\* file they came from, unless it is a lexical search that goes around the
\* file: the leg refreshes what it loaded under the lock.
FileAdvances ==
  [][\A f \in Files : file'.v[f] < file.v[f] =>
       lock = Nil \/ (mode[lock].path = "lexical" /\ f \in skipped[lock])]_vars

\* Searches end: from some point on none is on its way, so that none waits
\* for ever on the parse of another one that starts over or joins in its turn.
SearchesEnd == <>[](\A r \in Requests : req[r].pc \in {"new", "done", "failed"})

-----------------------------------------------------------------------------
(* What LexicalIndex.refresh says of itself, and does not keep             *)

\* Around a file that fails to load the index advances: no save of a refresh
\* leaves the file an older entry than it had.
AdvancesAround == [][lock # Nil => \A f \in Files : file'.v[f] >= file.v[f]]_vars
=============================================================================

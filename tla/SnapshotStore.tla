--------------------------- MODULE SnapshotStore ---------------------------
(***************************************************************************)
(* What one model directory promises to the processes that share it,       *)
(* whatever directories, links and files it is made of: a register that    *)
(* holds the last committed index, named by its generation.  A commit      *)
(* replaces the index in one step and never goes back to an older one.  A  *)
(* load runs beside commits without a lock and returns one generation that *)
(* was active at some moment of the load, or returns nothing.  The store   *)
(* may also be dropped (repair, purge); a load that a drop overlaps is     *)
(* promised nothing.                                                       *)
(*                                                                         *)
(* IndexStore.tla implements this module with versioned directories.       *)
(***************************************************************************)
EXTENDS Integers

CONSTANTS
  Readers,   \* the loads that may run
  Nil        \* no index

VARIABLES
  current,   \* generation of the active index, or Nil
  latest,    \* generation of the last commit, 0 before the first
  load       \* [Readers -> Load]

vars == <<current, latest, load>>

Generation == Nat \ {0}

\* A load is idle (it has returned nothing), busy, or done with a generation.
\* offered: what was active since it began; dropped: a drop overlapped it.
Idle == [state |-> "idle", offered |-> {}, dropped |-> FALSE, value |-> Nil]

Busy(r) == load[r].state = "busy"

Init ==
  /\ current = Nil
  /\ latest = 0
  /\ load = [r \in Readers |-> Idle]

Commit ==
  /\ latest' \in Generation
  /\ latest' > latest
  /\ current' = latest'
  /\ load' = [r \in Readers |->
                IF Busy(r) THEN [load[r] EXCEPT !.offered = @ \cup {latest'}]
                ELSE load[r]]

\* The store is dropped; the load that dropped it, if one did, returns nothing.
Drop ==
  /\ current' = Nil
  /\ latest' = latest
  /\ \E others \in SUBSET Readers :
       load' = [r \in Readers |->
                  CASE ~Busy(r) -> load[r]
                    [] Busy(r) /\ r \in others -> [load[r] EXCEPT !.dropped = TRUE]
                    [] OTHER -> Idle]

Begin(r) ==
  /\ ~Busy(r)
  /\ current # Nil
  /\ load' = [load EXCEPT ![r] = [state |-> "busy", offered |-> {current},
                                  dropped |-> FALSE, value |-> Nil]]
  /\ UNCHANGED <<current, latest>>

ReturnNothing(r) ==
  /\ load' = [load EXCEPT ![r] = Idle]
  /\ UNCHANGED <<current, latest>>

\* The promise: an undisturbed load returns one generation it was offered.
Return(r) ==
  /\ Busy(r)
  /\ ~load[r].dropped
  /\ \E g \in load[r].offered :
       load' = [load EXCEPT ![r].state = "done", ![r].value = g]
  /\ UNCHANGED <<current, latest>>

\* A load that a drop overlapped may return anything, a mixture included.
ReturnDisturbed(r) ==
  /\ Busy(r)
  /\ load[r].dropped
  /\ load'[r].value \in Generation \cup {Nil}
  /\ load' = [load EXCEPT ![r].state = "done", ![r].value = load'[r].value]
  /\ UNCHANGED <<current, latest>>

Next ==
  \/ Commit
  \/ Drop
  \/ \E r \in Readers :
       Begin(r) \/ ReturnNothing(r) \/ Return(r) \/ ReturnDisturbed(r)

Spec == Init /\ [][Next]_vars
=============================================================================

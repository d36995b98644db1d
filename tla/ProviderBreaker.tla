--------------------------- MODULE ProviderBreaker ---------------------------
(***************************************************************************)
(* ProviderBreakerRegistry (src/provider-breaker.ts) for one key: the      *)
(* circuit every embedding or LLM call to one provider goes through.       *)
(* Calls overlap, and each answer is recorded when it arrives, whatever    *)
(* the circuit has become in the meantime.                                 *)
(*                                                                         *)
(* Consecutive failures are counted up to the threshold only: the code     *)
(* compares them with nothing else.  The clock is the flag cooled: an open *)
(* circuit's cooldown has passed.                                          *)
(***************************************************************************)
EXTENDS Naturals, FiniteSets

CONSTANTS
  Calls,
  Threshold   \* KB_PROVIDER_BREAKER_FAILURE_THRESHOLD, at least 1

BreakerConstants == Threshold \in Nat \ {0}

VARIABLES
  circuit,    \* "closed", "open" or "half-open"
  failures,   \* consecutive failures, up to Threshold
  probing,    \* halfOpenProbeInFlight
  cooled,     \* the cooldown since openedAtMs has passed
  calls       \* calls in flight

vars == <<circuit, failures, probing, cooled, calls>>

Init ==
  /\ circuit = "closed"
  /\ failures = 0
  /\ probing = FALSE
  /\ cooled = FALSE
  /\ calls = {}

\* beforeCall: what it makes of the circuit ...
Admits == circuit = "closed" \/ (circuit = "open" /\ cooled) \/ (circuit = "half-open" /\ ~probing)

\* ... and a call that it lets through: in a closed circuit as it is, otherwise
\* as the probe.
Call(c) ==
  /\ c \notin calls
  /\ Admits
  /\ calls' = calls \cup {c}
  /\ \/ /\ circuit = "closed"
        /\ UNCHANGED <<circuit, probing>>
     \/ /\ circuit # "closed"
        /\ circuit' = "half-open"
        /\ probing' = TRUE
  /\ UNCHANGED <<failures, cooled>>

\* ProviderCircuitOpenError: the provider is not called.
Refuse == ~Admits /\ UNCHANGED vars

\* recordSuccess, also for errors that are not the provider's fault.
Success(c) ==
  /\ c \in calls
  /\ calls' = calls \ {c}
  /\ circuit' = "closed"
  /\ failures' = 0
  /\ probing' = FALSE
  /\ cooled' = FALSE

\* Mutant: the failure of a probe keeps the probe's place taken.
FailureKeepsProbe(c) ==
  /\ c \in calls
  /\ calls' = calls \ {c}
  /\ failures' = IF failures < Threshold THEN failures + 1 ELSE failures
  /\ \/ /\ failures' >= Threshold /\ circuit # "half-open"
        /\ circuit' = "open"
        /\ cooled' = FALSE
     \/ /\ failures' < Threshold \/ circuit = "half-open"
        /\ UNCHANGED <<circuit, cooled>>
  /\ UNCHANGED probing

\* recordFailure: a failed probe or the last failure that is borne opens the
\* circuit, and opens it again for answers that arrive while it is open.
Failure(c) ==
  /\ c \in calls
  /\ calls' = calls \ {c}
  /\ probing' = FALSE
  /\ failures' = IF failures < Threshold THEN failures + 1 ELSE failures
  /\ \/ /\ circuit = "half-open" \/ failures' >= Threshold
        /\ circuit' = "open"
        /\ cooled' = FALSE
     \/ /\ circuit # "half-open" /\ failures' < Threshold
        /\ UNCHANGED <<circuit, cooled>>

CoolDown ==
  /\ circuit = "open"
  /\ ~cooled
  /\ cooled' = TRUE
  /\ UNCHANGED <<circuit, failures, probing, calls>>

Next ==
  \/ \E c \in Calls : Call(c) \/ Success(c) \/ Failure(c)
  \/ CoolDown

Spec == Init /\ [][Next]_vars

-----------------------------------------------------------------------------
TypeOK ==
  /\ circuit \in {"closed", "open", "half-open"}
  /\ failures \in 0..Threshold
  /\ probing \in BOOLEAN
  /\ cooled \in BOOLEAN
  /\ calls \subseteq Calls

\* The circuit cannot get stuck: while it is half-open, and turns every call
\* away, a probe is in flight whose answer will decide; a closed circuit is
\* still below the threshold and an open one has no probe, whatever late
\* answers of older calls did in between (beforeCall, recordSuccess and
\* recordFailure of ProviderBreakerRegistry).
NeverStuck ==
  /\ circuit = "half-open" => probing /\ calls # {}
  /\ circuit = "closed" => failures < Threshold
  /\ circuit # "half-open" => ~probing
=============================================================================

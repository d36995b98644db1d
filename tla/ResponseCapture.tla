--------------------------- MODULE ResponseCapture ---------------------------
(***************************************************************************)
(* captureProcessOutput (src/cli-shared.ts) around the daemon's commands:  *)
(* a command writes to process.stdout, of which there is one, so each job  *)
(* replaces its write function while the command runs, and puts back what  *)
(* it found.  The gate decides which jobs overlap.                         *)
(*                                                                         *)
(* A command writes its output once, just before it returns; text is the   *)
(* name of the request it answers.                                         *)
(***************************************************************************)
EXTENDS AdmissionGate

CONSTANT Terminal   \* the real process.stdout.write; no request

VARIABLES
  sink,      \* who receives what is written to process.stdout
  original,  \* [Requests -> the sink the request's capture found]
  chunks,    \* [Requests -> whose text its capture holds]
  response   \* [Requests -> whose text the last response carried]

capture == <<sink, original, chunks, response>>
captureVars == <<vars, capture>>

CaptureInit ==
  /\ Init
  /\ sink = Terminal
  /\ original = [r \in Requests |-> Terminal]
  /\ chunks = [r \in Requests |-> {}]
  /\ response = [r \in Requests |-> {}]

Admit(r) ==
  /\ Run(r)
  /\ UNCHANGED capture

Patch(r) ==
  /\ StartJob(r)
  /\ original' = [original EXCEPT ![r] = sink]
  /\ sink' = r
  /\ chunks' = [chunks EXCEPT ![r] = {}]
  /\ UNCHANGED response

\* The command writes to whatever stdout is by now, its result is taken from
\* its own chunks, and the finally block restores what the patch found.
Unpatch(r) ==
  /\ Settle(r)
  /\ chunks' = IF sink = Terminal THEN chunks ELSE [chunks EXCEPT ![sink] = @ \cup {r}]
  /\ response' = [response EXCEPT ![r] = chunks'[r]]
  /\ sink' = original[r]
  /\ UNCHANGED original

CaptureNext == \E r \in Requests : Admit(r) \/ Patch(r) \/ Unpatch(r)

CaptureSpec == CaptureInit /\ [][CaptureNext]_captureVars

\* A successful command's JSON is its stdout (docs/cli-json-contracts.md:580), so
\* a response of the daemon carries output of its own command and of no other.
OwnOutput == \A r \in Requests : response[r] \subseteq {r}
=============================================================================

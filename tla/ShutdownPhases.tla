--------------------------- MODULE ShutdownPhases ---------------------------
(***************************************************************************)
(* What the shutdown manager promises, without its counters and tasks: a   *)
(* shutdown is asked for once, covers a set of slots fixed when it starts, *)
(* and is complete exactly when each of them has finished, well or badly.  *)
(* Completion is final, and so is the list of failures it reports.         *)
(***************************************************************************)
EXTENDS FiniteSets

CONSTANT Slots

VARIABLES
  phase,     (* "idle", "asked", "shutting_down" or "complete"            *)
  covered,   (* the slots this shutdown covers                            *)
  finished,  (* those of them that are done                               *)
  failed     (* those of them reported as failed                          *)

vars == <<phase, covered, finished, failed>>

Init ==
  /\ phase = "idle"
  /\ covered = {} /\ finished = {} /\ failed = {}

Begin ==
  /\ phase = "idle"
  /\ phase' = "asked"
  /\ UNCHANGED <<covered, finished, failed>>

Cover(S) ==
  /\ phase = "asked"
  /\ phase' = "shutting_down"
  /\ covered' = S
  /\ UNCHANGED <<finished, failed>>

Finish(s) ==
  /\ phase = "shutting_down"
  /\ s \in covered \ finished
  /\ finished' = finished \cup {s}
  /\ failed' \in {failed, failed \cup {s}}
  /\ phase' = IF finished' = covered THEN "complete" ELSE phase
  /\ UNCHANGED covered

\* Nothing to shut down.
FinishEmpty ==
  /\ phase = "shutting_down" /\ covered = {}
  /\ phase' = "complete"
  /\ UNCHANGED <<covered, finished, failed>>

Next ==
  \/ Begin
  \/ \E S \in SUBSET Slots : Cover(S)
  \/ \E s \in Slots : Finish(s)
  \/ FinishEmpty

Spec == Init /\ [][Next]_vars
=============================================================================

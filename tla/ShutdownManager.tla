-------------------------- MODULE ShutdownManager --------------------------
(***************************************************************************)
(* components/shutdown_manager: the task that wins the compare-and-swap    *)
(* resets the counters and spawns one task per slot; the slot tasks stop,  *)
(* put to sleep and disconnect their cameras independently and count       *)
(* themselves done; the last to be counted completes the shutdown.         *)
(*                                                                         *)
(* What a slot task learns from cam_core (is the slot there, is it         *)
(* recording, how did the sleep command go) is an argument of its action:  *)
(* anything here, cam_core's own answer in ShutdownCameras.                *)
(***************************************************************************)
EXTENDS Integers, FiniteSets

CONSTANTS
  MaxSlots,      (* CAMERA_MAX_SLOTS                                        *)
  SpawnMayFail   (* xTaskCreate may run out of memory                       *)

ASSUME ShutdownAssumption == MaxSlots \in Nat /\ SpawnMayFail \in BOOLEAN

SlotIds == 0..(MaxSlots - 1)

VARIABLES
  state,        (* s_state                                                  *)
  failedMask,   (* s_failed_mask, as a set of slots                         *)
  doneCount,    (* s_done_count                                             *)
  atStart,      (* s_slot_count_at_start                                    *)
  request,      (* where the requesting task is in shutdown_manager_request *)
  slotCount,    (* the slot count it read                                   *)
  next,         (* the slot it spawns a task for next                       *)
  task,         (* where each slot's task is in shutdown_slot_task          *)
  failed        (* each slot task's local failed flag                       *)

requestVars == <<request, slotCount, next>>
vars == <<state, failedMask, doneCount, atStart, request, slotCount, next,
          task, failed>>

States == {"idle", "shutting_down", "complete"}
RequestSteps == {"none", "count", "reset", "spawn", "returned"}
TaskSteps == {"none", "start", "stop", "order", "wait", "confirm", "sleep",
              "terminate", "teardown", "finish", "exited", "unspawned"}
SleepResults == {"sent", "unsupported", "error", "late"}

TypeOK ==
  /\ state \in States
  /\ failedMask \in SUBSET SlotIds
  /\ doneCount \in Nat
  /\ atStart \in 0..MaxSlots
  /\ request \in RequestSteps
  /\ slotCount \in 0..MaxSlots
  /\ next \in 0..MaxSlots
  /\ task \in [SlotIds -> TaskSteps]
  /\ failed \in [SlotIds -> BOOLEAN]

Init ==
  /\ state = "idle"
  /\ failedMask = {} /\ doneCount = 0 /\ atStart = 0
  /\ request = "none" /\ slotCount = 0 /\ next = 0
  /\ task = [s \in SlotIds |-> "none"]
  /\ failed = [s \in SlotIds |-> FALSE]

-----------------------------------------------------------------------------
(***************************************************************************)
(* shutdown_manager_request                                                *)
(***************************************************************************)

\* One caller wins the compare-and-swap; to any other the call is a no-op.
\* Mutant: only a shutdown under way refuses the request.
Request_Again ==
  /\ state # "shutting_down"
  /\ state' = "shutting_down"
  /\ request' = "count"
  /\ UNCHANGED <<failedMask, doneCount, atStart, slotCount, next, task, failed>>

Request ==
  /\ state = "idle"
  /\ state' = "shutting_down"
  /\ request' = "count"
  /\ UNCHANGED <<failedMask, doneCount, atStart, slotCount, next, task, failed>>

ReadSlotCount(n) ==
  /\ request = "count"
  /\ slotCount' = n
  /\ request' = "reset"
  /\ UNCHANGED <<state, failedMask, doneCount, atStart, next, task, failed>>

\* Mutant: the slot count to wait for is left as it was.
ResetCounters_NoTarget ==
  /\ request = "reset"
  /\ failedMask' = {} /\ doneCount' = 0
  /\ request' = "spawn"
  /\ UNCHANGED <<state, atStart, slotCount, next, task, failed>>

ResetCounters ==
  /\ request = "reset"
  /\ failedMask' = {} /\ doneCount' = 0
  /\ atStart' = slotCount
  /\ request' = "spawn"
  /\ UNCHANGED <<state, slotCount, next, task, failed>>

NoCameras ==
  /\ request = "spawn" /\ slotCount = 0
  /\ state' = "complete"
  /\ request' = "returned"
  /\ UNCHANGED <<failedMask, doneCount, atStart, slotCount, next, task, failed>>

\* Counting a slot done, under s_mutex; the last one completes the shutdown.
CountDone(s, bad) ==
  /\ failedMask' = IF bad THEN failedMask \cup {s} ELSE failedMask
  /\ doneCount' = doneCount + 1
  /\ state' = IF doneCount' >= atStart THEN "complete" ELSE state

\* Mutant: a task that cannot be spawned is logged but not counted.
SpawnFails_NotCounted ==
  /\ request = "spawn" /\ next < slotCount /\ SpawnMayFail
  /\ task' = [task EXCEPT ![next] = "unspawned"]
  /\ failedMask' = failedMask \cup {next}
  /\ next' = next + 1
  /\ UNCHANGED <<state, doneCount, atStart, request, slotCount, failed>>

SpawnFails ==
  /\ request = "spawn" /\ next < slotCount /\ SpawnMayFail
  /\ task' = [task EXCEPT ![next] = "unspawned"]
  /\ CountDone(next, TRUE)
  /\ next' = next + 1
  /\ UNCHANGED <<atStart, request, slotCount, failed>>

Spawn ==
  /\ request = "spawn" /\ next < slotCount
  /\ task' = [task EXCEPT ![next] = "start"]
  /\ next' = next + 1
  /\ UNCHANGED <<state, failedMask, doneCount, atStart, request, slotCount, failed>>

RequestReturns ==
  /\ request = "spawn" /\ slotCount > 0 /\ next = slotCount
  /\ request' = "returned"
  /\ UNCHANGED <<state, failedMask, doneCount, atStart, slotCount, next, task, failed>>

-----------------------------------------------------------------------------
(***************************************************************************)
(* shutdown_slot_task                                                      *)
(***************************************************************************)

\* The task of slot s goes from one step to another.
Goto(s, from, to) ==
  /\ task[s] = from
  /\ task' = [task EXCEPT ![s] = to]
  /\ UNCHANGED <<state, failedMask, doneCount, atStart, requestVars>>

Start(s, isActive) ==
  /\ Goto(s, "start", IF isActive THEN "stop" ELSE "finish")
  /\ UNCHANGED failed

StopCheck(s, recording) ==
  /\ Goto(s, "stop", IF recording THEN "order" ELSE "sleep")
  /\ UNCHANGED failed

OrderStop(s) == Goto(s, "order", "wait") /\ UNCHANGED failed

\* The wait ends when the slot is seen not recording, or after 1.5 s.
WaitEnds(s) == Goto(s, "wait", "confirm") /\ UNCHANGED failed

Confirm(s, recording) ==
  /\ Goto(s, "confirm", "sleep")
  /\ failed' = [failed EXCEPT ![s] = recording]

\* Sleep and settle; past the slot's deadline both are skipped.
Sleep(s, result) ==
  /\ Goto(s, "sleep", "terminate")
  /\ failed' = [failed EXCEPT ![s] = @ \/ result = "error"]

TerminateLink(s) == Goto(s, "terminate", "teardown") /\ UNCHANGED failed

Teardown(s) == Goto(s, "teardown", "finish") /\ UNCHANGED failed

\* Mutant: the last task's failure misses the report.
Finish_FailureLost(s) ==
  /\ task[s] = "finish"
  /\ task' = [task EXCEPT ![s] = "exited"]
  /\ CountDone(s, failed[s] /\ doneCount + 1 < atStart)
  /\ UNCHANGED <<atStart, requestVars, failed>>

Finish(s) ==
  /\ task[s] = "finish"
  /\ task' = [task EXCEPT ![s] = "exited"]
  /\ CountDone(s, failed[s])
  /\ UNCHANGED <<atStart, requestVars, failed>>

-----------------------------------------------------------------------------
RequestStep ==
  \/ \E n \in 0..MaxSlots : ReadSlotCount(n)
  \/ ResetCounters \/ NoCameras \/ SpawnFails \/ Spawn \/ RequestReturns

TaskStep(s) ==
  \/ \E answer \in BOOLEAN : Start(s, answer) \/ StopCheck(s, answer) \/ Confirm(s, answer)
  \/ OrderStop(s) \/ WaitEnds(s)
  \/ \E result \in SleepResults : Sleep(s, result)
  \/ TerminateLink(s) \/ Teardown(s) \/ Finish(s)

Next == Request \/ RequestStep \/ \E s \in SlotIds : TaskStep(s)

Spec == Init /\ [][Next]_vars

\* The caller of request and every spawned task keep running (the waits of a slot
\* task are bounded: 1.5 s for the stop, 500 ms to settle, a timeout on HTTP).
Fairness == WF_vars(RequestStep) /\ \A s \in SlotIds : WF_vars(TaskStep(s))

FairSpec == Spec /\ Fairness

-----------------------------------------------------------------------------
(***************************************************************************)
(* Properties.                                                             *)
(***************************************************************************)

\* The slots that have been counted done.
Counted == {s \in SlotIds : task[s] \in {"exited", "unspawned"}}

\* The slots the shutdown covers, once the counters are set.
Covered == IF request \in {"spawn", "returned"} THEN 0..(atStart - 1) ELSE {}

\* The shutdown is reported complete exactly when every slot it covers was counted
\* done; in particular never while another slot's camera is still being stopped.
CompleteIffAllDone ==
  (state = "complete") <=>
     /\ request \in {"spawn", "returned"}
     /\ Counted = Covered
     /\ Covered = {} => request = "returned"

\* When the shutdown is complete the mask names exactly the slots whose task could
\* not be spawned or ended with a failure: the web page reads it once and stops.
FailuresReported ==
  state = "complete" =>
    failedMask = {s \in Covered : task[s] = "unspawned" \/ failed[s]}

\* The counters behave like the abstract shutdown.
AbstractPhase ==
  IF state = "shutting_down" /\ request \in {"count", "reset"} THEN "asked" ELSE state

Abstract == INSTANCE ShutdownPhases WITH
  Slots <- SlotIds, phase <- AbstractPhase, covered <- Covered, finished <- Counted, failed <- failedMask

ImplementsPhases == Abstract!Spec

\* A shutdown once asked for completes, whatever fails: the REBOOT screen appears.
RequestCompletes == (state = "shutting_down") ~> (state = "complete")

\* The strengthening that makes CompleteIffAllDone and FailuresReported inductive.
\* Before the counters are reset no task exists; afterwards the tasks are those of
\* the slots below next, and the count is the number of slots counted.
BeforeSpawning ==
  request \in {"none", "count", "reset"} =>
    /\ \A s \in SlotIds : task[s] = "none"
    /\ failedMask = {} /\ doneCount = 0 /\ next = 0
    /\ (state = "idle") = (request = "none")
    /\ state # "complete"

WhileSpawning ==
  request \in {"spawn", "returned"} =>
    /\ atStart = slotCount /\ next <= slotCount
    /\ \A s \in SlotIds : (task[s] = "none") <=> (s >= next)
    /\ request = "returned" => next = slotCount
    /\ doneCount = Cardinality(Counted)
    /\ state # "idle"
    /\ (state = "complete") <=> (doneCount >= atStart /\ (atStart = 0 => request = "returned"))

FailureFlags ==
  failedMask = {s \in SlotIds : task[s] = "unspawned" \/ (task[s] = "exited" /\ failed[s])}

ShutdownInv == TypeOK /\ BeforeSpawning /\ WhileSpawning /\ FailureFlags
=============================================================================

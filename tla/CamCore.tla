------------------------------- MODULE CamCore -------------------------------
(***************************************************************************)
(* The recording-intent engine of components/cam_core: the registry of     *)
(* camera slots, each slot's desired recording state, its grace deadline   *)
(* and its mismatch-poll timer, together with the two dispatch paths       *)
(* (immediate dispatch and mismatch poll) that turn intent into shutter    *)
(* commands.  Every section the code runs under s_mutex is one action;     *)
(* what it does after unlocking (deleting a timer) is an action of its     *)
(* own.                                                                    *)
(*                                                                         *)
(* Below the driver seam the module models, as its environment, what the   *)
(* two wireless drivers and the cameras do with a command: a per-slot      *)
(* queue, a status cache, a link that comes and goes and a camera that     *)
(* executes commands late and reports its state later still.               *)
(***************************************************************************)
EXTENDS Integers, Sequences, FiniteSets

CONSTANTS
  Slots,          (* slot indices 0..CAMERA_MAX_SLOTS-1                        *)
  DriverOf,       (* the driver a slot's camera needs: "ble" or "rc"           *)
  Grace,          (* RECORDING_STATUS_GRACE_MS, in clock units                 *)
  QueueDepth,     (* commands a driver queues per camera before dropping       *)
  FlipOnRestart,  (* an RC camera told to start while recording may stop       *)
  TimerMayFail,   (* esp_timer_create may run out of memory                    *)
  MaxPresses      (* bound: how often users press a camera's own shutter       *)

ASSUME CamCoreAssumption ==
  /\ DriverOf \in [Slots -> {"ble", "rc"}]
  /\ Grace \in Nat \ {0}
  /\ QueueDepth \in Nat \ {0}
  /\ FlipOnRestart \in BOOLEAN
  /\ TimerMayFail \in BOOLEAN
  /\ MaxPresses \in Nat

Intents   == {"unknown", "stop", "start"}      \* desired_recording_t
Commands  == {"stop", "start"}                 \* the driver's shutter entries
Reports   == {"unknown", "idle", "active"}     \* camera_recording_status_t
RealState == {"idle", "active"}                \* what the camera is doing

VARIABLES
  registered,  (* s_slots[i] # NULL                                            *)
  attached,    (* slot->driver # NULL                                          *)
  ready,       (* slot->ready                                                  *)
  timer,       (* slot->poll_timer # NULL                                      *)
  stray,       (* a timer of index i is alive though no slot points to it      *)
  unreg,       (* unregister_slot is between its teardown and its clearing     *)
  desired,     (* slot->desired                                                *)
  grace,       (* clock units until slot->grace_until_us                       *)
  last,        (* the last command cam_core issued for the slot (history)      *)
  path,        (* the dispatch path that issued it (history)                   *)
  sent,        (* the slots the last step issued a command for (history)       *)
  link,        (* the driver can reach the camera (conn_handle / last_ip)      *)
  cached,      (* the driver's recording-status cache                          *)
  queue,       (* commands the driver accepted and the camera has not executed *)
  reply,       (* a status report on its way from the camera, or "none";       *)
               (* "unknown" when the camera says it is off                     *)
  camera,      (* what the camera is really doing                              *)
  presses      (* shutter presses so far, bounded by MaxPresses                *)

coreVars == <<registered, attached, ready, timer, stray, unreg>>
intentVars == <<desired, grace, last, path, sent>>
envVars == <<link, cached, queue, reply, camera, presses>>
vars == <<registered, attached, ready, timer, stray, unreg, desired, grace,
          last, path, sent, link, cached, queue, reply, camera, presses>>

TypeOK ==
  /\ registered \in [Slots -> BOOLEAN]
  /\ attached \in [Slots -> BOOLEAN]
  /\ ready \in [Slots -> BOOLEAN]
  /\ timer \in [Slots -> BOOLEAN]
  /\ stray \in [Slots -> BOOLEAN]
  /\ unreg \in [Slots -> BOOLEAN]
  /\ desired \in [Slots -> Intents]
  /\ grace \in [Slots -> 0..Grace]
  /\ last \in [Slots -> Commands \cup {"none"}]
  /\ path \in [Slots -> {"none", "poll", "intent"}]
  /\ sent \in SUBSET Slots
  /\ link \in [Slots -> BOOLEAN]
  /\ cached \in [Slots -> Reports]
  /\ queue \in [Slots -> Seq(Commands)]
  /\ reply \in [Slots -> Reports \cup {"none"}]
  /\ camera \in [Slots -> RealState]
  /\ presses \in 0..MaxPresses

Init ==
  /\ registered = [s \in Slots |-> FALSE]
  /\ attached = [s \in Slots |-> FALSE]
  /\ ready = [s \in Slots |-> FALSE]
  /\ timer = [s \in Slots |-> FALSE]
  /\ stray = [s \in Slots |-> FALSE]
  /\ unreg = [s \in Slots |-> FALSE]
  /\ desired = [s \in Slots |-> "unknown"]
  /\ grace = [s \in Slots |-> 0]
  /\ last = [s \in Slots |-> "none"]
  /\ path = [s \in Slots |-> "none"]
  /\ sent = {}
  /\ link = [s \in Slots |-> FALSE]
  /\ cached = [s \in Slots |-> "unknown"]
  /\ queue = [s \in Slots |-> <<>>]
  /\ reply = [s \in Slots |-> "none"]
  /\ camera \in [Slots -> RealState]
  /\ presses = 0

-----------------------------------------------------------------------------
(***************************************************************************)
(* The driver seam: handing a command to the drivers.                      *)
(***************************************************************************)

\* Mutant: only the start correction is made.
MismatchStep_StartOnly(want, actual, graceActive) ==
  IF want = "start" /\ actual = "idle" /\ ~graceActive THEN "start" ELSE "none"

\* The pure decision of mismatch.c.
MismatchStep(want, actual, graceActive) ==
  IF want = "unknown" \/ actual = "unknown" \/ graceActive THEN "none"
  ELSE IF want = "start" /\ actual = "idle" THEN "start"
  ELSE IF want = "stop" /\ actual = "active" THEN "stop"
  ELSE "none"

\* What the Open GoPro driver writes to its cache when a write is accepted.
Shown(c) == IF c = "start" THEN "active" ELSE "idle"

\* A driver takes a command only with a link to send it on and room to queue it.
Accepts(s) == link[s] /\ Len(queue[s]) < QueueDepth

\* The drivers of the slots in T are handed command c (or drop it); the BLE
\* driver optimistically reflects it in its status cache.
Post(T, c) ==
  /\ queue' = [s \in Slots |->
       IF s \in T /\ Accepts(s) THEN Append(queue[s], c) ELSE queue[s]]
  /\ cached' = [s \in Slots |->
       IF s \in T /\ Accepts(s) /\ DriverOf[s] = "ble" THEN Shown(c) ELSE cached[s]]

\* A dispatch path issues c for the slots in T: their grace deadline is armed and
\* the drivers of the slots in Reached get the command.
Issue(T, Reached, c, by) ==
  /\ grace' = [s \in Slots |-> IF s \in T THEN Grace ELSE grace[s]]
  /\ last' = [s \in Slots |-> IF s \in T THEN c ELSE last[s]]
  /\ path' = [s \in Slots |-> IF s \in T THEN by ELSE path[s]]
  /\ sent' = T
  /\ Post(Reached, c)

\* Nothing is issued in this step.
IssueNothing ==
  /\ sent' = {}
  /\ UNCHANGED <<grace, last, path, queue, cached>>

-----------------------------------------------------------------------------
(***************************************************************************)
(* Registry.                                                               *)
(***************************************************************************)

\* The manager registers a zeroed slot.  A timer the old contents still pointed
\* to is not deleted: it stays alive as a stray.
RegisterSlot(s) ==
  /\ ~registered[s] /\ ~unreg[s]
  /\ registered' = [registered EXCEPT ![s] = TRUE]
  /\ attached' = [attached EXCEPT ![s] = FALSE]
  /\ ready' = [ready EXCEPT ![s] = FALSE]
  /\ stray' = [stray EXCEPT ![s] = @ \/ timer[s]]
  /\ timer' = [timer EXCEPT ![s] = FALSE]
  /\ desired' = [desired EXCEPT ![s] = "unknown"]
  /\ grace' = [grace EXCEPT ![s] = 0]
  /\ last' = [last EXCEPT ![s] = "none"]
  /\ path' = [path EXCEPT ![s] = "none"]
  /\ sent' = {}
  /\ UNCHANGED <<unreg, envVars>>

AttachDriver(s) ==
  /\ registered[s] /\ ~attached[s]
  /\ attached' = [attached EXCEPT ![s] = TRUE]
  /\ sent' = {}
  /\ UNCHANGED <<registered, ready, timer, stray, unreg, desired, grace, last, path, envVars>>

\* The locked part of cam_core_teardown_slot, and the driver's own teardown,
\* which forgets the recording status.
TeardownLocked(s) ==
  /\ ready' = [ready EXCEPT ![s] = FALSE]
  /\ stray' = [stray EXCEPT ![s] = @ \/ timer[s]]
  /\ timer' = [timer EXCEPT ![s] = FALSE]
  /\ grace' = [grace EXCEPT ![s] = 0]
  /\ cached' = [cached EXCEPT ![s] = IF attached[s] THEN "unknown" ELSE @]
  /\ sent' = {}

\* cam_core_teardown_slot, as the shutdown manager and reorder call it.
TeardownSlot(s) ==
  /\ registered[s]
  /\ TeardownLocked(s)
  /\ UNCHANGED <<registered, attached, unreg, desired, last, path, link, queue, reply, camera, presses>>

\* cam_core_unregister_slot tears the slot down first and clears the pointer
\* under a second acquisition of the mutex.
UnregisterTeardown(s) ==
  /\ registered[s] /\ ~unreg[s]
  /\ TeardownLocked(s)
  /\ unreg' = [unreg EXCEPT ![s] = TRUE]
  /\ UNCHANGED <<registered, attached, desired, last, path, link, queue, reply, camera, presses>>

UnregisterClear(s) ==
  /\ unreg[s]
  /\ registered' = [registered EXCEPT ![s] = FALSE]
  /\ unreg' = [unreg EXCEPT ![s] = FALSE]
  /\ sent' = {}
  /\ UNCHANGED <<attached, ready, timer, stray, desired, grace, last, path, envVars>>

-----------------------------------------------------------------------------
(***************************************************************************)
(* Readiness and the poll timer.                                           *)
(***************************************************************************)

SetReady(s) ==
  /\ registered[s] /\ ~ready[s]
  /\ ready' = [ready EXCEPT ![s] = TRUE]
  /\ \E created \in BOOLEAN :
       /\ created \/ TimerMayFail
       /\ timer' = [timer EXCEPT ![s] = @ \/ created]
  /\ sent' = {}
  /\ UNCHANGED <<registered, attached, stray, unreg, desired, grace, last, path, envVars>>

\* Mutant: the grace deadline survives the loss of readiness.
SetNotReady_KeepsGrace(s) ==
  /\ registered[s] /\ ready[s]
  /\ ready' = [ready EXCEPT ![s] = FALSE]
  /\ stray' = [stray EXCEPT ![s] = @ \/ timer[s]]
  /\ timer' = [timer EXCEPT ![s] = FALSE]
  /\ sent' = {}
  /\ UNCHANGED <<registered, attached, unreg, desired, grace, last, path, envVars>>

SetNotReady(s) ==
  /\ registered[s] /\ ready[s]
  /\ ready' = [ready EXCEPT ![s] = FALSE]
  /\ grace' = [grace EXCEPT ![s] = 0]
  /\ stray' = [stray EXCEPT ![s] = @ \/ timer[s]]
  /\ timer' = [timer EXCEPT ![s] = FALSE]
  /\ sent' = {}
  /\ UNCHANGED <<registered, attached, unreg, desired, last, path, envVars>>

\* esp_timer_stop and esp_timer_delete, run after the mutex is released.
DeleteTimer(s) ==
  /\ stray[s]
  /\ stray' = [stray EXCEPT ![s] = FALSE]
  /\ sent' = {}
  /\ UNCHANGED <<registered, attached, ready, timer, unreg, desired, grace, last, path, envVars>>

\* poll_timer_cb of a live timer whose argument is s: the slot's own timer, or a
\* stray whose callback was already waiting for the mutex when it was detached.
PollTimer(s) ==
  /\ timer[s] \/ stray[s]
  /\ registered[s] /\ attached[s] /\ ready[s]
  /\ LET c == MismatchStep(desired[s], cached[s], grace[s] > 0) IN
       /\ c # "none"
       /\ Issue({s}, {s}, c, "poll")
  /\ UNCHANGED <<coreVars, desired, link, reply, camera, presses>>

-----------------------------------------------------------------------------
(***************************************************************************)
(* Recording intent: the immediate-dispatch path.                          *)
(***************************************************************************)

\* The slots a change of intent commands at once.
CommandedNow(T, want) ==
  {s \in T : registered[s] /\ desired[s] # want /\ want # "unknown"
             /\ attached[s] /\ ready[s]}

\* Mutant: the immediate path, like the poll, stays quiet inside the grace window.
SetDesiredSlot_WaitsForGrace(s, want) ==
  /\ registered[s] /\ desired[s] # want
  /\ desired' = [desired EXCEPT ![s] = want]
  /\ LET T == CommandedNow({s}, want) IN
       IF T = {} \/ grace[s] > 0 THEN IssueNothing ELSE Issue(T, T, want, "intent")
  /\ UNCHANGED <<coreVars, link, reply, camera, presses>>

SetDesiredSlot(s, want) ==
  /\ registered[s] /\ desired[s] # want
  /\ desired' = [desired EXCEPT ![s] = want]
  /\ LET T == CommandedNow({s}, want) IN
       IF T = {} THEN IssueNothing ELSE Issue(T, T, want, "intent")
  /\ UNCHANGED <<coreVars, link, reply, camera, presses>>

\* A driver that broadcasts reaches every camera it owns, ready or not, with the
\* one command the first of its slots in the wave triggers.
WaveReach(T) ==
  {s \in T : DriverOf[s] = "ble"}
    \cup {s \in Slots : DriverOf[s] = "rc" /\ \E t \in T : DriverOf[t] = "rc"}

\* Mutant: the wave records the intent only in the slots that are ready.
SetDesiredAll_ReadyOnly(want) ==
  /\ \E s \in Slots : registered[s] /\ desired[s] # want
  /\ desired' = [s \in Slots |-> IF registered[s] /\ ready[s] THEN want ELSE desired[s]]
  /\ LET T == CommandedNow(Slots, want) IN
       IF T = {} THEN IssueNothing ELSE Issue(T, WaveReach(T), want, "intent")
  /\ UNCHANGED <<coreVars, link, reply, camera, presses>>

SetDesiredAll(want) ==
  /\ \E s \in Slots : registered[s] /\ desired[s] # want
  /\ desired' = [s \in Slots |-> IF registered[s] THEN want ELSE desired[s]]
  /\ LET T == CommandedNow(Slots, want) IN
       IF T = {} THEN IssueNothing ELSE Issue(T, WaveReach(T), want, "intent")
  /\ UNCHANGED <<coreVars, link, reply, camera, presses>>

-----------------------------------------------------------------------------
(***************************************************************************)
(* Environment: links, cameras, status reports, the clock.                 *)
(***************************************************************************)

LinkUp(s) ==
  /\ ~link[s]
  /\ link' = [link EXCEPT ![s] = TRUE]
  /\ sent' = {}
  /\ UNCHANGED <<coreVars, desired, grace, last, path, cached, queue, reply, camera, presses>>

\* The driver loses the camera: it forgets the status and whatever was under way.
LinkDown(s) ==
  /\ link[s]
  /\ link' = [link EXCEPT ![s] = FALSE]
  /\ cached' = [cached EXCEPT ![s] = "unknown"]
  /\ queue' = [queue EXCEPT ![s] = <<>>]
  /\ reply' = [reply EXCEPT ![s] = "none"]
  /\ sent' = {}
  /\ UNCHANGED <<coreVars, desired, grace, last, path, camera, presses>>

\* What a camera does with a command.
Reaction(s, c) ==
  IF c = "stop" THEN {"idle"}
  ELSE IF FlipOnRestart /\ DriverOf[s] = "rc" /\ camera[s] = "active"
       THEN {"active", "idle"}
       ELSE {"active"}

Execute(s) ==
  /\ queue[s] # <<>>
  /\ queue' = [queue EXCEPT ![s] = Tail(@)]
  /\ \E r \in Reaction(s, Head(queue[s])) : camera' = [camera EXCEPT ![s] = r]
  /\ sent' = {}
  /\ UNCHANGED <<coreVars, desired, grace, last, path, link, cached, reply, presses>>

\* A command is lost on the air.
Lose(s) ==
  /\ queue[s] # <<>>
  /\ queue' = [queue EXCEPT ![s] = Tail(@)]
  /\ sent' = {}
  /\ UNCHANGED <<coreVars, desired, grace, last, path, link, cached, reply, camera, presses>>

\* What a camera may answer: an RC camera can also say that it is switched off,
\* which leaves its recording state open.
Answers(s) ==
  {camera[s]} \cup
    (IF DriverOf[s] = "rc" /\ camera[s] = "idle" THEN {"unknown"} ELSE {})

\* The camera answers a status request; the answer is in flight ...
Sample(s) ==
  /\ link[s] /\ reply[s] = "none"
  /\ \E r \in Answers(s) : reply' = [reply EXCEPT ![s] = r]
  /\ sent' = {}
  /\ UNCHANGED <<coreVars, desired, grace, last, path, link, cached, queue, camera, presses>>

\* ... until the driver's receive path stores it in the cache.
Arrive(s) ==
  /\ reply[s] # "none"
  /\ cached' = [cached EXCEPT ![s] = reply[s]]
  /\ reply' = [reply EXCEPT ![s] = "none"]
  /\ sent' = {}
  /\ UNCHANGED <<coreVars, desired, grace, last, path, link, queue, camera, presses>>

\* Somebody presses the shutter on the camera body.
Press(s) ==
  /\ presses < MaxPresses
  /\ presses' = presses + 1
  /\ \E r \in RealState \ {camera[s]} : camera' = [camera EXCEPT ![s] = r]
  /\ sent' = {}
  /\ UNCHANGED <<coreVars, desired, grace, last, path, link, cached, queue, reply>>

\* The driver's picture of the camera has caught up with the camera.
Settled(s) ==
  /\ queue[s] = <<>>
  /\ reply[s] \in {"none", "unknown", camera[s]}
  /\ cached[s] \in {"unknown", camera[s]}

\* Time passes for a slot's grace deadline.  The deadline covers the time a
\* command and the report of its effect need: it does not pass before that.
Tick(s) ==
  /\ grace[s] > 0
  /\ grace[s] = 1 => Settled(s)
  /\ grace' = [grace EXCEPT ![s] = @ - 1]
  /\ sent' = {}
  /\ UNCHANGED <<coreVars, desired, last, path, envVars>>

-----------------------------------------------------------------------------
Registry(s) ==
  \/ RegisterSlot(s) \/ AttachDriver(s) \/ TeardownSlot(s)
  \/ UnregisterTeardown(s) \/ UnregisterClear(s)

Readiness(s) == SetReady(s) \/ SetNotReady(s) \/ DeleteTimer(s)

Environment(s) ==
  \/ LinkUp(s) \/ LinkDown(s) \/ Execute(s) \/ Lose(s)
  \/ Sample(s) \/ Arrive(s) \/ Press(s) \/ Tick(s)

Next ==
  \/ \E s \in Slots : Registry(s) \/ Readiness(s) \/ PollTimer(s) \/ Environment(s)
  \/ \E s \in Slots, want \in Commands : SetDesiredSlot(s, want)
  \/ \E want \in Intents : SetDesiredAll(want)

Spec == Init /\ [][Next]_vars

\* The timer task runs armed timers, the drivers' tasks drain their queues and
\* receive paths, time passes; over a link that stays up not every command is
\* lost (strong fairness of Execute against Lose).
Fairness ==
  \A s \in Slots :
    /\ WF_vars(PollTimer(s)) /\ WF_vars(Tick(s))
    /\ SF_vars(Execute(s)) /\ WF_vars(Sample(s)) /\ WF_vars(Arrive(s))

FairSpec == Spec /\ Fairness

-----------------------------------------------------------------------------
(***************************************************************************)
(* Properties.                                                             *)
(***************************************************************************)

\* While a grace window keeps the mismatch poll off a slot, the slot is ready,
\* has a driver, and the command the window was opened for is the one the
\* present intent demands: the window never hides a wrong command.
GraceProtectsIntent ==
  \A s \in Slots : grace[s] > 0 =>
    /\ ready[s] /\ attached[s]
    /\ desired[s] # "unknown" => last[s] = desired[s]

\* A slot that is not ready keeps no poll timer and no grace window, so nothing
\* of an earlier connection delays or doubles the correction of the next one.
NotReadyIsQuiet ==
  \A s \in Slots : ~ready[s] => ~timer[s] /\ grace[s] = 0

\* No command reaches a registered camera's queue against that slot's intent,
\* though a broadcast reaches cameras the wave did not mean to command.
CommandsFollowIntent ==
  [][\A s \in Slots :
       Len(queue'[s]) > Len(queue[s]) /\ registered[s] /\ desired'[s] # "unknown"
         => queue'[s][Len(queue'[s])] = desired'[s]]_vars

\* A command issued with the intent unchanged comes from the mismatch poll.
PolledStart(s) ==
  s \in sent' /\ desired'[s] = desired[s] /\ last'[s] = "start"

\* The mismatch poll never tells a camera to start that is already recording
\* (the reason for the length of the grace window; a Hero4 would stop).
PollStartsOnlyIdleCamera ==
  [][\A s \in Slots : PolledStart(s) => camera[s] = "idle"]_vars

\* A ready slot whose intent no longer changes, over a link that stays up, with a
\* camera that does not report itself switched off.
Steady(s, want) ==
  /\ registered[s] /\ attached[s] /\ ready[s] /\ timer[s] /\ link[s]
  /\ reply[s] # "unknown"
  /\ desired[s] = want

\* Intent wins in the end: lost commands, dropped commands, stale reports and
\* shutter presses are all corrected.
CameraFollowsIntent ==
  \A s \in Slots :
    /\ <>[]Steady(s, "start") => <>[](camera[s] = "active")
    /\ <>[]Steady(s, "stop") => <>[](camera[s] = "idle")

\* How the BLE driver uses readiness: a slot is ready only over a link, and stops
\* being ready only after the link is gone.
LinkDiscipline ==
  \A s \in Slots :
    /\ ready'[s] /\ ~ready[s] => link[s]
    /\ ~ready'[s] /\ ready[s] => ~link[s]

DisciplinedSpec == Init /\ [][Next /\ LinkDiscipline]_vars

=============================================================================

--------------------------- MODULE ShutdownCameras ---------------------------
(***************************************************************************)
(* Shutting down while everything else goes on: the shutdown manager's     *)
(* tasks (ShutdownManager) working on cam_core's slots (CamCore), against  *)
(* the CAN receive task and the web server's task, which turn logging      *)
(* frames and shutter requests into recording intent, the CAN watchdog,    *)
(* and the drivers' link and readiness events.                             *)
(***************************************************************************)
EXTENDS CamCore

CONSTANTS
  MaxSlots,       (* CAMERA_MAX_SLOTS                                        *)
  SpawnMayFail    (* xTaskCreate may run out of memory                       *)

ASSUME ShutdownCamerasAssumption ==
  MaxSlots \in Nat /\ SpawnMayFail \in BOOLEAN /\ Slots = 0..(MaxSlots - 1)

VARIABLES
  state, failedMask, doneCount, atStart, request, slotCount, next, task, failed,
             (* ShutdownManager's                                            *)
  rx,        (* intent of a logging frame past the shutdown gate, or "none"  *)
  web,       (* intent of a shutter request past the shutdown gate, or "none"*)
  closing    (* slots whose BLE link ble_gap_terminate was told to close     *)

SM == INSTANCE ShutdownManager

managerVars == <<state, failedMask, doneCount, atStart, request, slotCount, next,
                 task, failed>>
allVars == <<vars, managerVars, rx, web, closing>>

\* Some cameras are paired, in the lowest slots; none comes or goes.
ShutdownInit ==
  /\ \E n \in 0..MaxSlots : registered = [s \in Slots |-> s < n]
  /\ attached = registered
  /\ ready = [s \in Slots |-> FALSE]
  /\ timer = [s \in Slots |-> FALSE]
  /\ stray = [s \in Slots |-> FALSE]
  /\ unreg = [s \in Slots |-> FALSE]
  /\ desired = [s \in Slots |-> "unknown"]
  /\ grace = [s \in Slots |-> 0]
  /\ last = [s \in Slots |-> "none"]
  /\ path = [s \in Slots |-> "none"]
  /\ sent = {}
  /\ link = [s \in Slots |-> FALSE]
  /\ cached = [s \in Slots |-> "unknown"]
  /\ queue = [s \in Slots |-> <<>>]
  /\ reply = [s \in Slots |-> "none"]
  /\ camera = [s \in Slots |-> "idle"]
  /\ presses = 0
  /\ SM!Init
  /\ rx = "none"
  /\ web = "none"
  /\ closing = {}

\* A step that does not touch cam_core.
Quiet ==
  /\ sent' = {}
  /\ UNCHANGED <<coreVars, desired, grace, last, path, envVars>>

-----------------------------------------------------------------------------
(***************************************************************************)
(* The CAN side.                                                           *)
(***************************************************************************)

\* Mutant: the frame handler does not look at the shutdown state.
RxGate_Open(want) ==
  /\ rx = "none"
  /\ rx' = want
  /\ Quiet /\ UNCHANGED <<managerVars, web, closing>>

\* A logging frame passes the gate: no shutdown is active at this moment.
RxGate(want) ==
  /\ rx = "none" /\ state = "idle"
  /\ rx' = want
  /\ Quiet /\ UNCHANGED <<managerVars, web, closing>>

\* The receive task goes on to apply the frame; the gate is not looked at again.
RxApply ==
  /\ rx # "none"
  /\ rx' = "none"
  /\ \/ SetDesiredAll(rx)
     \/ (\A s \in Slots : registered[s] => desired[s] = rx) /\ Quiet
  /\ UNCHANGED <<managerVars, web, closing>>

\* Five seconds without an accepted frame.
Watchdog == SetDesiredAll("unknown") /\ UNCHANGED <<managerVars, rx, web, closing>>

-----------------------------------------------------------------------------
(***************************************************************************)
(* The web server's side: POST /api/shutter.                               *)
(***************************************************************************)

\* A shutter request passes reject_if_shutting_down; its body is still to be read.
HttpGate(want) ==
  /\ web = "none" /\ state = "idle"
  /\ web' = want
  /\ Quiet /\ UNCHANGED <<managerVars, rx, closing>>

\* The body has come: it is malformed, or names all slots or a single one, which
\* need not exist.  The shutdown state is not looked at again.
HttpApply ==
  /\ web # "none"
  /\ web' = "none"
  /\ SetDesiredAll(web) \/ (\E s \in Slots : SetDesiredSlot(s, web)) \/ Quiet
  /\ UNCHANGED <<managerVars, rx, closing>>

-----------------------------------------------------------------------------
(***************************************************************************)
(* The shutdown, step by step, with cam_core's answers.                    *)
(***************************************************************************)

\* cam_core_is_recording: false as well for a slot that is not ready.
IsRecording(s) == registered[s] /\ ready[s] /\ attached[s] /\ cached[s] = "active"

\* cam_core_slot_count: one more than the highest registered slot.
RegisteredBound == Cardinality({s \in Slots : \E t \in Slots : registered[t] /\ s <= t})

RequestStep ==
  /\ \/ SM!Request \/ SM!ReadSlotCount(RegisteredBound) \/ SM!ResetCounters
     \/ SM!NoCameras \/ SM!SpawnFails \/ SM!Spawn \/ SM!RequestReturns
  /\ Quiet /\ UNCHANGED <<rx, web, closing>>

TaskLooks(s) ==
  /\ \/ SM!Start(s, registered[s]) \/ SM!StopCheck(s, IsRecording(s))
     \/ SM!WaitEnds(s) \/ SM!Confirm(s, IsRecording(s)) \/ SM!Finish(s)
  /\ Quiet /\ UNCHANGED <<rx, web, closing>>

TaskOrdersStop(s) ==
  /\ SM!OrderStop(s)
  /\ SetDesiredSlot(s, "stop") \/ (desired[s] = "stop" /\ Quiet)
  /\ UNCHANGED <<rx, web, closing>>

\* The drivers refuse the sleep command only for want of a link.
TaskSleeps(s) ==
  /\ SM!Sleep(s, IF link[s] THEN "sent" ELSE "error") \/ SM!Sleep(s, "late")
  /\ Quiet /\ UNCHANGED <<rx, web, closing>>

\* Only a BLE camera has a link to close.
TaskTerminatesLink(s) ==
  /\ SM!TerminateLink(s)
  /\ closing' = IF DriverOf[s] = "ble" /\ link[s]
                THEN closing \cup {s} ELSE closing
  /\ Quiet /\ UNCHANGED <<rx, web>>

TaskTearsDown(s) ==
  /\ SM!Teardown(s)
  /\ TeardownSlot(s)
  /\ UNCHANGED <<rx, web, closing>>

TaskStep(s) ==
  \/ TaskLooks(s) \/ TaskOrdersStop(s) \/ TaskSleeps(s)
  \/ TaskTerminatesLink(s) \/ TaskTearsDown(s)

-----------------------------------------------------------------------------
(***************************************************************************)
(* Links and readiness, as the two drivers report them.                    *)
(***************************************************************************)

\* Mutant: gopro_on_connected keeps a connection made during a shutdown.
Connect_Ungated(s) == LinkUp(s) /\ UNCHANGED <<managerVars, rx, web, closing>>

\* gopro_on_connected terminates a BLE connection made during a shutdown; the
\* Wi-Fi driver knows nothing of shutdowns.
Connect(s) ==
  /\ DriverOf[s] = "ble" => state = "idle"
  /\ LinkUp(s)
  /\ UNCHANGED <<managerVars, rx, web, closing>>

\* The link goes, and with it what was to be closed.
Disconnect(s) ==
  /\ LinkDown(s)
  /\ closing' = closing \ {s}
  /\ UNCHANGED <<managerVars, rx, web>>

\* The end of the BLE handshake, or a datagram from an RC camera that is not ready.
BecomesReady(s) ==
  /\ attached[s] /\ link[s]
  /\ SetReady(s)
  /\ UNCHANGED <<managerVars, rx, web, closing>>

\* A BLE slot loses readiness with its link, an RC slot also by silence.
BecomesNotReady(s) ==
  /\ DriverOf[s] = "ble" => ~link[s]
  /\ SetNotReady(s)
  /\ UNCHANGED <<managerVars, rx, web, closing>>

Camera(s) ==
  /\ Execute(s) \/ Lose(s) \/ Sample(s) \/ Arrive(s) \/ Tick(s) \/ PollTimer(s)
  /\ UNCHANGED <<managerVars, rx, web, closing>>

ShutdownNext ==
  \/ \E want \in Commands : RxGate(want) \/ HttpGate(want)
  \/ RxApply \/ HttpApply \/ Watchdog \/ RequestStep
  \/ \E s \in Slots :
       \/ TaskStep(s) \/ Connect(s) \/ Disconnect(s)
       \/ BecomesReady(s) \/ BecomesNotReady(s) \/ Camera(s)

ShutdownSpec == ShutdownInit /\ [][ShutdownNext]_allVars

\* A connection told to close goes down, and the loss of a link is reported to
\* cam_core; the shutdown's own tasks run.
ShutdownFairness ==
  /\ WF_allVars(RequestStep)
  /\ \A s \in Slots :
       /\ WF_allVars(TaskStep(s))
       /\ WF_allVars(s \in closing /\ Disconnect(s))
       /\ WF_allVars(~link[s] /\ BecomesNotReady(s))

FairShutdownSpec == ShutdownSpec /\ ShutdownFairness

-----------------------------------------------------------------------------
(***************************************************************************)
(* Properties.                                                             *)
(***************************************************************************)

\* A command that starts a recording on the immediate path.
StartsByIntent(s) == s \in sent' /\ path'[s] = "intent" /\ last'[s] = "start"

\* Once a shutdown is active no frame and no shutter request passes a gate any
\* more, and every start that intent still gives uses up one that was past it: at
\* most one late frame and one late request can start the cameras.
OnlyLateRequestsStart ==
  [][state # "idle" =>
       /\ rx' \in {rx, "none"} /\ web' \in {web, "none"}
       /\ \A s \in Slots : StartsByIntent(s) => <<rx, web>>' # <<rx, web>>]_allVars

\* A slot whose recording was to be stopped and that is not marked failed has
\* stopped recording (docs/design/shutdown.md:468).
UnmarkedSlotStopped ==
  [][\A s \in Slots :
       task[s] = "confirm" /\ task'[s] = "sleep" /\ ~failed'[s] => camera[s] = "idle"]_allVars

\* No slot comes back to life once the shutdown is complete
\* (docs/design/shutdown.md:40).
NoSlotRevived ==
  [][state = "complete" => \A s \in Slots : ready'[s] => ready[s]]_allVars

\* After a shutdown every BLE slot whose task ran is disconnected in the end, and
\* stays so, though the camera may reconnect while the shutdown is under way.
LinksStayDown ==
  (state = "complete") ~>
    [](\A s \in Slots : DriverOf[s] = "ble" /\ task[s] = "exited" => ~link[s] /\ ~ready[s])
=============================================================================

------------------------------- MODULE CanBus -------------------------------
(***************************************************************************)
(* The CAN side of the controller (can_manager.c) at run time: the receive *)
(* and state interrupts, the receive task, the recovery task, and the      *)
(* timer task that runs the 5 s watchdog and the 5 Hz status frame.        *)
(*                                                                         *)
(* A node that went bus-off neither sends nor receives until the recovery  *)
(* task has asked for its recovery.  Of every other change of state the    *)
(* task makes nothing ("other").  The GPS frames are the subject of        *)
(* CanStore.                                                               *)
(***************************************************************************)
EXTENDS Integers, Sequences

CONSTANTS RxDepth,     \* frames the receive queue holds (32 in the code)
          StateDepth   \* events the state queue holds (8 in the code)

ASSUME DepthsAssumption == RxDepth \in Nat \ {0} /\ StateDepth \in Nat \ {0}

Known  == {"logging", "not_logging"}
Frames == Known \cup {"shutdown"}
Events == {"off", "other"}

VARIABLES node,       \* the TWAI controller: "active", "off" or "recovering"
          stateq,     \* s_state_queue
          recovery,   \* the recovery task: "idle", or "recover" about to recover
          lost,       \* history: a bus-off event found the state queue full
          txEnabled,  \* s_can_tx_enabled
          talking,    \* the other node still sends frames
          rxq,        \* s_rx_queue
          rx,         \* the receive task: where it is, and with which frame
          logging,    \* s_logging_state
          armed,      \* s_watchdog_timer is running
          timer,      \* the timer task, and the callback it is inside
          auto,       \* s_auto_control, which the web page switches
          intent,     \* the last intent broadcast to the cameras, "none" if it
                      \* did not come from a frame
          left,       \* history: the watchdog found automatic control off and
                      \* left the frames' last intent with the cameras
          shutdown    \* shutdown_manager's state

bus == <<node, stateq, recovery, lost, txEnabled>>
rec == <<logging, armed, intent, left>>
vars == <<bus, talking, rxq, rx, rec, timer, auto, shutdown>>

Idle == [at |-> "idle", frame |-> "shutdown"]

Init ==
    /\ node = "active" /\ stateq = << >> /\ recovery = "idle"
    /\ lost = FALSE /\ txEnabled = TRUE /\ talking = TRUE
    /\ rxq = << >> /\ rx = Idle
    /\ logging = "unknown" /\ armed = FALSE /\ intent = "none" /\ left = FALSE
    /\ timer = "idle" /\ auto = TRUE /\ shutdown = "running"

(***************************************************************************)
(* Bus states and recovery.                                                *)
(***************************************************************************)

\* The tail of on_state_change_isr: a full queue drops the event silently.
Queue(e) ==
    IF Len(stateq) < StateDepth
    THEN stateq' = Append(stateq, e) /\ UNCHANGED lost
    ELSE lost' = (lost \/ e = "off") /\ UNCHANGED stateq

BusOff ==
    /\ node = "active"
    /\ node' = "off" /\ txEnabled' = FALSE
    /\ Queue("off")
    /\ UNCHANGED <<recovery, talking, rxq, rx, rec, timer, auto, shutdown>>

\* Active, warning and passive give way to each other.
ErrorState ==
    /\ node = "active"
    /\ Queue("other")
    /\ UNCHANGED <<node, recovery, txEnabled, talking, rxq, rx, rec, timer,
                   auto, shutdown>>

\* Mutant: nothing opens the transmit gate again.
BusRecovers_GateShut ==
    /\ node = "recovering"
    /\ node' = "active"
    /\ Queue("other")
    /\ UNCHANGED <<recovery, txEnabled, talking, rxq, rx, rec, timer, auto,
                   shutdown>>

\* The hardware has seen the bus idle for long enough.
BusRecovers ==
    /\ node = "recovering"
    /\ node' = "active" /\ txEnabled' = TRUE
    /\ Queue("other")
    /\ UNCHANGED <<recovery, talking, rxq, rx, rec, timer, auto, shutdown>>

RecoveryTakes ==
    /\ recovery = "idle" /\ stateq # << >>
    /\ recovery' = IF Head(stateq) = "off" THEN "recover" ELSE "idle"
    /\ stateq' = Tail(stateq)
    /\ UNCHANGED <<node, lost, txEnabled, talking, rxq, rx, rec, timer, auto,
                   shutdown>>

\* twai_node_recover refuses a node that is not bus-off.
Recover ==
    /\ recovery = "recover"
    /\ recovery' = "idle"
    /\ node' = IF node = "off" THEN "recovering" ELSE node
    /\ UNCHANGED <<stateq, lost, txEnabled, talking, rxq, rx, rec, timer,
                   auto, shutdown>>

(***************************************************************************)
(* Reception.                                                              *)
(***************************************************************************)

\* on_rx_done_isr: a frame that finds the queue full is dropped.
Receive(f) ==
    /\ talking /\ node = "active"
    /\ rxq' = IF Len(rxq) < RxDepth THEN Append(rxq, f) ELSE rxq
    /\ UNCHANGED <<bus, talking, rx, rec, timer, auto, shutdown>>

FallsSilent ==
    /\ talking /\ talking' = FALSE
    /\ UNCHANGED <<bus, rxq, rx, rec, timer, auto, shutdown>>

\* Mutant: the logging channel has the shutdown request's identifier.
RxTakes_SameId ==
    /\ rx.at = "idle" /\ rxq # << >>
    /\ rx' = [at |-> "gate",
              frame |-> IF Head(rxq) = "shutdown" THEN "logging"
                                                  ELSE Head(rxq)]
    /\ rxq' = Tail(rxq)
    /\ UNCHANGED <<bus, talking, rec, timer, auto, shutdown>>

\* rx_task takes a frame and calls its handler.
RxTakes ==
    /\ rx.at = "idle" /\ rxq # << >>
    /\ rx' = [at |-> IF Head(rxq) = "shutdown" THEN "request" ELSE "gate",
              frame |-> Head(rxq)]
    /\ rxq' = Tail(rxq)
    /\ UNCHANGED <<bus, talking, rec, timer, auto, shutdown>>

\* handle_shutdown_request: a request while one runs does nothing.
RequestShutdown ==
    /\ rx.at = "request"
    /\ rx' = Idle
    /\ shutdown' = IF shutdown = "running" THEN "down" ELSE shutdown
    /\ UNCHANGED <<bus, talking, rxq, rec, timer, auto>>

\* handle_logging_cmd, in the steps other tasks can come between.
Gate ==
    /\ rx.at = "gate"
    /\ rx' = IF shutdown = "running" THEN [rx EXCEPT !.at = "set"] ELSE Idle
    /\ UNCHANGED <<bus, talking, rxq, rec, timer, auto, shutdown>>

SetState ==
    /\ rx.at = "set"
    /\ rx' = [rx EXCEPT !.at = "rearm"]
    /\ logging' = rx.frame
    /\ UNCHANGED <<bus, talking, rxq, armed, intent, left, timer, auto, shutdown>>

\* Mutant: a handler without automatic control returns too early.
Rearm_IfAuto ==
    /\ rx.at = "rearm"
    /\ rx' = IF auto THEN [rx EXCEPT !.at = "drive"] ELSE Idle
    /\ armed' = (armed \/ auto)
    /\ UNCHANGED <<bus, talking, rxq, logging, intent, left, timer, auto, shutdown>>

\* The watchdog is restarted, and automatic control looked up.
Rearm ==
    /\ rx.at = "rearm"
    /\ rx' = IF auto THEN [rx EXCEPT !.at = "drive"] ELSE Idle
    /\ armed' = TRUE
    /\ UNCHANGED <<bus, talking, rxq, logging, intent, left, timer, auto, shutdown>>

Drive ==
    /\ rx.at = "drive"
    /\ rx' = Idle
    /\ intent' = IF rx.frame = "logging" THEN "start" ELSE "stop"
    /\ left' = FALSE
    /\ UNCHANGED <<bus, talking, rxq, logging, armed, timer, auto, shutdown>>

(***************************************************************************)
(* The web server's task: POST /api/auto-control, and POST /api/shutter to *)
(* all cameras.  Their check that no shutdown is active is left out: a     *)
(* request past it waits for its body, and may act at any later time.      *)
(***************************************************************************)

\* handler_post_auto_control
SetAuto(enabled) ==
    /\ auto' = enabled
    /\ UNCHANGED <<bus, talking, rxq, rx, rec, timer, shutdown>>

\* handler_shutter
Shutter ==
    /\ intent' = "none" /\ left' = FALSE
    /\ UNCHANGED <<bus, talking, rxq, rx, logging, armed, timer, auto, shutdown>>

(***************************************************************************)
(* The timer task runs one callback at a time.                             *)
(***************************************************************************)

\* The one-shot timer is spent before its callback, watchdog_cb, runs.  Five
\* seconds do not pass between a handler's restart of it and its next call.
WatchdogDue ==
    /\ timer = "idle" /\ armed /\ rx.at # "drive"
    /\ armed' = FALSE /\ timer' = "forget"
    /\ UNCHANGED <<bus, talking, rxq, rx, logging, intent, left, auto, shutdown>>

\* The state is forgotten, and automatic control looked up.
WatchdogForgets ==
    /\ timer = "forget"
    /\ logging' = "unknown"
    /\ timer' = IF auto THEN "release" ELSE "idle"
    /\ left' = (left \/ (~auto /\ intent # "none"))
    /\ UNCHANGED <<bus, talking, rxq, rx, armed, intent, auto, shutdown>>

\* Mutant: cameras told to stop are left as they are.
WatchdogReleases_KeepsStop ==
    /\ timer = "release"
    /\ intent' = IF intent = "start" THEN "none" ELSE intent
    /\ left' = FALSE
    /\ timer' = "idle"
    /\ UNCHANGED <<bus, talking, rxq, rx, logging, armed, auto, shutdown>>

WatchdogReleases ==
    /\ timer = "release"
    /\ intent' = "none" /\ left' = FALSE
    /\ timer' = "idle"
    /\ UNCHANGED <<bus, talking, rxq, rx, logging, armed, auto, shutdown>>

\* tx_timer_cb, up to the gates it passes or returns at ...
TxGate ==
    /\ timer = "idle"
    /\ txEnabled /\ shutdown # "complete"
    /\ timer' = "send"
    /\ UNCHANGED <<bus, talking, rxq, rx, rec, auto, shutdown>>

\* ... and from there: the frame goes out, or a node gone bus-off refuses it.
TxSend ==
    /\ timer = "send"
    /\ timer' = "idle"
    /\ UNCHANGED <<bus, talking, rxq, rx, rec, auto, shutdown>>

ShutdownCompletes ==
    /\ shutdown = "down"
    /\ shutdown' = "complete"
    /\ UNCHANGED <<bus, talking, rxq, rx, rec, timer, auto>>

Watchdog == WatchdogForgets \/ WatchdogReleases
Web == Shutter \/ \E enabled \in BOOLEAN : SetAuto(enabled)
Handle == RequestShutdown \/ Gate \/ SetState \/ Rearm \/ Drive

Next ==
    \/ BusOff \/ ErrorState \/ BusRecovers \/ RecoveryTakes \/ Recover
    \/ \E f \in Frames : Receive(f)
    \/ FallsSilent \/ RxTakes \/ Handle \/ Web
    \/ WatchdogDue \/ Watchdog \/ TxGate \/ TxSend \/ ShutdownCompletes

Spec == Init /\ [][Next]_vars

(***************************************************************************)
(* Every task and timer runs.  Two assumptions are about the bus: a node   *)
(* asked to recover does (the bus is idle now and then), and of the frames *)
(* and ticks that are repeated for ever some meet an active node: a status *)
(* tick with the gate open, and, while the other node asks for a shutdown, *)
(* a request with room in the queue.                                       *)
(***************************************************************************)
Tasks ==
    /\ WF_vars(RecoveryTakes) /\ WF_vars(Recover)
    /\ WF_vars(RxTakes) /\ WF_vars(Handle)
    /\ SF_vars(WatchdogDue) /\ WF_vars(Watchdog) /\ WF_vars(TxSend)

Repeats ==
    /\ WF_vars(BusRecovers)
    /\ SF_vars(TxGate)
    /\ SF_vars(Len(rxq) < RxDepth /\ Receive("shutdown"))

LiveSpec == Spec /\ Tasks /\ Repeats

-----------------------------------------------------------------------------

TypeOK ==
    /\ node \in {"active", "off", "recovering"}
    /\ stateq \in Seq(Events) /\ Len(stateq) <= StateDepth
    /\ recovery \in {"idle", "recover"}
    /\ lost \in BOOLEAN /\ txEnabled \in BOOLEAN /\ talking \in BOOLEAN
    /\ rxq \in Seq(Frames) /\ Len(rxq) <= RxDepth
    /\ rx \in [at : {"idle", "request", "gate", "set", "rearm", "drive"},
               frame : Frames]
    /\ rx.at \in {"gate", "set", "rearm", "drive"} => rx.frame \in Known
    /\ logging \in Known \cup {"unknown"} /\ armed \in BOOLEAN
    /\ timer \in {"idle", "forget", "release", "send"}
    /\ auto \in BOOLEAN /\ left \in BOOLEAN
    /\ intent \in {"none", "start", "stop"}
    /\ shutdown \in {"running", "down", "complete"}

(***************************************************************************)
(* A logging state taken from the bus does not outlive it unwatched: as    *)
(* long as one is known, the watchdog runs, or its callback is about to    *)
(* forget the state, or the receive task is about to restart it -- however *)
(* a frame and the timeout race.                                           *)
(***************************************************************************)
KnownIsWatched ==
    logging \in Known => armed \/ timer = "forget" \/ rx.at = "rearm"

(***************************************************************************)
(* A node that is bus-off comes back only if it is told to: the event that *)
(* makes the recovery task do so is queued or in its hands, unless it was  *)
(* dropped -- the one loss the code leaves unrepaired.                     *)
(***************************************************************************)
OffIsRemembered ==
    node = "off" =>
        \/ recovery = "recover" \/ lost
        \/ \E i \in 1..Len(stateq) : stateq[i] = "off"

(***************************************************************************)
(* When the bus falls silent for good the intent its frames drove is given *)
(* up, and stays so, whatever the web page switches or commands meanwhile. *)
(* What the watchdog leaves because it finds automatic control off stays:  *)
(* it has fired, and nothing takes that intent back when automatic control *)
(* is switched on again.                                                   *)
(***************************************************************************)
SilenceReleases ==
    ~talking ~> [](/\ logging = "unknown"
                   /\ left \/ intent = "none")

(***************************************************************************)
(* Status frames resume after a bus-off, unless the event was dropped or   *)
(* the shutdown is complete: then silence is the message.                  *)
(***************************************************************************)
StatusResumes ==
    ~txEnabled ~> timer = "send" \/ lost \/ shutdown = "complete"

(***************************************************************************)
(* A shutdown that the bus keeps asking for happens, through full queues   *)
(* and bus-offs, as long as no bus-off event is dropped.                   *)
(***************************************************************************)
ShutdownHeard == [](talking /\ ~lost) => <>(shutdown # "running")

=============================================================================

----------------------------- MODULE PairAttempt -----------------------------
(***************************************************************************)
(* The pair-attempt state machine of camera_manager_wireless               *)
(* (pair_attempt.c) and the tasks that drive it: the web server's handlers *)
(* that begin and cancel an attempt, the NimBLE host task's connection     *)
(* callbacks, the esp_timer task (watchdog, readiness retries), the        *)
(* pair-complete task of legacy cameras and the Wi-Fi driver's work task.  *)
(*                                                                         *)
(* Every section under pair_attempt's mutex is one step, and so is every   *)
(* call made outside it.  pc[t] is what task t still has to do in the call *)
(* it is in: a sequence of pairs of an operation and its camera.  A task   *)
(* takes a new event only when it has finished the last one.               *)
(***************************************************************************)
EXTENDS Naturals, Sequences

CONSTANTS
  BleCameras, RcCameras,   (* the cameras in range, by transport            *)
  Legacy,                  (* BLE cameras that need wireless/pair/complete  *)
  PairedBefore,            (* cameras paired before, that reconnect         *)
  MaxAttempts              (* bound: how many attempts users begin          *)

ASSUME PairAttemptAssumption ==
  /\ BleCameras \cap RcCameras = {}
  /\ Legacy \subseteq BleCameras
  /\ PairedBefore \subseteq BleCameras \cup RcCameras
  /\ MaxAttempts \in Nat

Cameras == BleCameras \cup RcCameras
Nobody == "nobody"

VARIABLES
  state,   (* s_info.state; "unset" until the mutex is created              *)
  addr,    (* s_info.addr                                                   *)
  error,   (* s_info.error_code                                             *)
  conn,    (* s_conn_handle: the camera whose connection it is              *)
  created, (* s_watchdog # NULL                                             *)
  armed,   (* the watchdog timer is running                                 *)
  old,     (* ... since before the attempt in flight began                  *)
  stolen,  (* the end of an earlier attempt has stopped the watchdog of the *)
           (* attempt in flight (history)                                   *)
  begun,   (* attempts begun so far                                         *)
  overlapped, (* the last attempt began before the end of the one before it *)
           (* was cleaned up (history)                                      *)
  pc,      (* what each task still has to do                                *)
  link,    (* the BLE link of each camera                                   *)
  stage,   (* how far the camera's connection sequence has come             *)
  slot     (* the camera's slot: none, unfinished or first_pair_complete    *)

attempt == <<state, addr, error, conn>>
watchdog == <<created, armed, old, stolen>>
attempts == <<begun, overlapped>>
world == <<link, stage, slot>>
attemptVars == <<state, addr, error, conn, created, armed, old, stolen, begun, overlapped,
                 pc, link, stage, slot>>

Tasks == {"http", "host", "timer", "pairer", "work"}
InFlightStates == {"connecting", "bonding", "provisioning"}
States == {"unset", "idle", "success", "failed"} \cup InFlightStates
\* "other" stands for the causes pair_attempt_fail is given, which nobody tells apart.
Errors == {"none", "cancelled", "handshake_timeout", "other"}
Operations == {"fail", "arm", "disarm", "reset", "connect", "add", "cancel", "overwrite",
  "abort", "drop", "check", "remove", "handle", "finish", "bonding", "provisioning", "success"}

AttemptTypeOK ==
  /\ state \in States
  /\ addr \in Cameras \cup {Nobody}
  /\ state \in InFlightStates => addr \in Cameras
  /\ error \in Errors
  /\ conn \in Cameras \cup {Nobody}
  /\ created \in BOOLEAN /\ armed \in BOOLEAN /\ old \in BOOLEAN /\ stolen \in BOOLEAN
  /\ overlapped \in BOOLEAN
  /\ begun \in 0..MaxAttempts
  /\ pc \in [Tasks -> Seq(Operations \X (Cameras \cup {Nobody}))]
  /\ link \in [Cameras -> {"down", "connecting", "up", "closing"}]
  /\ stage \in [Cameras -> {"none", "connected", "encrypted", "identified", "done"}]
  /\ slot \in [Cameras -> {"none", "unfinished", "complete"}]

AttemptInit ==
  /\ state = "unset" /\ addr = Nobody /\ error = "none" /\ conn = Nobody
  /\ created = FALSE /\ armed = FALSE /\ old = FALSE /\ stolen = FALSE
  /\ begun = 0 /\ overlapped = FALSE
  /\ pc = [t \in Tasks |-> <<>>]
  /\ link = [c \in Cameras |-> "down"]
  /\ stage = [c \in Cameras |-> "none"]
  /\ slot = [c \in Cameras |-> IF c \in PairedBefore THEN "complete" ELSE "none"]

-----------------------------------------------------------------------------
InFlight == state \in InFlightStates
Terminal == state \in {"success", "failed"}
Matches(c) == InFlight /\ addr = c           \* pair_attempt_addr_matches

Idle(t) == pc[t] = <<>>
Enter(t, program) == Idle(t) /\ pc' = [pc EXCEPT ![t] = program]

\* Task t's next operation is op; it then has `more` and the rest to do.
Does(t, op, more) ==
  /\ pc[t] # <<>> /\ Head(pc[t])[1] = op
  /\ pc' = [pc EXCEPT ![t] = more \o Tail(@)]

Camera(t) == Head(pc[t])[2]
Pending(t, op) == \E i \in DOMAIN pc[t] : pc[t][i][1] = op

\* What is left of a call that ends an attempt, once the attempt has ended.
Ending == {"disarm", "cancel", "overwrite", "abort", "drop", "check", "remove"}

-----------------------------------------------------------------------------
(***************************************************************************)
(* pair_attempt.c                                                          *)
(***************************************************************************)

\* The web page polls pair_attempt_get, which creates the mutex.
Get ==
  /\ state = "unset" /\ Idle("http")
  /\ state' = "idle"
  /\ UNCHANGED <<addr, error, conn, watchdog, attempts, pc, world>>

\* handler_pair and handler_rc_add: begin, arm the watchdog, start connecting.  The
\* task that ended the last attempt may not have cleaned up after it yet.
Begin(c) ==
  /\ begun < MaxAttempts
  /\ ~InFlight
  /\ state' = "connecting" /\ addr' = c /\ error' = "none" /\ conn' = Nobody
  /\ begun' = begun + 1
  /\ overlapped' = (armed \/ \E t \in Tasks, op \in Ending : Pending(t, op))
  /\ old' = armed /\ stolen' = FALSE
  /\ Enter("http", <<<<"arm", c>>, <<IF c \in RcCameras THEN "add" ELSE "connect", c>>>>)
  /\ UNCHANGED <<created, armed, world>>

\* watchdog_arm creates the timer the first time; if that fails nothing is armed, and
\* the attempt goes on.
ArmWatchdog(t) ==
  /\ Does(t, "arm", <<>>)
  /\ created' \in BOOLEAN /\ (created => created')
  /\ armed' = created' /\ old' = FALSE /\ stolen' = FALSE
  /\ UNCHANGED <<attempt, attempts, world>>

\* watchdog_disarm, after the mutex is released: whose watchdog it stops is not asked.
DisarmWatchdog(t) ==
  /\ Does(t, "disarm", <<>>)
  /\ armed' = FALSE /\ old' = FALSE
  /\ stolen' = (stolen \/ (InFlight /\ armed /\ ~Pending("http", "arm")))
  /\ UNCHANGED <<created, attempt, attempts, world>>

\* Mutant: the watchdog is stopped and left so.
Reset_StopOnly(t) ==
  /\ Does(t, "reset", <<>>)
  /\ armed' = FALSE
  /\ UNCHANGED <<created, old, stolen, attempt, attempts, world>>

\* pair_attempt_reset_watchdog: restart it if there is one and an attempt in flight.
Reset(t) ==
  /\ Does(t, "reset", IF created /\ InFlight THEN <<<<"arm", Nobody>>>> ELSE <<>>)
  /\ UNCHANGED <<attempt, watchdog, attempts, world>>

\* set_conn_handle
Handle(t) ==
  /\ Does(t, "handle", <<>>)
  /\ conn' = IF InFlight THEN Camera(t) ELSE conn
  /\ UNCHANGED <<state, addr, error, watchdog, attempts, world>>

Rank == [s \in States |->
  CASE s = "connecting" -> 1 [] s = "bonding" -> 2 [] s = "provisioning" -> 3
    [] s = "success" -> 4 [] s = "failed" -> 5 [] OTHER -> 0]

\* Mutant: an advance is not held back by a terminal state.
Advance_PastTerminal(t, new) ==
  /\ Does(t, new, IF state # "unset" /\ new = "success" THEN <<<<"disarm", Nobody>>>> ELSE <<>>)
  /\ state' = IF state # "unset" /\ (Terminal \/ Rank[new] > Rank[state]) THEN new ELSE state
  /\ UNCHANGED <<addr, error, conn, watchdog, attempts, world>>

\* An advance to a later state is taken from any state that is not terminal, IDLE
\* included; whose camera has come so far is not looked at here.
Advance(t, new) ==
  LET taken == state # "unset" /\ ~Terminal /\ Rank[new] > Rank[state] IN
  /\ Does(t, new, IF taken /\ new = "success" THEN <<<<"disarm", Nobody>>>> ELSE <<>>)
  /\ state' = IF taken THEN new ELSE state
  /\ UNCHANGED <<addr, error, conn, watchdog, attempts, world>>

\* The first cause of failure wins.
Fail(t) ==
  /\ Does(t, "fail", IF InFlight THEN <<<<"disarm", Nobody>>>> ELSE <<>>)
  /\ state' = IF InFlight THEN "failed" ELSE state
  /\ error' = IF InFlight THEN "other" ELSE error
  /\ UNCHANGED <<addr, conn, watchdog, attempts, world>>

\* Mutant: a Wi-Fi attempt is cleaned up like a BLE one.
CleanUp_BleOnly ==
  <<<<"disarm", Nobody>>, <<"abort", addr>>>>
    \o (IF conn # Nobody THEN <<<<"drop", conn>>>> ELSE <<>>)
    \o (IF state = "provisioning" THEN <<<<"check", addr>>>> ELSE <<>>)

\* What cancel does once it has marked the attempt, with the state, address and
\* connection it read under the mutex.
CleanUp ==
  <<<<"disarm", Nobody>>>> \o
  IF addr \in RcCameras THEN <<<<"remove", addr>>>>
  ELSE <<<<"abort", addr>>>>
         \o (IF conn # Nobody THEN <<<<"drop", conn>>>> ELSE <<>>)
         \o (IF state = "provisioning" THEN <<<<"check", addr>>>> ELSE <<>>)

Cancel(t) ==
  /\ Does(t, "cancel", IF InFlight THEN CleanUp ELSE <<>>)
  /\ state' = IF InFlight THEN "failed" ELSE state
  /\ error' = IF InFlight THEN "cancelled" ELSE error
  /\ UNCHANGED <<addr, conn, watchdog, attempts, world>>

\* ble_gap_conn_cancel aborts whatever connection is being made.
Abort(t) ==
  /\ Does(t, "abort", <<>>)
  /\ link' = [c \in Cameras |-> IF link[c] = "connecting" THEN "down" ELSE link[c]]
  /\ UNCHANGED <<attempt, watchdog, attempts, stage, slot>>

\* ble_gap_terminate
Drop(t) ==
  /\ Does(t, "drop", <<>>)
  /\ link' = [link EXCEPT ![Camera(t)] = IF @ = "up" THEN "closing" ELSE @]
  /\ UNCHANGED <<attempt, watchdog, attempts, stage, slot>>

\* An unfinished slot of the cancelled camera is to be removed.
Check(t) ==
  /\ Does(t, "check", IF slot[Camera(t)] = "unfinished" THEN <<<<"remove", Camera(t)>>>> ELSE <<>>)
  /\ UNCHANGED <<attempt, watchdog, attempts, world>>

RemoveCamera(t) ==
  /\ Does(t, "remove", <<>>)
  /\ slot' = [slot EXCEPT ![Camera(t)] = "none"]
  /\ UNCHANGED <<attempt, watchdog, attempts, link, stage>>

\* handler_pair_cancel
UserCancels ==
  /\ InFlight
  /\ Enter("http", <<<<"cancel", Nobody>>>>)
  /\ UNCHANGED <<attempt, watchdog, attempts, world>>

\* A handler that begins an attempt is done well within the 20 s of its watchdog, but
\* one still running from before may run out under it.
RunsOut == old \/ (~Pending("http", "add") /\ ~Pending("http", "connect"))

\* Mutant: the expired watchdog looks for an attempt, but never cancels it.
WatchdogFires_Quiet ==
  /\ armed /\ Idle("timer") /\ RunsOut
  /\ armed' = FALSE /\ old' = FALSE
  /\ Enter("timer", IF InFlight THEN <<<<"overwrite", Nobody>>>> ELSE <<>>)
  /\ UNCHANGED <<created, stolen, attempt, attempts, world>>

\* watchdog_cb
WatchdogFires ==
  /\ armed /\ Idle("timer") /\ RunsOut
  /\ armed' = FALSE /\ old' = FALSE
  /\ Enter("timer", IF InFlight THEN <<<<"cancel", Nobody>>, <<"overwrite", Nobody>>>> ELSE <<>>)
  /\ UNCHANGED <<created, stolen, attempt, attempts, world>>

\* The error code is overwritten, whatever the attempt has come to meanwhile.
Overwrite(t) ==
  /\ Does(t, "overwrite", <<>>)
  /\ error' = "handshake_timeout"
  /\ UNCHANGED <<state, addr, conn, watchdog, attempts, world>>

PairAttemptStep(t) ==
  \/ ArmWatchdog(t) \/ DisarmWatchdog(t) \/ Reset(t) \/ Handle(t) \/ Cancel(t)
  \/ Abort(t) \/ Drop(t) \/ Check(t) \/ RemoveCamera(t) \/ Overwrite(t)
  \/ Fail(t)
  \/ \E new \in {"bonding", "provisioning", "success"} : Advance(t, new)

-----------------------------------------------------------------------------
(***************************************************************************)
(* The drivers and the cameras.                                            *)
(***************************************************************************)

\* ble_core_connect_by_addr, on the web server's task.
StartConnecting(t) ==
  /\ Does(t, "connect", <<>>)
  /\ link' = [link EXCEPT ![Camera(t)] = IF @ = "down" THEN "connecting" ELSE @]
  /\ UNCHANGED <<attempt, watchdog, attempts, stage, slot>>

\* gopro_wifi_rc_add_camera: the camera has its slot for good, or there is none free.
AddRc(t, full) ==
  LET c == Camera(t) IN
  /\ Does(t, "add", IF full /\ Matches(c) THEN <<<<"fail", c>>>> ELSE <<>>)
  /\ full => slot[c] = "none"
  /\ slot' = IF full THEN slot ELSE [slot EXCEPT ![c] = "complete"]
  /\ UNCHANGED <<attempt, watchdog, attempts, link, stage>>

\* A datagram of a registered Wi-Fi camera: promote or apply_cv.
RcReply(c) ==
  /\ slot[c] # "none" /\ Matches(c)
  /\ Enter("work", <<<<"success", c>>>>)
  /\ UNCHANGED <<attempt, watchdog, attempts, world>>

\* The scanner finds a camera that has a slot and reconnects it.
Reconnect(c) ==
  /\ slot[c] # "none" /\ link[c] = "down"
  /\ link' = [link EXCEPT ![c] = "connecting"]
  /\ UNCHANGED <<attempt, watchdog, attempts, pc, stage, slot>>

\* A failed connection is not reported to the pair attempt.
ConnectFails(c) ==
  /\ link[c] = "connecting"
  /\ link' = [link EXCEPT ![c] = "down"]
  /\ UNCHANGED <<attempt, watchdog, attempts, pc, stage, slot>>

\* gopro_on_connected
Connected(c) ==
  /\ link[c] = "connecting"
  /\ link' = [link EXCEPT ![c] = "up"]
  /\ stage' = [stage EXCEPT ![c] = "connected"]
  /\ Enter("host", IF Matches(c) THEN <<<<"handle", c>>, <<"bonding", c>>>> ELSE <<>>)
  /\ UNCHANGED <<attempt, watchdog, attempts, slot>>

\* gopro_on_encrypted: a bonded camera without a slot is given one, if one is free.
Encrypted(c, full) ==
  /\ link[c] = "up" /\ stage[c] = "connected"
  /\ full => slot[c] = "none"
  /\ stage' = [stage EXCEPT ![c] = IF full THEN @ ELSE "encrypted"]
  /\ slot' = [slot EXCEPT ![c] = IF @ = "none" /\ ~full THEN "unfinished" ELSE @]
  /\ LET own == IF Matches(c)
                THEN <<<<IF full THEN "fail" ELSE "provisioning", c>>>> ELSE <<>>
     IN  Enter("host", own \o (IF full THEN <<<<"drop", c>>>> ELSE <<>>))
  /\ UNCHANGED <<attempt, watchdog, attempts, link>>

\* gopro_readiness_on_response: the camera says what it is; a frozen model is refused.
HwInfo(c, frozen) ==
  /\ link[c] = "up" /\ stage[c] = "encrypted" /\ slot[c] # "none"
  /\ frozen => slot[c] = "unfinished"
  /\ stage' = [stage EXCEPT ![c] = IF frozen THEN "done" ELSE "identified"]
  /\ Enter("host", IF frozen
                   THEN <<<<"fail", c>>, <<"drop", c>>, <<"remove", c>>>> ELSE <<>>)
  /\ UNCHANGED <<attempt, watchdog, attempts, link, slot>>

\* on_readiness_timer out of retries: the attempt fails, whoever it is for.
RetriesExhausted(c) ==
  /\ link[c] = "up" /\ stage[c] = "encrypted"
  /\ stage' = [stage EXCEPT ![c] = "done"]
  /\ Enter("timer", <<<<"fail", c>>, <<"drop", c>>>>)
  /\ UNCHANGED <<attempt, watchdog, attempts, link, slot>>

\* complete_connection_sequence, after a response (host task) or the lack of one
\* (timer task).  A legacy camera's first pairing is handed to the pairer task.
Completes(c, t) ==
  /\ link[c] = "up" /\ stage[c] = "identified" /\ slot[c] # "none"
  /\ stage' = [stage EXCEPT ![c] = "done"]
  /\ IF c \in Legacy /\ slot[c] = "unfinished"
     THEN Idle(t) /\ \E end \in {<<<<"finish", c>>, <<"success", c>>>>,
                     <<<<"fail", c>>, <<"drop", c>>, <<"remove", c>>>>} :
            Enter("pairer", <<<<"reset", c>>>> \o end)
     ELSE Enter(t, <<<<"finish", c>>, <<"success", c>>>>)
  /\ UNCHANGED <<attempt, watchdog, attempts, link, slot>>

\* camera_manager_mark_first_pair_complete
Finish(t) ==
  /\ Does(t, "finish", <<>>)
  /\ slot' = [slot EXCEPT ![Camera(t)] = IF @ = "unfinished" THEN "complete" ELSE @]
  /\ UNCHANGED <<attempt, watchdog, attempts, link, stage>>

\* gopro_on_disconnected
Disconnected(c) ==
  /\ link[c] \in {"up", "closing"}
  /\ link' = [link EXCEPT ![c] = "down"]
  /\ stage' = [stage EXCEPT ![c] = "none"]
  /\ Enter("host", IF Matches(c) THEN <<<<"fail", c>>>> ELSE <<>>)
  /\ UNCHANGED <<attempt, watchdog, attempts, slot>>

DriverStep(t) == StartConnecting(t) \/ Finish(t) \/ \E full \in BOOLEAN : AddRc(t, full)

\* Bound: events are followed up to the end of the last attempt.
Followed == InFlight \/ begun < MaxAttempts

Event(c) ==
  \/ Reconnect(c) \/ ConnectFails(c) \/ Connected(c) \/ Disconnected(c) \/ RetriesExhausted(c)
  \/ \E b \in BOOLEAN : Encrypted(c, b) \/ HwInfo(c, b)
  \/ \E t \in {"host", "timer"} : Completes(c, t)

Run(t) == ~Idle(t) /\ (PairAttemptStep(t) \/ DriverStep(t))

AttemptNext ==
  \/ Get \/ UserCancels \/ WatchdogFires
  \/ \E c \in Cameras : Begin(c)
  \/ \E t \in Tasks : Run(t)
  \/ \E c \in BleCameras : Followed /\ Event(c)
  \/ \E c \in RcCameras : RcReply(c)

AttemptSpec == AttemptInit /\ [][AttemptNext]_attemptVars

\* An armed watchdog fires, and the two tasks an end depends on finish the call they
\* are in; nothing is asked of the host, pairer and work tasks.
Fairness ==
  WF_attemptVars(WatchdogFires) /\ WF_attemptVars(Run("http")) /\ WF_attemptVars(Run("timer"))

FairSpec == AttemptSpec /\ Fairness

-----------------------------------------------------------------------------
(***************************************************************************)
(* Properties.                                                             *)
(***************************************************************************)

\* A result once shown to the web page stays until the next attempt begins: no
\* late callback of the old attempt, and no watchdog, turns it into another.
ResultIsSticky == [][Terminal /\ begun' = begun => state' = state]_attemptVars

\* An attempt in flight is covered, once the timer could be created and unless the
\* end of an earlier attempt stops it: the watchdog runs, is about to be armed, or has
\* fired and is about to cancel.
WatchdogCovers ==
  InFlight /\ created /\ ~stolen =>
    armed \/ Pending("http", "arm") \/ Pending("timer", "cancel")

\* Every attempt covered so ends, though a connection that fails or a bond that is
\* refused is reported by nobody.
AttemptEnds == (InFlight /\ created) ~> (~InFlight \/ stolen)

\* No attempt stays in flight for ever: what has not ended within 20 s is forced to
\* fail (pair_attempt.c:30-33).
AttemptTimesOut == InFlight ~> ~InFlight

\* The camera of a cancelled or timed-out Wi-Fi attempt, though it had its slot for
\* good, is removed again, or its removal is still to be done; unless the attempt
\* began before the end of the one before it was cleaned up, which may cancel it before
\* the handler has added the camera.
CancelledRcForgotten ==
  error = "cancelled" /\ addr \in RcCameras /\ ~overlapped =>
    slot[addr] = "none" \/ \E t \in Tasks : Pending(t, "remove")

\* An attempt succeeds only when its own camera has been paired; reconnects of
\* other cameras do not use the machine (pair_attempt.c:5-7).
SuccessIsOwn ==
  [][InFlight /\ state' = "success" => slot[addr] = "complete"]_attemptVars
=============================================================================

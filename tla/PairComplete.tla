---------------------------- MODULE PairComplete ----------------------------
(***************************************************************************)
(* The Wi-Fi half of a first pairing (pair_complete.c) and the mode switch *)
(* it drives (wifi_manager.c).  A camera that has become ready over BLE    *)
(* asks for a pair-complete task; one task runs at a time, the others'     *)
(* slots wait in s_pending and the dying task starts the next one.  The    *)
(* task reads the camera's credentials over BLE, takes the access point    *)
(* down, joins the camera, registers over HTTP and brings the access point *)
(* back.  A failure ends the link and removes the slot.                    *)
(*                                                                         *)
(* The cameras are those of a first start, 1..N, camera c in slot c with   *)
(* the BLE context s_ctx[c]; all are of models that need the registration, *)
(* and one that is removed stays away.  A link handle stands for the       *)
(* camera: it is the same on every connection of it.                       *)
(***************************************************************************)
EXTENDS Naturals, Sequences

CONSTANTS N,             \* cameras paired at the start
          Joins,         \* PC_STA_RETRY_COUNT (3 in the code)
          Links,         \* bound: connections of all cameras
          SpawnMayFail,  \* xTaskCreate may run out of memory
          Gateways       \* may the camera's DHCP name a gateway, or not

ASSUME SizesAssumption == N \in Nat \ {0} /\ Joins \in Nat \ {0} /\ Links \in Nat
ASSUME ChoicesAssumption == SpawnMayFail \in BOOLEAN /\ Gateways \subseteq BOOLEAN

Cameras == 1..N
None    == 0

VARIABLES
  slots,     \* camera_manager's table: the cameras by slot
  ctxSlot,   \* slot of each BLE context
  ctxConn,   \* camera whose link each BLE context holds
  marked,    \* cameras whose slot is first_pair_complete
  links,     \* connections there have been
  up,        \* cameras whose link is up
  fresh,     \* up and still on the way to readiness
  busy, pending,   \* s_busy, s_pending
  task,      \* the task each BLE context has spawned
  reads, callback, done, value,
             \* GATT reads in flight, the one whose callback is past the
             \* generation check, s_read_done, s_read_buf
  target, mode, on, dialled, joined,
             \* s_target_mode; the driver: its mode, started, the camera it
             \* tries to join, the camera it is associated with
  events, apStarted, gotIp, lost, staBusy,
             \* the event loop's queue, the three event bits (gotIp with the
             \* camera and whether it named a gateway), s_sta_busy
  registered,   \* cameras that have the controller in their paired list
  shifted,   \* history: a removal moved another camera to a lower slot
  apLeft     \* history: the radio was left without its access point, by a join
             \* that found no gateway or a restart that was refused, and no one
             \* has begun to restore it since

camVars  == <<slots, ctxSlot, marked, registered, shifted>>
linkVars == <<ctxConn, links, up, fresh>>
gate     == <<busy, pending>>
bridge   == <<reads, callback, done, value>>
radio    == <<mode, on, dialled, joined, events>>
bits     == <<apStarted, gotIp, lost>>
wifi     == <<target, radio, bits, staBusy, apLeft>>
vars     == <<camVars, linkVars, gate, task, bridge, wifi>>

Nothing == [cam |-> None, what |-> "nothing"]
Read(c, what) == [cam |-> c, what |-> what]

\* at: what the task does next, or waits for.
NoTask == [at |-> "none", slot |-> None, conn |-> None, creds |-> {},
           left |-> 0, ok |-> FALSE, spawned |-> FALSE]

Init ==
    /\ slots = [c \in Cameras |-> c]
    /\ ctxSlot = [x \in Cameras |-> x] /\ ctxConn = [x \in Cameras |-> None]
    /\ marked = {} /\ registered = {} /\ shifted = FALSE
    /\ links = 0 /\ up = {} /\ fresh = {}
    /\ busy = FALSE /\ pending = {}
    /\ task = [x \in Cameras |-> NoTask]
    /\ reads = {} /\ callback = Nothing /\ done = FALSE /\ value = Nothing
    /\ target = "ap" /\ mode = "ap" /\ on = TRUE
    /\ dialled = None /\ joined = None
    /\ events = << >> /\ apStarted = TRUE /\ gotIp = Nothing /\ lost = FALSE
    /\ staBusy = FALSE /\ apLeft = FALSE

-----------------------------------------------------------------------------
(***************************************************************************)
(* The gate.                                                               *)
(***************************************************************************)

Spawned(x, ok) ==
    [at |-> IF ok THEN "start" ELSE "dying", slot |-> ctxSlot[x],
     conn |-> ctxConn[x], creds |-> {}, left |-> 0, ok |-> FALSE, spawned |-> ok]

\* Mutant: whoever comes spawns a task.
RunOver_NoGate(tasks, x) ==
    /\ busy' = TRUE
    /\ task' = [tasks EXCEPT ![x] = Spawned(x, TRUE)]
    /\ UNCHANGED pending

\* gopro_pair_complete_run for context x, over the other tasks' state.
RunOver(tasks, x) ==
    IF busy
    THEN /\ pending' = pending \cup {ctxSlot[x]}
         /\ task' = tasks
         /\ UNCHANGED busy
    ELSE /\ busy' = TRUE
         /\ \E ok \in {TRUE, ~SpawnMayFail} :
               task' = [tasks EXCEPT ![x] = Spawned(x, ok)]
         /\ UNCHANGED pending

\* release_busy_and_drain up to the unlock: the lowest deferred slot is next.
Releases(x) ==
    /\ task[x].at = "dying"
    /\ busy' = FALSE
    /\ \/ /\ pending = {}
          /\ task' = [task EXCEPT ![x].at = "released", ![x].slot = None]
          /\ UNCHANGED pending
       \/ \E i \in pending :
            /\ \A j \in pending : i <= j
            /\ pending' = pending \ {i}
            /\ task' = [task EXCEPT ![x].at = "released", ![x].slot = i]
    /\ UNCHANGED <<camVars, linkVars, bridge, wifi>>

\* The rest of it.  A call that could spawn no task cleans up after this.
Drains(x) ==
    LET next == task[x].slot
        rest == [task EXCEPT ![x] = IF task[x].spawned THEN NoTask
                    ELSE [task[x] EXCEPT !.at = "failing", !.slot = ctxSlot[x]]]
    IN  /\ task[x].at = "released"
        /\ IF next # None /\ ctxConn[next] # None
           THEN RunOver(rest, next)
           ELSE task' = rest /\ UNCHANGED gate
        /\ UNCHANGED <<camVars, linkVars, bridge, wifi>>

-----------------------------------------------------------------------------
(***************************************************************************)
(* The links.                                                              *)
(***************************************************************************)

SlotOf(c) == CHOOSE i \in 1..Len(slots) : slots[i] = c
IsPaired(c) == \E i \in 1..Len(slots) : slots[i] = c
ByConn(c) == {x \in Cameras : ctxConn[x] = c /\ \A y \in Cameras : ctxConn[y] = c => x <= y}

Connect(c) ==
    /\ IsPaired(c) /\ c \notin up /\ links < Links
    /\ ctxConn' = [ctxConn EXCEPT ![SlotOf(c)] = c]
    /\ links' = links + 1
    /\ up' = up \cup {c} /\ fresh' = fresh \cup {c}
    /\ UNCHANGED <<camVars, gate, task, bridge, wifi>>

Disconnect(c) ==
    /\ c \in up
    /\ up' = up \ {c} /\ fresh' = fresh \ {c}
    /\ ctxConn' = [x \in Cameras |-> IF x \in ByConn(c) THEN None ELSE ctxConn[x]]
    /\ UNCHANGED <<camVars, links, gate, task, bridge, wifi>>

\* The end of the connection sequence: a first pairing goes on over Wi-Fi.
Ready(x) ==
    /\ ctxConn[x] \in fresh /\ x \in ByConn(ctxConn[x])
    /\ fresh' = fresh \ {ctxConn[x]}
    /\ IF ctxSlot[x] <= Len(slots) /\ slots[ctxSlot[x]] \notin marked
       THEN RunOver(task, x)
       ELSE UNCHANGED <<gate, task>>
    /\ UNCHANGED <<camVars, ctxConn, links, up, bridge, wifi>>

-----------------------------------------------------------------------------
(***************************************************************************)
(* The task reads the credentials.  A read's generation is current as long *)
(* as no later read was begun.                                             *)
(***************************************************************************)

Goes(x, at) == task' = [task EXCEPT ![x].at = at]

Begins(x) ==
    /\ task[x].at = "start"
    /\ IF ctxConn[task[x].slot] # task[x].conn
       THEN Goes(x, "dying")
       ELSE Goes(x, "ask ssid") \/ Goes(x, "failing")
    /\ UNCHANGED <<camVars, linkVars, gate, bridge, wifi>>

\* A callback that was begun is assumed to end before the next read begins:
\* a time-out of seconds and the erasure of a slot lie between the two.
Asks(x, what) ==
    /\ task[x].at = IF what = "ssid" THEN "ask ssid" ELSE "ask password"
    /\ callback = Nothing
    /\ done' = FALSE
    /\ LET old == {[r EXCEPT !.now = FALSE] : r \in reads}
       IN  IF task[x].conn \in up
           THEN /\ reads' = old \cup {[of |-> Read(task[x].conn, what), now |-> TRUE]}
                /\ Goes(x, what)
           ELSE reads' = old /\ Goes(x, "failing")
    /\ UNCHANGED <<camVars, linkVars, gate, callback, value, wifi>>

\* Mutant: the callback does not look at its generation.
CallbackChecks_AnyRead(r) ==
    /\ r \in reads /\ callback = Nothing
    /\ reads' = reads \ {r}
    /\ callback' = r.of
    /\ UNCHANGED <<camVars, linkVars, gate, task, done, value, wifi>>

CallbackChecks(r) ==
    /\ r \in reads /\ callback = Nothing
    /\ reads' = reads \ {r}
    /\ callback' = IF r.now THEN r.of ELSE Nothing
    /\ UNCHANGED <<camVars, linkVars, gate, task, done, value, wifi>>

\* What was read, or an error: the only outcome once the link is down.
CallbackDelivers ==
    /\ callback # Nothing
    /\ \/ value' = Nothing
       \/ callback.cam \in up /\ value' = callback
    /\ done' = TRUE /\ callback' = Nothing
    /\ UNCHANGED <<camVars, linkVars, gate, task, reads, wifi>>

After(what) == IF what = "ssid" THEN "ask password" ELSE "band"

Receives(x, what) ==
    /\ task[x].at = what /\ done
    /\ done' = FALSE /\ value' = Nothing
    /\ task' = [task EXCEPT ![x].at = IF value = Nothing THEN "failing" ELSE After(what),
                            ![x].creds = @ \cup {value}]
    /\ UNCHANGED <<camVars, linkVars, gate, reads, callback, wifi>>

ReadTimesOut(x) ==
    /\ task[x].at \in {"ssid", "password"} /\ ~done
    /\ Goes(x, "failing")
    /\ UNCHANGED <<camVars, linkVars, gate, bridge, wifi>>

\* The camera is on 5 GHz, or says otherwise or nothing.
AsksBand(x) ==
    /\ task[x].at = "band"
    /\ \/ Goes(x, "failing")
       \/ task' = [task EXCEPT ![x].at = "join", ![x].left = Joins]
    /\ UNCHANGED <<camVars, linkVars, gate, bridge, wifi>>

-----------------------------------------------------------------------------
(***************************************************************************)
(* wifi_manager: joining and leaving.                                      *)
(***************************************************************************)

\* esp_wifi_stop
StopsRadio ==
    /\ on' = FALSE /\ dialled' = None /\ joined' = None
    /\ events' = events \o (IF on /\ mode = "ap" THEN <<[is |-> "stop"]>> ELSE << >>)
                        \o (IF joined # None THEN <<[is |-> "lost"]>> ELSE << >>)
    /\ UNCHANGED mode

\* A failed attempt is followed by another as long as one is left.
Retries(x) ==
    [task EXCEPT ![x].at = IF task[x].left > 1 THEN "join" ELSE "failing",
                 ![x].left = IF @ > 1 THEN @ - 1 ELSE 0]

\* The event loop is assumed to have caught up: seconds lie between two joins.
JoinBegins(x) ==
    /\ task[x].at = "join" /\ events = << >>
    /\ IF staBusy
       THEN task' = Retries(x) /\ UNCHANGED <<target, radio, bits, staBusy>>
       ELSE /\ staBusy' = TRUE /\ target' = "sta"
            /\ apStarted' = FALSE /\ gotIp' = Nothing /\ lost' = FALSE
            /\ StopsRadio
            /\ Goes(x, "joining")
    /\ UNCHANGED <<camVars, linkVars, gate, bridge, apLeft>>

\* Mode, configuration, start and connect: each may be refused.
JoinStarts(x) ==
    /\ task[x].at = "joining"
    /\ \/ Goes(x, "restore") /\ UNCHANGED radio
       \/ /\ mode' = "sta" /\ on' = TRUE
          /\ \E c \in Cameras :
               /\ Read(c, "ssid") \in task[x].creds
               /\ dialled' = IF Read(c, "password") \in task[x].creds THEN c ELSE None
          /\ UNCHANGED <<joined, events>>
          /\ Goes(x, "joined?")
    /\ UNCHANGED <<camVars, linkVars, gate, bridge, target, bits, staBusy, apLeft>>

\* The caller of sta_join takes a join without a gateway for a failure, and
\* does not leave the network again.
JoinSucceeds(x) ==
    /\ task[x].at = "joined?" /\ gotIp # Nothing
    /\ IF gotIp.what = "gateway" THEN Goes(x, "http") ELSE task' = Retries(x)
    /\ apLeft' = (gotIp.what # "gateway")
    /\ UNCHANGED <<camVars, linkVars, gate, bridge, target, radio, bits, staBusy>>

\* STA_DISCONNECTED, or nothing in time.
JoinFails(x) ==
    /\ task[x].at = "joined?" /\ gotIp = Nothing
    /\ Goes(x, "restore")
    /\ UNCHANGED <<camVars, linkVars, gate, bridge, wifi>>

\* Mutant: a request that could not be made leaves the radio where it is.
Registers_NoLeave(x) ==
    /\ task[x].at = "http"
    /\ \/ /\ joined # None
          /\ registered' = registered \cup {joined}
          /\ task' = [task EXCEPT ![x].at = "restore", ![x].ok = TRUE]
       \/ UNCHANGED registered /\ Goes(x, "failing")
    /\ UNCHANGED <<slots, ctxSlot, marked, shifted, linkVars, gate, bridge, wifi>>

\* The camera registers the controller, or the request fails; sta_leave
\* follows in any case.
Registers(x) ==
    /\ task[x].at = "http"
    /\ \/ /\ joined # None
          /\ registered' = registered \cup {joined}
          /\ task' = [task EXCEPT ![x].at = "restore", ![x].ok = TRUE]
       \/ /\ task' = [task EXCEPT ![x].at = "restore", ![x].left = 0]
          /\ UNCHANGED registered
    /\ UNCHANGED <<slots, ctxSlot, marked, shifted, linkVars, gate, bridge, wifi>>

\* bring_ap_back_up as far as esp_wifi_stop
RestoreBegins(x) ==
    /\ task[x].at = "restore"
    /\ target' = "ap" /\ apStarted' = FALSE /\ apLeft' = FALSE
    /\ StopsRadio
    /\ Goes(x, "restoring")
    /\ UNCHANGED <<camVars, linkVars, gate, bridge, gotIp, lost, staBusy>>

\* Mode, configuration and start.
RestoreStarts(x) ==
    /\ task[x].at = "restoring"
    /\ mode' = "ap" /\ on' = TRUE
    /\ events' = IF on /\ mode = "ap" THEN events ELSE Append(events, [is |-> "start"])
    /\ UNCHANGED <<target, dialled, joined, bits, staBusy, apLeft>>
    /\ Goes(x, "ap?")
    /\ UNCHANGED <<camVars, linkVars, gate, bridge>>

\* One of them is refused: bring_ap_back_up returns an error nobody looks at.
RestoreRefused(x) ==
    /\ task[x].at = "restoring"
    /\ mode' \in {mode, "ap"}
    /\ apLeft' = TRUE
    /\ UNCHANGED <<target, on, dialled, joined, events, bits, staBusy>>
    /\ Goes(x, "ap?")
    /\ UNCHANGED <<camVars, linkVars, gate, bridge>>

\* AP_STARTED, or nothing in time.
RestoreEnds(x) ==
    /\ task[x].at = "ap?"
    /\ staBusy' = FALSE
    /\ task' = IF task[x].ok THEN [task EXCEPT ![x].at = "mark"]
               ELSE Retries(x)
    /\ UNCHANGED <<camVars, linkVars, gate, bridge, target, radio, bits, apLeft>>

-----------------------------------------------------------------------------
(***************************************************************************)
(* wifi_manager: the event loop, and the driver behind it.                 *)
(***************************************************************************)

Associates ==
    /\ dialled # None /\ on /\ mode = "sta"
    /\ dialled' = None /\ joined' = dialled
    /\ \E named \in Gateways :
         events' = Append(events, [is |-> "got", ip |-> Read(dialled,
                                      IF named THEN "gateway" ELSE "none")])
    /\ UNCHANGED <<camVars, linkVars, gate, bridge, task, target, mode, on, bits, staBusy,
                   apLeft>>

\* The camera refuses, or is lost after it was joined.
Loses ==
    /\ dialled # None \/ joined # None
    /\ dialled' = None /\ joined' = None
    /\ events' = Append(events, [is |-> "lost"])
    /\ UNCHANGED <<camVars, linkVars, gate, bridge, task, target, mode, on, bits, staBusy,
                   apLeft>>

\* wifi_event_handler.  An access point that stops unasked is started again.
Handles ==
    /\ events # << >>
    /\ LET event == Head(events)
           again == event.is = "stop" /\ target = "ap" /\ ~on
       IN  /\ events' = Tail(events) \o (IF again /\ mode = "ap"
                                         THEN <<[is |-> "start"]>> ELSE << >>)
           /\ on' = (on \/ again)
           /\ apStarted' = (event.is = "start" \/ (apStarted /\ event.is # "stop"))
           /\ gotIp' = IF event.is = "got" THEN event.ip ELSE gotIp
           /\ lost' = (lost \/ event.is = "lost")
    /\ UNCHANGED <<camVars, linkVars, gate, bridge, task, target, mode, dialled,
                   joined, staBusy, apLeft>>

-----------------------------------------------------------------------------
(***************************************************************************)
(* How a task ends.                                                        *)
(***************************************************************************)

Marks(x) ==
    /\ task[x].at = "mark"
    /\ marked' = IF task[x].slot <= Len(slots)
                 THEN marked \cup {slots[task[x].slot]} ELSE marked
    /\ Goes(x, "dying")
    /\ UNCHANGED <<slots, ctxSlot, registered, shifted, linkVars, gate, bridge, wifi>>

\* Mutant: a failure leaves the slot behind.
Cleans_KeepsSlot(x) ==
    /\ task[x].at = "failing"
    /\ task' = IF task[x].spawned THEN [task EXCEPT ![x].at = "dying"]
               ELSE [task EXCEPT ![x] = NoTask]
    /\ UNCHANGED <<camVars, linkVars, gate, bridge, wifi>>

\* fail_and_cleanup: camera_manager removes the slot and moves the ones above
\* it down, with the slot index of their contexts; the link is told to end.
Cleans(x) ==
    LET s == task[x].slot
    IN  /\ task[x].at = "failing"
        /\ IF s <= Len(slots)
           THEN /\ slots' = [i \in 1..(Len(slots) - 1) |->
                                IF i < s THEN slots[i] ELSE slots[i + 1]]
                /\ ctxSlot' = [c \in Cameras |->
                       IF \E i \in (s + 1)..Len(slots) : slots[i] = c
                       THEN SlotOf(c) - 1 ELSE ctxSlot[c]]
                /\ marked' = marked \ {slots[s]}
                /\ fresh' = fresh \ {ctxConn[slots[s]]}
                /\ shifted' = (shifted \/ s < Len(slots))
           ELSE UNCHANGED <<slots, ctxSlot, marked, fresh, shifted>>
        /\ task' = IF task[x].spawned THEN [task EXCEPT ![x].at = "dying"]
                   ELSE [task EXCEPT ![x] = NoTask]
        /\ UNCHANGED <<registered, ctxConn, links, up, gate, bridge, wifi>>

-----------------------------------------------------------------------------

Gate(x) == Releases(x) \/ Drains(x)

Reads(x) ==
    \/ Begins(x) \/ ReadTimesOut(x) \/ AsksBand(x)
    \/ \E what \in {"ssid", "password"} : Asks(x, what) \/ Receives(x, what)

Joining(x) ==
    \/ JoinBegins(x) \/ JoinStarts(x) \/ JoinSucceeds(x) \/ JoinFails(x)
    \/ Registers(x) \/ RestoreBegins(x) \/ RestoreStarts(x)
    \/ RestoreRefused(x) \/ RestoreEnds(x)

TaskStep(x) == Gate(x) \/ Reads(x) \/ Joining(x) \/ Marks(x) \/ Cleans(x)

Next ==
    \/ \E c \in Cameras : Connect(c) \/ Disconnect(c)
    \/ \E x \in Cameras : Ready(x) \/ TaskStep(x)
    \/ \E r \in reads : CallbackChecks(r)
    \/ CallbackDelivers
    \/ Associates \/ Loses \/ Handles

Spec == Init /\ [][Next]_vars

\* The tasks, the event loop and the host task's callbacks run.
LiveSpec ==
    /\ Spec
    /\ \A x \in Cameras : WF_vars(TaskStep(x))
    /\ WF_vars(CallbackDelivers) /\ WF_vars(Handles)

-----------------------------------------------------------------------------

TaskStates == {"none", "start", "ask ssid", "ssid", "ask password", "password",
               "band", "join", "joining", "joined?", "http", "restore",
               "restoring", "ap?", "mark", "failing", "dying", "released"}

Values == [cam: Nat, what: {"nothing", "ssid", "password"}]

Tasks == [at: TaskStates, slot: 0..N, conn: Nat, creds: SUBSET Values,
          left: Nat, ok: BOOLEAN, spawned: BOOLEAN]

\* pair_complete.c, wifi_manager.c: the gate, the read bridge and the radio's
\* books stay within their types.
TypeOK ==
    /\ slots \in Seq(Cameras) /\ Len(slots) <= N
    /\ ctxSlot \in [Cameras -> 0..N] /\ ctxConn \in [Cameras -> 0..N]
    /\ busy \in BOOLEAN /\ pending \subseteq 0..N
    /\ task \in [Cameras -> Tasks]
    /\ reads \subseteq [of: Values, now: BOOLEAN]
    /\ callback \in Values /\ value \in Values /\ done \in BOOLEAN
    /\ target \in {"ap", "sta"} /\ mode \in {"ap", "sta"}
    /\ on \in BOOLEAN /\ apStarted \in BOOLEAN /\ staBusy \in BOOLEAN
    /\ apLeft \in BOOLEAN

Holds(x) == /\ task[x].at \notin {"none", "released"}
            /\ task[x].at = "failing" => task[x].spawned

\* pair_complete.c:s_busy: one pair-complete at a time, so that the read
\* bridge, the band query and the radio have one user, however the requests
\* of the host task and the draining tasks interleave.
OneAtATime ==
    \A x, y \in Cameras : Holds(x) /\ Holds(y) => x = y

\* pair_complete.c:read_handle_blocking, wifi_manager.c:wifi_manager_sta_join:
\* what goes out over HTTP goes to the camera the task is for: neither a late
\* read nor a late address of another attempt is taken for its own.
RegistersOwn ==
    \A x \in Cameras :
        /\ task[x].at \in {"band", "join", "joining", "joined?", "http"} =>
              task[x].creds = {Read(task[x].conn, "ssid"), Read(task[x].conn, "password")}
        /\ task[x].at = "http" => gotIp.cam = task[x].conn

ApUp == target = "ap" /\ on /\ mode = "ap" /\ apStarted

\* wifi_manager.c:bring_ap_back_up: whatever becomes of an attempt, the access
\* point the other cameras use comes back, unless the driver refused it or the
\* camera's network had no gateway (`apLeft`).
ApComesBack == []<>(ApUp \/ apLeft)

\* pair_complete.c:23: "always leave radio back in AP mode".  Not so where a
\* join found no gateway, after which nobody calls sta_leave, and where the
\* driver refuses to start.
AlwaysBackInApMode == []<>ApUp

\* pair_complete.c:fail_and_cleanup: no camera stays half paired: one whose
\* task has begun is registered on both sides, or its slot is removed, unless
\* its link goes down or a removal has moved the slots.
NoneHalfPaired ==
    \A c \in Cameras :
        (\E x \in Cameras : task[x].at = "start" /\ task[x].conn = c)
            ~> \/ c \in marked \cap registered
               \/ ~IsPaired(c) \/ c \notin up \/ shifted

\* pair_complete.c: "deferred slots eventually run rather than being dropped":
\* a camera that had to wait is paired or removed in the end, unless its link
\* goes down.
DeferredGetsTurn ==
    \A c \in Cameras :
        (\E i \in pending : ctxConn[i] = c)
            ~> (c \in marked \/ ~IsPaired(c) \/ c \notin up)
=============================================================================

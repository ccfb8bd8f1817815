------------------------------ MODULE SlotTable ------------------------------
(***************************************************************************)
(* camera_manager_wireless/camera_manager.c: the table of paired cameras   *)
(* in RAM and in NVS, with the cam_core record embedded in each slot and   *)
(* the array of BLE driver contexts beside it.                             *)
(*                                                                         *)
(* The web server's task removes and reorders slots; the NimBLE host task  *)
(* registers cameras, follows their links and marks them ready.  A section *)
(* under camera_manager's mutex is one action, except the compaction of a  *)
(* removal, which shifts one slot per action so that the order of its NVS  *)
(* writes shows; the host's sections wait while it holds the mutex.        *)
(* cam_core has a mutex of its own and waits for nobody here.              *)
(*                                                                         *)
(* A camera stands for its address, its connection handle and its model:   *)
(* the model field holds the camera that reported it.                      *)
(***************************************************************************)
EXTENDS Integers, SequencesExt

CONSTANTS
  Cams,        (* the cameras there are                                     *)
  NoCam,       (* no camera: an empty slot, an unknown model, no connection *)
  MaxSlots,    (* CAMERA_MAX_SLOTS                                          *)
  MaxRequests, (* bound: removals and reorderings asked for                 *)
  MaxConnects  (* bound: connections made                                   *)

ASSUME SlotTableAssumption ==
  /\ NoCam \notin Cams
  /\ MaxSlots \in Nat \ {0}
  /\ MaxRequests \in Nat /\ MaxConnects \in Nat

VARIABLES
  slots,       (* s_slots                                                   *)
  count,       (* s_slot_count                                              *)
  nvs,         (* the NVS namespaces cam_0, cam_1, ...                      *)
  registered,  (* the indices cam_core has a record for                     *)
  ctxs,        (* open_gopro_ble's s_ctx                                    *)
  linked,      (* cameras with a BLE connection                             *)
  web,         (* where the web task is in remove_slot or reorder_slots     *)
  host,        (* where the host task is in its handler                     *)
  kept,        (* auxiliary: the cameras a removal must leave in NVS        *)
  requests,    (* requests made, for the bound                              *)
  connects     (* connections made, for the bound                           *)

tableVars == <<slots, count, registered>>
driverVars == <<ctxs, linked>>
bounds == <<requests, connects>>
vars == <<slots, count, nvs, registered, ctxs, linked, web, host, kept,
          bounds>>

Index == 0..(MaxSlots - 1)
NoSlot == -1
Used == 0..(count - 1)

(***************************************************************************)
(* A slot: wifi is wifi_status = READY, which for BLE cameras means ready; *)
(* ready and ctx are fields of cam_core's record, ctx being the context its  *)
(* driver is called with (NoSlot: no driver yet).                          *)
(***************************************************************************)
Slot == [cam: Cams \cup {NoCam}, model: Cams \cup {NoCam},
         ble: {"none", "connected", "ready"}, handle: Cams \cup {NoCam},
         wifi: BOOLEAN, ready: BOOLEAN, ctx: Index \cup {NoSlot}]

NewSlot(c) == [cam |-> c, model |-> NoCam, ble |-> "none", handle |-> NoCam,
               wifi |-> FALSE, ready |-> FALSE, ctx |-> NoSlot]
EmptySlot == NewSlot(NoCam)

Record == [cam: Cams \cup {NoCam}, model: Cams \cup {NoCam}]
NoRecord == [cam |-> NoCam, model |-> NoCam]
RecordOf(s) == [cam |-> s.cam, model |-> s.model]

\* stage: what the readiness sequence of a connection waits for.
Context == [conn: Cams \cup {NoCam}, slot: Index,
            stage: {"none", "asking", "identified"}]

WebSteps == {"idle", "teardown", "snapshot", "disarm", "erase", "shift",
             "clear", "unregister", "dropped", "rearm",
             "settle", "permute", "rewrite"}
HostSteps == {"idle", "attach", "model", "save", "core", "unready"}

WebIdle == [op |-> "idle", slot |-> 0, next |-> 0, was |-> {}, order |-> <<>>]
HostIdle == [op |-> "idle", slot |-> 0, cam |-> NoCam]

Orders(n) == Bijection(0..(n - 1), 0..(n - 1))

WebPlace == [op: WebSteps, slot: Index, next: 0..MaxSlots, was: SUBSET Index,
             order: UNION {Orders(n) : n \in 0..MaxSlots}]
HostPlace == [op: HostSteps, slot: Index, cam: Cams \cup {NoCam}]

TypeOK ==
  /\ slots \in [Index -> Slot]
  /\ count \in 0..MaxSlots
  /\ nvs \in [Index -> Record]
  /\ registered \subseteq Index
  /\ ctxs \in [Index -> Context]
  /\ linked \subseteq Cams
  /\ web \in WebPlace
  /\ host \in HostPlace
  /\ kept \subseteq Cams
  /\ requests \in 0..MaxRequests /\ connects \in 0..MaxConnects

\* A controller with no camera stored, started.
Init ==
  /\ slots = [i \in Index |-> EmptySlot]
  /\ count = 0
  /\ nvs = [i \in Index |-> NoRecord]
  /\ registered = {}
  /\ ctxs = [i \in Index |-> [conn |-> NoCam, slot |-> i, stage |-> "none"]]
  /\ linked = {}
  /\ web = WebIdle /\ host = HostIdle
  /\ kept = {}
  /\ requests = 0 /\ connects = 0

-----------------------------------------------------------------------------
(***************************************************************************)
(* cam_core, by index                                                      *)
(***************************************************************************)

\* cam_core_slot_set_ready; the poll timer comes and goes with it.
SetReady(s, i, ready) ==
  IF i \notin registered THEN s ELSE [s EXCEPT ![i].ready = ready]

\* cam_core_teardown_slot, then the driver's teardown of its context.
Torn(s, i) == SetReady(s, i, FALSE)

TornCtx(c, s, i) ==
  IF i \notin registered \/ s[i].ctx = NoSlot THEN c
  ELSE [c EXCEPT ![s[i].ctx].stage = "none"]

\* update_slot_index: the context learns the position its slot moved to.
Told(c, s, i) ==
  IF i \notin registered \/ s[i].ctx = NoSlot THEN c
  ELSE [c EXCEPT ![s[i].ctx].slot = i]

-----------------------------------------------------------------------------
(***************************************************************************)
(* camera_manager_remove_slot, by the web task                             *)
(***************************************************************************)

WebGoes(op, i) == web' = [web EXCEPT !.op = op, !.next = i]

RemoveSlot(i) ==
  /\ web.op = "idle" /\ requests < MaxRequests /\ i \in Used
  /\ web' = [WebIdle EXCEPT !.op = "teardown", !.slot = i]
  /\ kept' = {slots[j].cam : j \in {k \in Used \ {i} :
                slots[k].model # NoCam /\ nvs[k] = RecordOf(slots[k])}}
  /\ requests' = requests + 1
  /\ UNCHANGED <<tableVars, nvs, driverVars, host, connects>>

Teardown ==
  /\ web.op = "teardown"
  /\ slots' = Torn(slots, web.slot)
  /\ ctxs' = TornCtx(ctxs, slots, web.slot)
  /\ WebGoes("snapshot", 0)
  /\ UNCHANGED <<count, registered, nvs, linked, host, kept, bounds>>

\* Which of the higher slots are ready, so that their timers can be moved.
Snapshot ==
  /\ web.op = "snapshot"
  /\ web' = [web EXCEPT !.op = "disarm", !.next = web.slot + 1,
               !.was = {j \in Used : j > web.slot /\ slots[j].wifi}]
  /\ UNCHANGED <<tableVars, nvs, driverVars, host, kept, bounds>>

Disarm ==
  /\ web.op = "disarm"
  /\ IF \E j \in web.was : j >= web.next
     THEN LET j == CHOOSE k \in web.was : k >= web.next
                     /\ \A l \in web.was : l >= web.next => k <= l
          IN /\ slots' = SetReady(slots, j, FALSE)
             /\ WebGoes("disarm", j + 1)
     ELSE /\ WebGoes("erase", 0)
          /\ UNCHANGED slots
  /\ UNCHANGED <<count, registered, nvs, driverVars, host, kept, bounds>>

\* Takes the mutex.
\* Mutant: the namespaces to be rewritten are all erased first.
Erase_Upwards ==
  /\ web.op = "erase"
  /\ nvs' = [j \in Index |-> IF j >= web.slot THEN NoRecord ELSE nvs[j]]
  /\ WebGoes("shift", web.slot)
  /\ UNCHANGED <<tableVars, driverVars, host, kept, bounds>>

Erase ==
  /\ web.op = "erase"
  /\ nvs' = [nvs EXCEPT ![web.slot] = NoRecord]
  /\ WebGoes("shift", web.slot)
  /\ UNCHANGED <<tableVars, driverVars, host, kept, bounds>>

\* Mutant: the shifted record is not stored at its new index.
Shift_RamOnly ==
  /\ web.op = "shift" /\ web.next < count - 1
  /\ LET i == web.next IN
       /\ slots' = [slots EXCEPT ![i] = slots[i + 1]]
       /\ ctxs' = Told(ctxs, slots', i)
       /\ WebGoes("shift", i + 1)
  /\ UNCHANGED <<count, registered, nvs, linked, host, kept, bounds>>

Shift ==
  /\ web.op = "shift" /\ web.next < count - 1
  /\ LET i == web.next IN
       /\ slots' = [slots EXCEPT ![i] = slots[i + 1]]
       /\ ctxs' = Told(ctxs, slots', i)
       /\ nvs' = IF slots[i + 1].model = NoCam THEN nvs
                 ELSE [nvs EXCEPT ![i] = RecordOf(slots[i + 1])]
       /\ WebGoes("shift", i + 1)
  /\ UNCHANGED <<count, registered, linked, host, kept, bounds>>

\* Releases the mutex.
Clear ==
  /\ web.op = "shift" /\ web.next = count - 1
  /\ slots' = [slots EXCEPT ![count - 1] = EmptySlot]
  /\ count' = count - 1
  /\ nvs' = [nvs EXCEPT ![count - 1] = NoRecord]
  /\ WebGoes("unregister", 0)
  /\ UNCHANGED <<registered, driverVars, host, kept, bounds>>

\* cam_core_unregister_slot of what is now the count: its teardown, then the
\* registry entry, under cam_core's mutex a second time.
UnregisterTop ==
  /\ web.op = "unregister"
  /\ slots' = Torn(slots, count)
  /\ ctxs' = IF count \in Index THEN TornCtx(ctxs, slots, count) ELSE ctxs
  /\ WebGoes("dropped", count)
  /\ UNCHANGED <<count, registered, nvs, linked, host, kept, bounds>>

DropTop ==
  /\ web.op = "dropped"
  /\ registered' = registered \ {web.next}
  /\ WebGoes("rearm", 0)
  /\ UNCHANGED <<slots, count, nvs, driverVars, host, kept, bounds>>

Rearm ==
  /\ web.op = "rearm"
  /\ IF \E j \in web.was : j >= web.next
     THEN LET j == CHOOSE k \in web.was : k >= web.next
                     /\ \A l \in web.was : l >= web.next => k <= l
          IN /\ slots' = SetReady(slots, j - 1, TRUE)
             /\ WebGoes("rearm", j + 1)
             /\ UNCHANGED kept
     ELSE /\ web' = WebIdle /\ kept' = {}
          /\ UNCHANGED slots
  /\ UNCHANGED <<count, registered, nvs, driverVars, host, bounds>>

-----------------------------------------------------------------------------
(***************************************************************************)
(* camera_manager_reorder_slots, by the web task                           *)
(***************************************************************************)

\* Refused unless it is a permutation of the whole table, or if a camera is
\* ready or in the course of connecting.
Reorder(p) ==
  /\ web.op = "idle" /\ requests < MaxRequests /\ count > 0
  /\ \A i \in Used : ~slots[i].wifi /\ slots[i].ble # "connected"
  /\ web' = [WebIdle EXCEPT !.op = "settle", !.order = p]
  /\ requests' = requests + 1
  /\ UNCHANGED <<tableVars, nvs, driverVars, host, kept, connects>>

Settle ==
  /\ web.op = "settle"
  /\ IF web.next \in DOMAIN web.order
     THEN LET i == web.order[web.next] IN
            /\ slots' = Torn(slots, i)
            /\ ctxs' = TornCtx(ctxs, slots, i)
            /\ WebGoes("settle", web.next + 1)
     ELSE /\ WebGoes("permute", 0)
          /\ UNCHANGED <<slots, ctxs>>
  /\ UNCHANGED <<count, registered, nvs, linked, host, kept, bounds>>

Permute ==
  /\ web.op = "permute"
  /\ slots' = [i \in Index |-> IF i \in DOMAIN web.order
                               THEN slots[web.order[i]] ELSE slots[i]]
  /\ ctxs' = [k \in Index |->
       [ctxs[k] EXCEPT !.slot =
          IF \E i \in DOMAIN web.order \cap registered : slots'[i].ctx = k
          THEN CHOOSE i \in DOMAIN web.order \cap registered :
                 /\ slots'[i].ctx = k
                 /\ \A j \in DOMAIN web.order \cap registered :
                      slots'[j].ctx = k => j <= i
          ELSE @]]
  /\ WebGoes("rewrite", 0)
  /\ UNCHANGED <<count, registered, nvs, linked, host, kept, bounds>>

\* After the mutex is released, and whatever the model.
Rewrite ==
  /\ web.op = "rewrite"
  /\ IF web.next \in DOMAIN web.order
     THEN /\ nvs' = [nvs EXCEPT ![web.next] = RecordOf(slots[web.next])]
          /\ WebGoes("rewrite", web.next + 1)
     ELSE /\ web' = WebIdle
          /\ UNCHANGED nvs
  /\ UNCHANGED <<tableVars, driverVars, host, kept, bounds>>

-----------------------------------------------------------------------------
(***************************************************************************)
(* The host task: registration, links and readiness                        *)
(***************************************************************************)

Unlocked == web.op # "shift"

\* find_by_mac: the first slot of the table with this address.
SlotOf(c) ==
  IF \E i \in Used : slots[i].cam = c
  THEN CHOOSE i \in Used :
         slots[i].cam = c /\ \A j \in Used : slots[j].cam = c => i <= j
  ELSE NoSlot

\* A camera connects and its link is encrypted.  Unknown, it is appended to
\* the table; only the host registers BLE cameras, so nothing can register it
\* between the look-up and the append.  With the table full it is dropped.
\* Mutant: the look-up is left out.
Connect_NoLookUp(c) ==
  /\ host.op = "idle" /\ Unlocked
  /\ c \notin linked /\ connects < MaxConnects
  /\ count < MaxSlots
  /\ slots' = [slots EXCEPT ![count] = NewSlot(c)]
  /\ count' = count + 1
  /\ registered' = registered \cup {count}
  /\ host' = [op |-> "attach", slot |-> count, cam |-> c]
  /\ linked' = linked \cup {c}
  /\ connects' = connects + 1
  /\ UNCHANGED <<nvs, ctxs, web, kept, requests>>

Connect(c) ==
  /\ host.op = "idle" /\ Unlocked
  /\ c \notin linked /\ connects < MaxConnects
  /\ IF SlotOf(c) # NoSlot
     THEN /\ host' = [op |-> "attach", slot |-> SlotOf(c), cam |-> c]
          /\ UNCHANGED tableVars
     ELSE /\ count < MaxSlots
          /\ slots' = [slots EXCEPT ![count] = NewSlot(c)]
          /\ count' = count + 1
          /\ registered' = registered \cup {count}
          /\ host' = [op |-> "attach", slot |-> count, cam |-> c]
  /\ linked' = linked \cup {c}
  /\ connects' = connects + 1
  /\ UNCHANGED <<nvs, ctxs, web, kept, requests>>

\* The context is chosen by the slot number found; the question for the
\* hardware information goes out.
Attach ==
  /\ host.op = "attach" /\ Unlocked
  /\ ctxs' = [ctxs EXCEPT ![host.slot].conn = host.cam,
                          ![host.slot].stage = "asking"]
  /\ slots' = IF host.slot \notin Used THEN slots
              ELSE [slots EXCEPT ![host.slot].handle = host.cam,
                                 ![host.slot].ble = "connected"]
  /\ host' = HostIdle
  /\ UNCHANGED <<count, registered, nvs, linked, web, kept, bounds>>

\* gopro_on_hw_info_ok, for the slot number its context holds and a supported
\* model; a frozen one makes the host task a second remover, which is left out.
Identify(k) ==
  /\ host.op = "idle" /\ ctxs[k].stage = "asking" /\ ctxs[k].conn # NoCam
  /\ host' = [op |-> "model", slot |-> ctxs[k].slot, cam |-> ctxs[k].conn]
  /\ ctxs' = [ctxs EXCEPT ![k].stage = "identified"]
  /\ UNCHANGED <<tableVars, nvs, linked, web, kept, bounds>>

\* set_model attaches the driver of the first model the slot gets, with the
\* context of that index.
SetModel ==
  /\ host.op = "model" /\ Unlocked
  /\ LET i == host.slot
         attach == i \in registered /\ slots[i].ctx = NoSlot
     IN IF i \notin Used THEN UNCHANGED <<slots, ctxs>>
        ELSE /\ slots' = [slots EXCEPT ![i].model = host.cam,
                                       ![i].ctx = IF attach THEN i ELSE @]
             /\ ctxs' = IF i \notin registered \/ ~attach THEN ctxs
                        ELSE [ctxs EXCEPT ![i].slot = i]
  /\ host' = [host EXCEPT !.op = "save"]
  /\ UNCHANGED <<count, registered, nvs, linked, web, kept, bounds>>

\* save_slot, and on_ble_ready.
SaveSlot ==
  /\ host.op = "save" /\ Unlocked
  /\ LET i == host.slot
     IN IF i \notin Used THEN UNCHANGED <<slots, nvs>>
        ELSE /\ nvs' = IF slots[i].model = NoCam THEN nvs
                       ELSE [nvs EXCEPT ![i] = RecordOf(slots[i])]
             /\ slots' = [slots EXCEPT ![i].ble = "ready"]
  /\ host' = HostIdle
  /\ UNCHANGED <<count, registered, driverVars, web, kept, bounds>>

\* complete_connection_sequence: on_camera_ready, under one mutex and then
\* under the other.
CameraReady(k) ==
  /\ host.op = "idle" /\ Unlocked
  /\ ctxs[k].stage = "identified" /\ ctxs[k].conn # NoCam
  /\ ctxs' = [ctxs EXCEPT ![k].stage = "none"]
  /\ LET i == ctxs[k].slot
     IN IF i \notin Used THEN UNCHANGED <<slots, host>>
        ELSE /\ slots' = [slots EXCEPT ![i].wifi = TRUE]
             /\ host' = [op |-> "core", slot |-> i, cam |-> NoCam]
  /\ UNCHANGED <<count, registered, nvs, linked, web, kept, bounds>>

CoreReady ==
  /\ host.op = "core"
  /\ slots' = SetReady(slots, host.slot, TRUE)
  /\ host' = HostIdle
  /\ UNCHANGED <<count, registered, nvs, driverVars, web, kept, bounds>>

\* gopro_on_disconnected finds the context by the connection and
\* on_ble_disconnected_by_handle the slot by its handle.
Disconnect(c) ==
  /\ host.op = "idle" /\ Unlocked
  /\ c \in linked
  /\ linked' = linked \ {c}
  /\ IF \E k \in Index : ctxs[k].conn = c
     THEN LET k == CHOOSE n \in Index : ctxs[n].conn = c
                     /\ \A m \in Index : ctxs[m].conn = c => n <= m
              holders == {i \in Used : slots[i].handle = c}
          IN /\ ctxs' = [ctxs EXCEPT ![k].conn = NoCam, ![k].stage = "none"]
             /\ IF holders = {} THEN UNCHANGED <<slots, host>>
                ELSE LET i == CHOOSE n \in holders : \A m \in holders : n <= m
                         ours == i \in registered /\ slots[i].ctx # NoSlot
                     IN /\ slots' = [slots EXCEPT
                              ![i].handle = NoCam, ![i].ble = "none",
                              ![i].wifi = IF ours THEN FALSE ELSE @]
                        /\ host' = IF ours /\ slots[i].wifi
                             THEN [op |-> "unready", slot |-> i, cam |-> NoCam]
                             ELSE host
     ELSE UNCHANGED <<slots, ctxs, host>>
  /\ UNCHANGED <<count, registered, nvs, web, kept, bounds>>

\* set_ready with the index found before the unlock.
CoreUnready ==
  /\ host.op = "unready"
  /\ slots' = SetReady(slots, host.slot, FALSE)
  /\ host' = HostIdle
  /\ UNCHANGED <<count, registered, nvs, driverVars, web, kept, bounds>>

-----------------------------------------------------------------------------
WebStep ==
  \/ \E i \in Index : RemoveSlot(i)
  \/ Teardown \/ Snapshot \/ Disarm \/ Erase \/ Shift \/ Clear
  \/ UnregisterTop \/ DropTop \/ Rearm
  \/ \E p \in Orders(count) : Reorder(p)
  \/ Settle \/ Permute \/ Rewrite

HostStep ==
  \/ \E c \in Cams : Connect(c) \/ Disconnect(c)
  \/ Attach \/ SetModel \/ SaveSlot \/ CoreReady \/ CoreUnready
  \/ \E k \in Index : Identify(k) \/ CameraReady(k)

Next == WebStep \/ HostStep

Spec == Init /\ [][Next]_vars

\* The same tasks taking turns: none begins while the other is at work.
InTurns ==
  \/ host.op = "idle" /\ WebStep
  \/ web.op = "idle" /\ HostStep

TurnsSpec == Init /\ [][InTurns]_vars

-----------------------------------------------------------------------------
(***************************************************************************)
(* Properties                                                              *)
(***************************************************************************)

\* The table is a Roster.  While the compaction runs, the index it has come
\* to is a hole: the camera removed at first, then a copy of the one above.
Listed == [i \in 1..count |-> slots[i - 1].cam]
InOrder == IF web.op = "shift" THEN RemoveAt(Listed, web.next + 1) ELSE Listed

Roster == INSTANCE Roster WITH roster <- InOrder

\* Whatever the two tasks interleave, registering appends one camera that was
\* not there, a removal takes out exactly one and keeps the order of the
\* others, and reordering loses and doubles none (register_new, remove_slot,
\* reorder_slots).
ImplementsRoster == Roster!Spec

\* With both tasks at rest and every camera identified, the next start would
\* load the table that is in RAM (load_slot_from_nvs against save_slot, the
\* rewriting in remove_slot and in reorder_slots).
BootLoadsTable ==
  (web.op = "idle" /\ host.op = "idle"
   /\ \A i \in Used : slots[i].model # NoCam)
  => \A i \in Index :
       nvs[i] = IF i \in Used THEN RecordOf(slots[i]) ELSE NoRecord

\* Power may fail anywhere in a removal: every other camera that was stored
\* when it began is still in some namespace (the order of the NVS writes in
\* remove_slot).
RemovalKeepsOthers == \A c \in kept : \E i \in Index : nvs[i].cam = c

\* With both tasks at rest, a driver on every slot and only cameras of the
\* table connected, the driver of a ready slot commands the camera of that
\* slot, or none (update_slot_index is to keep contexts and slots together,
\* docs/design/camera-manager.md:2053 and :2081).
ReadySlotReachesItsCamera ==
  (/\ web.op = "idle" /\ host.op = "idle"
   /\ \A i \in Used : slots[i].ctx # NoSlot
   /\ linked \subseteq {slots[i].cam : i \in Used})
  => \A i \in Used :
       slots[i].ready => ctxs[slots[i].ctx].conn \in {slots[i].cam, NoCam}
=============================================================================

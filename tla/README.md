# A TLA+ model of the ESP32 GoPro controller

The firmware listens to a RaceCapture logger on a CAN bus and makes GoPro
cameras record when the logger logs.  Cameras are reached over BLE (Open GoPro),
over Wi-Fi (emulating the GoPro Wi-Fi remote) or over USB.  This directory holds
TLA+ modules of its core logic, TLC configurations that check them on small
instances, and proofs checked by TLAPS.

## Inventory: the parts of the system

| Part | State it keeps | Operations | Talks to |
|---|---|---|---|
| `cam_core` | slot registry; per slot `ready`, `desired`, `grace_until_us`, `poll_timer`, driver | register, attach, teardown, unregister, set_ready, set_desired_slot/all, poll timer | drivers (vtable), CAN, HTTP, shutdown |
| `shutdown_manager` | state, failed mask, done count | request; one task per slot | cam_core |
| `can_manager` | logging state, UTC anchor, channel table, TX gate | receive task, watchdog, 5 Hz transmission, bus-off recovery | cam_core, shutdown_manager, NVS |
| `camera_manager_wireless` | slot table (RAM and NVS); the pair attempt | register, remove, reorder, save; begin, advance, fail, cancel | cam_core, drivers, web server |
| `ble_core` | `s_connecting`, `s_discovering` | scan, connect, bond | NimBLE host, open_gopro_ble |
| `open_gopro_ble` | per slot connection, GATT tables, readiness timers, status cache, reassembly buffers; the pair-complete gate and read bridge | connect, discover, subscribe, identify, handshakes, pair-complete, shutter, status | ble_core, camera_manager, wifi_manager |
| `gopro_wifi_rc` | per slot address, readiness, timers, status cache; work and shutter queues | station events, keepalive, promote, identify, shutter broadcast | wifi_manager, camera_manager |
| `wifi_manager` | target mode, station table | AP up, STA join/leave | gopro_wifi_rc, pair-complete |
| `ota_io`, `api_ota`, `recovery` | stored SHA per partition, boot slots, session flags | begin, write, finish, abort, commit, boot-main, factory reset | flash, NVS, boot loader |
| `log_ring` | ring of log bytes | write, stream, clear | logging hook, HTTP |
| `http_server_*`, web UI | — | one handler per endpoint | all of the above |
| wired app | one USB camera, one worker task | link up/down, shutter, status poll | cam_core |

The controller runs on FreeRTOS.  Its tasks are the NimBLE host task, the
esp_timer task, the CAN receive task, the web server's task, the RC driver's
work, shutter and UDP tasks, one task per slot during a shutdown and one
pair-complete task.  They share the slot table and cam_core under recursive
mutexes, and the pair attempt under a mutex of its own.

Hard behaviours, listed line by line under `hazards` in PROJECT.json:

* **interleaving** of dispatch paths, of slot tasks, of pairing callbacks;
* **time of check and time of use**: the shutdown gate of the CAN handler, the
  values `pair_attempt_cancel` reads before it unlocks, the status cache a
  shutdown polls;
* **unreliable delivery**: shutter commands over UDP or a BLE write without
  response, reports that arrive late;
* **timeouts**: the grace window, the CAN watchdog, the pairing watchdog;
* **partial failure**: tasks and timers that cannot be created;
* **bounded queues** that drop what finds them full: CAN frames and bus states
  from interrupts, the RC driver's work;
* **crashes** while NVS is rewritten, or between erase and write of an image.

What makes each part correct: intent reaches the cameras and is not
contradicted (cam_core); a shutdown ends, and reports what failed
(shutdown_manager); an attempt to pair always ends, once, with its own result
(pair attempt); the slot table in RAM, the one in NVS and the drivers' contexts
name the same cameras (slot table); a connection is subscribed where it must be,
ends its sequence once and leaves nothing behind, and a first pairing has the
radio to itself and gives it back (open_gopro_ble, wifi_manager); a Wi-Fi camera
that answers is ready and one that does not is given up (gopro_wifi_rc); a
silent bus releases the cameras and a live time wins over a stored one
(can_manager); an erased slot is never taken for a written one (ota_io).

## Modules

| Module | Models | State ↔ code |
|---|---|---|
| `CamCore` | `cam_core.c`, `mismatch.c`, and below the driver seam the two wireless drivers and the cameras | `desired`, `ready`, `grace`, `timer` are the fields of `cam_core_slot_t`; `stray` is a timer detached under the mutex and deleted after it; `cached`, `queue`, `link` are the driver's; `camera`, `reply` the camera's |
| `ShutdownPhases` | what a shutdown promises: asked, running over a fixed set of slots, complete when all have finished | abstract |
| `ShutdownManager` | `shutdown_manager.c` | `state`, `failedMask`, `doneCount`, `atStart` are the statics; `request`/`next` the place of the requesting task; `task`, `failed` the place and the local flag of each slot task |
| `ShutdownCameras` | the shutdown manager (INSTANCE) over cam_core (EXTENDS), with the CAN receive task, its watchdog, the web server's `/api/shutter` and the drivers' link events | `rx`, `web` are a frame and a request past their gates and not yet applied; `closing` the links told to close |
| `PairAttempt` | `pair_attempt.c` and the five tasks that drive it | `state`, `addr`, `error`, `conn` are `s_info` and `s_conn_handle`; `created`, `armed` the watchdog's timer, which may not be had; `stolen` (another attempt's disarm stopped it) and `overlapped` (begun before the last was cleaned up) are histories; `pc[t]` what task `t` has still to do in the call it is in |
| `Roster` | what the slot table promises: a list of different cameras that are added at the end, taken out, or put in another order | abstract |
| `SlotTable` | `camera_manager.c` with the driver contexts of `open_gopro_ble/driver.c` | `slots`, `count` are `s_slots`, `s_slot_count`; `nvs` the namespaces `cam_N`; `registered` cam_core's registry; `ctxs` the driver's `s_ctx`; `web` and `host` the place of the web server's and the NimBLE host's task in the call each is in |
| `BleConnection` | `pairing.c`, `gatt.c`, `readiness.c` with the timers of `control.c` and `status.c`: one camera's connections | `svcCur`, `dscCur`, `subscrCur`, `notify`, `last` are the per-slot statics of `gatt.c`; `pending` the three atomic flags, `armed` the timers; `at` what the host and timer task are in the middle of |
| `PairComplete` | `pair_complete.c` over `wifi_manager.c` | `busy`, `pending` are the gate; `reads`, `callback`, `done`, `value` the read bridge, a read being stale when its generation is not the present one; `task[x].at` the place of the task of context `x`; `target`, `staBusy`, the event bits and the radio are `wifi_manager.c`'s and the driver's; `apLeft` remembers that the radio was left without its access point |
| `RcDriver` | `gopro_wifi_rc`: one Wi-Fi remote camera | `q` is `s_work_queue`; `ip`, `ready`, `keep`, `wol`, `parsed`, `ident` the context; `heard` the age of `last_response_tick`; `rx` the receive task between stamping an answer and posting its promotion; `missed` remembers that nothing which told the address found room |
| `CanBus` | `can_manager.c` at run time | `stateq`, `rxq` are the two queues; `rx`, `timer`, `recovery` the place of each task; `logging`, `armed`, `txEnabled` the statics; `auto` is what POST `/api/auto-control` last set; `lost` remembers a dropped bus-off event, `left` an intent that the watchdog left because automatic control was off |
| `CanStore` | the time and the channel identifiers of `can_manager.c`, and `handler_post_can` | `anchor` is `s_utc` by its source, `saved` the NVS copy; `running` and `stored` the identifiers of the session and of the NVS; `mixed` remembers that the NVS may hold identifiers of two requests, or part of one |
| `OtaImage` | `ota_io` under the handlers of both apps, with the boot loader | `flash` what a partition holds, `stored` the SHA in NVS, `boot`, `entry` otadata, `upload` the upload in progress, `appUp`, `uiUp` the session flags; `stale` the partitions whose SHA has outlived their contents |
| `MC*` | instances for TLC; `MCCamCore` also has the reduced next-state relation `WaveNext` | |
| `*Proofs` | theorems about the module of the same name; `CamCoreProofs` also about `ShutdownCameras`, `CameraManagerProofs` about `SlotTable` and `PairAttempt`, `CanManagerProofs` about `CanBus` and `CanStore` | |

Every section the code runs under a mutex is one action; work done after the
mutex is released is an action of its own.  In `PairAttempt` this is explicit: a
call is a sequence of operations in `pc[t]`, each step takes the first one and
may put others in its place (an advance to SUCCESS is followed by `disarm`, a
cancellation by what `CleanUp` computes from the values read under the mutex).
`CanBus`, `PairComplete`, `RcDriver` and `BleConnection` likewise keep the place of
each task, and cut its work where another task could see it half done: before
and after an unlock, a queue, an atomic exchange or a wait.

In `SlotTable` the compaction of a removal is the exception: it holds the mutex
throughout, but shifts one slot per action, so that the states between two NVS
writes are there to be examined; the host's sections that need the mutex wait,
those of cam_core, which has a mutex of its own, do not.

The modules meet where the code does.  `ShutdownCameras` composes the shutdown with
cam_core.  The end of `BleConnection`'s sequence (`Completes`) is what makes a slot
ready in `SlotTable`, asks for the task of `PairComplete`, and advances the attempt
of `PairAttempt`; the bounce of `PairComplete` is what makes a camera of `RcDriver`
leave and come back (`Bounce`); `CanBus` requests the shutdown and broadcasts the
intent that `CamCore` applies.  Composing all of them is beyond TLC, so each has
the others' steps as its environment.

Abstractions.  Time is counted only for the grace window (`grace`, in clock
units); a watchdog may fire whenever it is armed, except that the watchdog of an attempt
takes longer than the web handler that began it, and that the CAN watchdog does not
run out while the receive task is between restarting it and driving the intent.  Readiness of a camera is a boolean, a
camera's address is the camera itself, error messages are left out.  A command is
lost, executed, or dropped by a full queue; a report carries the camera's state
at the time it was sampled, or, of an RC camera, that it is switched off.  Drivers
differ in three ways: the BLE driver sets its cache when a command is accepted,
the RC driver broadcasts a wave to all its cameras, and an RC camera may take a
second START as a stop (`FlipOnRestart`, from the comment at
`gopro_wifi_rc/driver.c:96`).  In `BleConnection` an attribute is its kind, and a
characteristic is one handle, since only the order of handles matters to the
search for CCCDs.  In `PairComplete` the band query is one step (its bridge is that
of the reads), a link handle is the camera.  In `OtaImage` an image is its SHA and
its kind (firmware, user interface, a file system without a page, another file), and
a partition holds nothing, the beginning or the whole of one.  In `CanStore` a time is
its source.

## Runs

| Run | Question | Bounds |
|---|---|---|
| `CamCore_live` | does the grace window only cover commands the present intent wants, is an unready slot quiet, does the camera follow the intent in the end? | one RC slot, grace 2, queue 2, one press, timers may fail |
| `CamCore_wave` | may a broadcast contradict the intent of a camera it was not meant for? | two RC slots, reports and presses left out (`WaveSpec`) |
| `ShutdownManager` | does a shutdown complete, exactly when all slots are counted, and report exactly the failures? | three slots, any spawn may fail |
| `ShutdownCameras_gate` | can anything but one late frame and one late web request start a camera during a shutdown; do the links stay down? | one BLE slot |
| `PairAttempt_attempts` | is every attempt covered by its watchdog, does it end, once; is a cancelled RC camera forgotten? | a legacy BLE camera, an RC camera, two attempts that may overlap, the timer may not be had |
| `SlotTable_table` | is the table a `Roster`; does NVS agree with it at rest; does a removal cut short lose another camera? | three cameras, three slots, two requests, three connections |
| `BleConnection_camera` | does a connection end its sequence at most once, subscribe exactly the right descriptors, become ready or end, and leave nothing behind? | two connections, eight attributes in two services, two retries, a frozen, legacy or modern model |
| `PairComplete_wifi` | one task at a time; does it register its own camera; does the access point come back; is no camera left half paired? | two cameras, two connections, two joins, failing spawns, networks with and without a gateway, a driver that may refuse to start again |
| `RcDriver_camera` | is a ready camera watched; does one that answers become ready and known, one that does not get given up? | one camera, a work queue of two which anything may find full |
| `CanBus_bus` | is a known logging state watched, does silence release the cameras, does transmission resume, is a shutdown request heard? | receive queue of one, state queue of two, automatic control switched at any time |
| `CanStore_settings` | one announcement per session; do clock and NVS settle on the live time; do channels stay distinct? | two channels, three identifiers, two restarts, two requests of either or both channels |
| `OtaImage_updates` | is the stored SHA that of the contents, is an upload called successful whole, does a trial keep its fallback? | two builds, a page and a wrong file; unbounded uploads, commits, rollbacks and power failures |

The bounds suffice for what is asked.  `cam_core` treats slots alike and
independently but for the broadcast, so one slot shows what happens to a slot
and two show what a wave does to a slot it skips; grace 2 distinguishes open,
about to close and closed.  Three slot tasks give every order of the last two
and a failure before, between or after them.  Two attempts are what it takes for
a late callback of one to meet the next.  A removal with two slots above it is the
shortest compaction with a middle step, and a second request meets what the
first has left; `MaxConnects` lets every camera be registered while it runs.
The attribute table of `MCBleConnection` has a characteristic with its own CCCD, one
without behind which a foreign CCCD follows, and a second service for the cursor
to move to; a second connection meets what the first left.  Two cameras are one
that pairs and one that is deferred, two joins one that is left over and one
that is waited for.  The queues (32, 8 and 16 entries in the code) are as small as
they can be and still hold something while another is dropped: fullness is what
the properties are about, and the invariants of `CanBus` and `RcDriver` are proved
for every depth.  Two builds make one newer than the other; the wrong file is what `ota.md` calls one, and does not mount.  Two requests are what
it takes for the second to be checked against values the first has left behind, and
two touched channels for a gap between two writes.

`CHECK_DEADLOCK FALSE` is set where the system does stop: a completed shutdown
is the end of the controller's life, the bounds on attempts and connections end
`PairAttempt`, `PairComplete` and `BleConnection`, a table of connected, ready
cameras that nobody reorders is at rest in `SlotTable`, a camera that is away and
a CAN bus that has fallen silent or lost its bus-off event may stay so.
`Followed` ends the following of events when no attempt is left to be disturbed.

Where the code has a hole, the properties do not assume it away by a bound: the
hole is in the model, a history variable remembers that a behaviour went through
it, and the property excepts those behaviours and no others: `stolen` and
`overlapped` in `PairAttempt`, `lost` and `left` in `CanBus`, `mixed` in `CanStore`,
`stale` in `OtaImage` and `RcDriver`, `missed` in `RcDriver`, `apLeft` in `PairComplete`,
`raced` in `BleConnection`.  For most of them a configuration under "Disagreements"
shows what happens without the exception.

### Fairness

* `CamCore`: the timer task runs armed timers, drivers drain their queues,
  reports arrive, time passes (weak fairness of each); over a link that stays up
  not every command is lost (strong fairness of `Execute` against `Lose`).  The
  liveness property asks only about a slot that stays ready with its timer running,
  over a link that stays up, to a camera that does not say it is switched off.
* `ShutdownManager`: the requesting task and every spawned task go on, since
  each of their waits is bounded (1.5 s for the stop, 500 ms to settle, the HTTP
  timeout).  A task that could not be spawned needs no fairness.
* `ShutdownCameras`: the same, and a link told to close goes down and its loss
  is reported.  Nothing is assumed of cameras or of the CAN bus.
* `PairAttempt`: the web server's and the timer task finish the call they are in and
  an armed watchdog fires.  Nothing is assumed of the other tasks, and no camera is
  assumed to answer.
* `BleConnection`: the host and timer tasks run, armed time-outs fire, a link told
  to end drops.  The camera need answer nothing; NimBLE ends every procedure it
  has begun, with an error if need be.
* `PairComplete`: tasks, the delivery of a read and the event loop go on; every
  wait in them has a time-out.  Neither the camera nor its network need answer.
* `RcDriver`: the receive, work and timer tasks run and time passes; a camera whose
  lease is not remembered asks for an address; what is posted again and again, by the
  receive task and the keepalive timer, finds room now and then (`FindsRoom`), which a
  queue of 16 entries with one producer per camera and a task that drains it without
  blocking justifies.  The events of the station, which come once, may each be lost.
  `Answering` is an assumption of each property, not of the specification.
* `CanBus`: the tasks run, the controller recovers when told to; a frame that is
  repeated all the time finds room now and then, and so does the turn of the
  periodic transmission on the timer task.
* `CanStore`: the tasks run and GPS frames keep coming; of the saves that the timer
  repeats every five minutes not all fail.

## Disagreements with the documents and between parts

Twelve configurations are kept to show what the code does against what the
repository says of it.  TLC finds each property violated; none belongs to the
runs of PROJECT.json.

1. `CamCore_restart.cfg` (module `MCCamCore`, `PollStartsOnlyIdleCamera`):
   `gopro_wifi_rc/driver.c:96-99` says a duplicate Start to a running Hero4 has been
   observed to flip it off.  `set_desired_all` skips a slot that is not ready
   without opening its grace window (`cam_core.c:316`), but the broadcast reaches
   and starts its camera; the slot comes back ready with an old "idle", and the
   poll sends START to the recording camera.
2. `ShutdownCameras_unconfirmed.cfg` (`MCShutdownCameras`, `UnmarkedSlotStopped`):
   `docs/design/shutdown.md:468` says a camera that does not acknowledge the stop
   within 1500 ms is marked failed.  `drv_stop_recording` of the BLE driver sets its
   cache to idle when the write is queued, so the wait never waits.
3. `ShutdownCameras_revived.cfg` (`MCShutdownCameras`, `NoSlotRevived`):
   `docs/design/shutdown.md:40` says links are torn down so that cameras are not
   woken again.  The RC driver does not know of shutdowns: its teardown keeps
   `last_ip`, and the next datagram makes the slot ready with its poll.
4. `PairAttempt_reconnect.cfg` (`PairAttempt`, `SuccessIsOwn`): `pair_attempt.c:5-8`
   says reconnects do not use the attempt.  `complete_connection_sequence`, with
   which every connection ends, advances whatever attempt is in flight to SUCCESS
   (`readiness.c:166`).
5. `SlotTable_crossed.cfg` (`MCSlotTable`, `ReadySlotReachesItsCamera`):
   `docs/design/camera-manager.md:2053` has every affected context told its new
   index.  But the contexts do not move: `pairing.c:121` picks `&s_ctx[slot]` by the
   camera's new slot, and that context now names the slot it was attached to.
   After a reorder the camera that reconnects stores its model in, and makes
   ready, the slot of another.  No interleaving is needed (`TurnsSpec`); only a
   restart, which attaches the contexts anew, mends it.
6. `PairComplete_deferred.cfg` (`PairComplete`, `DeferredGetsTurn`):
   `pair_complete.c:33-37` says deferred slots "eventually run rather than being
   dropped".  The queue holds slot indices, and a task that fails removes its own
   slot before it drains: the contexts above move down, the drained context looks
   itself up under its new index (`:297`), finds another and gives up.  The
   deferred camera stays connected and half paired.
7. `RcDriver_gone.cfg` (`RcDriver`, `QuietOnceGone`): `camera-manager.md:1921` says a
   camera that disassociates is silent from then on, and `connection.c:62-65` that
   "no stale tick can land".  A promotion that was queued before the disassociation
   is handled after it: the slot is ready again with no address and no keepalive
   timer, and nothing demotes it until the camera returns.  A queued tick starts the
   wake-on-LAN timer of a camera that left.
8. `CanStore_collision.cfg` (`MCCanStore`, `WebPathIsSafe`):
   `can-id-configuration.md:230-231` says fields a request does not give are read from
   current NVS, `can_manager.c:854-857` that the web path is safe, and
   `api_settings.c:120-123` that collisions are refused.  The merge reads
   `can_manager_get_channel`, the values frozen at boot, so two requests in one boot
   can give two channels one identifier; after the reboot `rx_task` gives the frames
   of both to the first handler.  A request that touches several channels and is
   cut short between two writes does the same, and a legitimate move onto an
   identifier given up earlier in the same boot is refused.
9. `PairAttempt_unwatched.cfg` (`PairAttempt`, `AttemptTimesOut`):
   `pair_attempt.c:30-33` says an attempt that has not ended within its time is
   forced to fail.  When `esp_timer_create` fails, `arm_watchdog_locked` returns with no
   timer (`:89-92`) and `pair_attempt_begin` carries on: a camera that never answers
   leaves the attempt in flight until the user cancels it.
10. `OtaImage_formatted.cfg` (`MCOtaImage`, `SkipIsSound`): `ota.md:276-289` promises
   that the stored SHA never stands for contents that are gone, and `driver.c:182-187`
   that uploading again repairs the partition.  A wrong file uploaded as a user
   interface is stored whole, and its SHA recorded; the next start of the main app
   formats what does not mount (`driver.c:219-224`) and leaves the record, so the same
   file is skipped and reported as uploaded over a blank partition.
11. `PairComplete_left.cfg` (`PairComplete`, `AlwaysBackInApMode`): `pair_complete.c:23`
   says "always leave radio back in AP mode".  With a camera whose DHCP names no
   gateway a join succeeds but its address counts as none: `sta_leave` is not called,
   `s_sta_busy` stays set, every later join is refused and the access point does not
   come back.  Nor does it when the driver refuses one of the calls of
   `bring_ap_back_up` (`wifi_manager.c:309-323`): nobody looks at its error.
12. `RcDriver_dropped.cfg` (`RcDriver`, `AnsweringAlwaysReady`): `camera-manager.md:756`
   has a camera that comes back with its lease addressed by the stored one, and
   `CHANGELOG.md:591` says it reconnects reliably.  The association is posted without
   waiting (`driver.c:239-259`); if the queue is full it is gone, and as the camera
   asks for no lease, the slot stays without an address although it answers.

Seen while modelling, without a configuration of their own:

*cam_core, shutdown, pairing and slots*

* The immediate path arms the grace deadline but never looks at it, so poll
  START, UNKNOWN by the watchdog and START again send START twice within one
  window, against `docs/design/camera-manager.md:1035`.
* A slot task past its deadline skips the sleep step without marking the slot
  failed, against `shutdown_manager.c:12` and `docs/design/shutdown.md:469`.
* The logging handler reads the shutdown state once (`can_manager.c:191`) and
  applies the intent later, and so does POST `/api/shutter` (`api_cameras.c:226`), which
  waits for its body in between; `OnlyLateRequestsStart` shows that one frame and
  one request are all that can start a camera after a shutdown has begun.
* `watchdog_cb` writes its error code after `pair_attempt_cancel` returned, and
  `disarm_watchdog` runs after the mutex is released: if the next attempt begins
  in between, it gets the wrong error code or loses its watchdog (`stolen`), or is
  cancelled before its own handler has added the camera (`overlapped`).
* A removal does not rewrite the namespace of a slot whose model is unknown, so a
  copy of the camera that was there before stays: until that slot is identified
  and saved, a restart would load one camera twice.  `BootLoadsTable` therefore
  asks for every camera to be identified.  Reordering, unlike `save_slot`, stores
  unknown models.
* Reordering overwrites the namespaces in place: if power fails between two
  writes, a camera may be stored twice and another not at all.
  `RemovalKeepsOthers` is about removals only.
* `remove_slot` reads which slots are ready, and tests its index, before it takes
  the mutex.  A slot that becomes ready in between moves with a poll timer bound to
  its old index, and one that is disconnected in between is armed again.  The index
  that `on_ble_disconnected_by_handle` and `on_camera_ready` pass to cam_core after
  their unlock may be another slot's by then.
* `cam_core_unregister_slot(s_slot_count)` runs after the unlock: a camera
  registered at that index meanwhile loses its cam_core record and gets no driver
  until a restart.
* `HWINFO_TIMEOUT` and `MODEL_UNSUPPORTED` fail the attempt in flight whoever it
  is for, like the success of item 4.
* A camera that is being paired when a shutdown begins has a slot without a
  driver, so its link is not terminated (`shutdown_manager.c:129`).

*BLE connections and pair-complete*

* A time-out that has claimed its flag when the link is lost goes on: the slot
  becomes ready without a link, and the status poll runs until the next connection
  ends, against `camera-manager.md:670`.  `raced` excludes this from `QuietWhenGone`.
* When the discovery of characteristics breaks off with an error, the last one
  keeps its service's end as its bound, so that, having no CCCD of its own, it
  would be given a neighbour's, against the comment at `gatt.c:246-251`.
  `SubscribesExactly` asks for a discovery without errors.
* Losing the link during discovery makes each callback go on to the next step, up
  to `gopro_readiness_start`, before the disconnection cleans up.  A camera whose
  encryption fails keeps its connection until it drops it itself.
* With three cameras a deferred slot whose link is gone is dropped without
  draining further, so the others wait for another task's end.  A reconnection
  during the camera's own task defers a second run, which is not checked against
  `first_pair_complete` and whose failure removes a camera already paired.  A failed
  spawn releases the gate, and drains, before it cleans up.
* The slot index a task captured is stale if the user removes or reorders another
  slot meanwhile.  `on_ble_read`
  checks the generation and then writes, against "correct under all timing
  interleavings" (`pair_complete.c:93-100`); the model takes a callback that has
  begun to end before the next read.

*Wi-Fi remote, CAN and updates*

* A promotion handled after a
  stall of 5 s with wake-on-LAN running is never demoted.  A camera connected by DHCP
  that never answered is not woken, although `camera-manager.md:1919` says so;
  re-association restarts the silence watch without an answer; a Hero4 identified
  after its promotion gets no date until it reconnects, against `:1828`.
* `udp.c` uses `s_ctx[slot]` while the contexts' pointers move on a removal.
* A bus-off event that finds the state queue full (`can_manager.c:402-413`) is the one
  loss nothing repairs: recovery is not started.  `lost` excludes it.
* The watchdog that finds automatic control off forgets the logging state and leaves
  the intent that its frames drove (`can_manager.c:178`).  It has fired, so when
  automatic control is switched on again (`cam_core.c:351`) nothing takes back a
  START of a bus that is silent.  `left` excludes it from `SilenceReleases`.
* The web page may set the time before `can_manager_init` has created its mutex, or
  between that and the restoring of the stored time, which then overwrites the
  flag of the live one (`can_manager.c:297`).
* `ota_io_nvs_sha_delete` reports no failure (`boot_helpers.c:66-78`), and when it fails
  the record outlives the erased contents like that of a formatted partition in item
  10; `stale` covers both.  `ota_io_set_boot_main` compares secure versions and
  dates, so a newer slot that is torn is
  preferred to an older whole one.  An upload within the 150 ms between a commit and
  its reboot erases the slot about to be booted.  A factory reset erases the NVS and
  keeps the session flags.

## Proofs

TLAPS checks every proof for every value of the constants; the assumptions are
the named ASSUMEs of the modules, and the hypotheses a theorem states, nothing
else.  Every safety property of the runs has its theorem.

* `CamCoreProofs`: `Spec` keeps `TypeOK` (`CamCoreTyped`), `GraceProtectsIntent`
  (`GraceWindowSafe`) and `NotReadyIsQuiet` (`NotReadySlotsQuiet`).  The inductive
  invariant is the conjunction of the three: a window that opens needs a ready slot
  with a driver, and a slot that loses readiness, is torn down or registered again
  closes its window; the type invariant gives the functions their domains.  The
  proof has one step per action; the actions of the environment share one lemma.
  `CommandsFollowIntent` (`CommandsIntended`) is an action property: a wave reaches
  slots it was not meant for, but the intent of every registered slot is set before
  the first command goes out.
  Then the composition `ShutdownCameras`: each of its steps is one of cam_core or its
  environment, or leaves them alone (`StepsOfCore`), so that `SystemInv`, which adds
  the frame and the request past their gates to cam_core's invariant, holds of it
  (`GraceSafeInShutdown`); nothing but a frame and a shutter request past their gates
  starts a camera, each once (`LateRequestsOnly`); and the composition implements the specification of the
  manager alone (`ManagerAsAlone`), so that it refines `ShutdownPhases`
  (`SystemImplementsPhases`) and its report is exact (`SystemReports`).
* `ShutdownManagerProofs`: `ShutdownInv` is invariant (`ShutdownInvariance`),
  COMPLETE is exact (`CompletionIsExact`), the report is (`ReportIsExact`), and the
  manager refines `ShutdownPhases` (`ManagerImplementsPhases`).  `CompleteIffAllDone`
  is not inductive: the code compares a counter with another, so the invariant must
  say that `doneCount` is the cardinality of the set of counted slots, which slots
  have a task at which point of the spawning loop (`BeforeSpawning`,
  `WhileSpawning`) and what the mask holds meanwhile (`FailureFlags`).
* `CameraManagerProofs`, the slot table: `TableInv` is inductive.  `RosterInv` says
  where the web task is in the table while the host task changes it (the slot it
  removes, the hole of the compaction, the order it installs); `KeptInv` that each
  camera to be kept is in a slot, the hole apart, whose record is its own, between
  any two writes of a compaction; `StoredInv` which records are still to be written (`Unsaved`), and
  that all others are right.  From it follow `BootLoadsTable` (`RestartLoadsTable`)
  and `RemovalKeepsOthers` (`RemovalSpares`).
  `ImplementsRoster` (`TableImplementsRoster`) is the refinement: the list of the
  roster is `InOrder`, the slots in use with the hole of a compaction left out, which
  for the proof is a function of the position (`Ordered`).  A shift moves a slot over
  the hole and leaves that list alone; erasing the record is where a camera leaves
  it; a permutation asked for before another camera was registered extends to one
  that leaves the newcomer last (`OrderExtends`).
* `CameraManagerProofs`, the pair attempt: types (`AttemptTyped`), `ResultIsSticky`
  (`ResultSticks`), `WatchdogCovers` (`AttemptCovered`) and `CancelledRcForgotten`
  (`CancelledForgotten`), whatever begins when and whether or not the timer could be
  created.  What the calls of the five tasks have still to do is a set of pairs of an
  operation and a camera (`Todo`), whatever its order.  The watchdog's part of the
  invariant says that of an attempt in flight it is armed, about to be, or has fired
  and is about to cancel it, unless a disarm has met it, which `stolen` then
  remembers; `AddingInv` that a handler about to add an RC camera has
  not been cancelled yet; `ForgottenInv` that the camera of a cancelled one is gone
  or about to be removed, both unless the attempt overlaps the one before it.  Calls
  about something else are dealt with at once (`AsideKeeps`).
* `BleConnectionProofs`: a connection ends its sequence at most once
  (`CompletedOnce`).  The argument is a token: discovery, a pending flag, a task past
  its claim, and the end itself are its places, and `OneToken` says that no two are
  taken.  Each atomic exchange hands it on; an answer and its time-out cannot both
  have it.  `Quiet` says that it is gone with the connection; with `Gone`, that the
  only timer callback left is one that has yet to look again.  That is
  `QuietWhenGone` (`LeavesQuiet`), which does not cover a link lost after a time-out has
  claimed its flag and before it has acted on it (`raced`): there the code goes on,
  as the remarks say, and neither the property nor the theorem claims otherwise.
  `SubscribesExactly` (`SubscribedExactly`) has the hypothesis `WellFormed`: the table
  fits `GATT_MAX_SERVICES` and `GATT_MAX_NOTIFY_CHRS`, its services are ascending ranges
  and a characteristic has one CCCD at most, in its service.  `MCBleConnection`
  assumes it of the camera of the run, where TLC evaluates it.  `DiscInv` has one
  part per stage of the discovery: which characteristics the list has (`Lists`),
  that the range of each entry reaches its own CCCD (`Reaches`) and, but for the last
  of a service still being told, nothing of the next (`Clean`), and that what was
  found is its own and nothing is left to be found (`Sound`, `Resolved`).
  The types (`ArraysHold`) need no such hypothesis: `ListsInv` keeps each pass's cursor
  within the fixed arrays whatever table a camera announces.
* `PairCompleteProofs`: `OneAtATime` (`GateCorrect`).  `GateHeld` adds what makes it
  inductive: whoever holds the gate, `s_busy` is set; the drain hands it over in the
  section in which it takes the next request, and a refused spawn releases it once.
  `RegistersOwn` (`RegistersOnlyOwn`) rests on the gate: only its holder can be at a
  stage that depends on the bridge or the radio (`Apart`), so that `OwnInv` can say of
  each task that the credentials it has, the value the bridge holds for it and the
  network it dialled are of its own connection.  Types: `BooksTyped`.
* `RcDriverProofs`: types and `ReadyIsWatched` (`CameraWatched`), for queues of every
  depth.
* `CanManagerProofs`, the bus: types, `KnownIsWatched` (`LoggingStateWatched`) and
  `OffIsRemembered` (`BusOffRemembered`: a bus-off event is with the recovery task,
  queued or was dropped), for queues of every depth.  The store: `AnnouncedOnce` and
  the action property `LiveSourceWins` (no web request displaces a live time), from
  `OneFirst`: the task that set the first live time is between setting and
  announcing it.  `ChannelsDistinct` (`ChannelsStayDistinct`) holds for any
  number of requests, of any size, failing or cut short anywhere: `ChannelsInv` says
  that, unless `mixed`, neither the identifiers the session runs with nor those the NVS
  will hold when the request is written (`Target`) collide.
  Item 8 above is what happens when they are mixed.  Types: `StoreTyped`.
* `OtaImageProofs`: types, `ShaIsContent`, `UploadedIsWhole` and `TrialHasFallback`,
  for every set of images, of whatever kinds, build dates and secure versions.  The
  invariant follows an upload (`UploadInv`: from before its erase to its verification
  nothing vouches for the partition but a record that a failed delete has made
  stale, and the SHA recorded of a slot is a firmware's) and otadata (`BootInv`: it
  names the app that runs, a slot just selected, or recovery with no slot confirmed).

Only model-checked: liveness, as the provers have no rule for fairness
(`CameraFollowsIntent`, `RequestCompletes`, `LinksStayDown`, `AttemptEnds`, `Settles`,
`SilenceReleases`, `StatusResumes`, `ShutdownHeard`, `ClockSettles`, `SaveSettles`,
`ApComesBack`, `NoneHalfPaired`, `AnsweringIsReady`, `SilentIsDemoted`, `ModelLearnt`).

## Not modelled, and what is left

Not modelled at all: the wired application (a second, simpler driver over the
same cam_core), `log_ring`, the web UI and release tools, JSON and file serving,
the model table of `gopro_model`, the encoding of CAN frames.

Parts of components that are left out: the scan and connect flags of `ble_core`
(`ble_connect.c:80` clears `s_connecting` on any disconnection); the reassembly of
packets in `query.c`, whose expected sequence number is eight bits wide where the
received one has fewer, and which does not notice a response that lost its last
continuations until the next begins; the datetime task and the teardown of a slot
of `gopro_wifi_rc`; a second removing task, RC slots and failing NVS writes, whose result
`camera_manager` ignores, in `SlotTable`.  The second
remover includes the host task itself, which drops a camera of a frozen model as soon
as it is identified (`readiness.c:342-353`): `Identify` of `SlotTable` takes supported
models only, while `BleConnection` and `PairAttempt` have the termination and the
failed attempt of a frozen one.

Next: restarts and a second remover in `SlotTable`; the scan flags.

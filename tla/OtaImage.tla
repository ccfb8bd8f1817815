------------------------------ MODULE OtaImage ------------------------------
(***************************************************************************)
(* Over-the-air updates: ota_io (ota_writer.c, storage_writer.c,           *)
(* boot_helpers.c) under the web handlers of the main app (api_ota.c) and  *)
(* of the recovery app (recovery_http.c), with the main app's look at its  *)
(* user interface at start (http_server_core/driver.c) and, external, the  *)
(* boot loader of ESP-IDF.                                                 *)
(*                                                                         *)
(* Both apps serve requests from one task, so there is one upload at a     *)
(* time; power may fail between any two steps.  An image is its SHA-256.   *)
(***************************************************************************)
EXTENDS Naturals

CONSTANTS
  Images,     \* the files a user may upload
  Offered(_), \* the files that are sent for a partition, a bound for TLC
  Kind(_),    \* what a file is: see Kinds
  Secure(_),  \* the secure_version of firmware
  Build(_)    \* the build date of firmware, 0 when it cannot be parsed

\* Firmware; a LittleFS image with the page of the user interface, or without;
\* anything else, which an erased partition is too.
Kinds == {"app", "ui", "bare", "other"}

Slots == {"ota_0", "ota_1"}
Parts == Slots \cup {"storage"}

ASSUME ImagesAssumption ==
  /\ "none" \notin Images /\ Kind("none") = "other"
  /\ \A i \in Images : Kind(i) \in Kinds
  /\ \A p \in Parts : Offered(p) \subseteq Images

Apps == Slots \cup {"factory"}

VARIABLES
  flash,   \* what each partition holds
  stored,  \* the SHA that NVS records for each partition
  boot,    \* the app otadata selects
  entry,   \* the state otadata gives each slot
  running, \* the app that runs
  phase,   \* where the running app is in its start
  upload,  \* the upload in progress
  appUp, uiUp,  \* s_app_uploaded, s_ui_uploaded
  reboot,  \* a reboot task is waiting
  stale    \* history: partitions whose record in NVS outlived their contents,
           \* because LittleFS was formatted or a delete of the record failed

flashVars == <<flash, stored, stale>>
bootVars == <<boot, entry>>
sessionVars == <<upload, appUp, uiUp, reboot>>
vars == <<flashVars, bootVars, running, phase, sessionVars>>

\* A partition holds the whole of an image, the beginning of one, or nothing.
Contents == [image : Images \cup {"none"}, whole : BOOLEAN]
Whole(i) == [image |-> i, whole |-> TRUE]
Torn(i) == [image |-> i, whole |-> FALSE]
Blank == Torn("none")

NoUpload == [at |-> "idle", part |-> "storage", image |-> "none"]
Uploads == [at : {"idle", "begun", "skipping", "cleared", "erased", "streaming",
                  "written", "ended"},
            part : Parts, image : Images \cup {"none"}]

TypeOK ==
  /\ flash \in [Parts -> Contents]
  /\ stored \in [Parts -> Images \cup {"none"}]
  /\ boot \in Apps /\ running \in Apps
  /\ entry \in [Slots -> {"none", "new", "pending", "valid"}]
  /\ phase \in {"starting", "serving", "up"}
  /\ upload \in Uploads
  /\ appUp \in BOOLEAN /\ uiUp \in BOOLEAN /\ reboot \in BOOLEAN
  /\ stale \subseteq Parts

\* A board as it leaves the factory: recovery, and an app and a user interface
\* flashed over USB, of which NVS knows nothing.
Init ==
  /\ \E app \in Offered("ota_0"), ui \in Offered("storage") :
       /\ Kind(app) = "app" /\ Kind(ui) = "ui"
       /\ flash = [p \in Parts |-> CASE p = "ota_0" -> Whole(app)
                                     [] p = "ota_1" -> Blank
                                     [] p = "storage" -> Whole(ui)]
  /\ stored = [p \in Parts |-> "none"] /\ stale = {}
  /\ boot = "ota_0" /\ entry = [s \in Slots |-> IF s = "ota_0" THEN "valid" ELSE "none"]
  /\ running = "ota_0" /\ phase = "up"
  /\ upload = NoUpload /\ appUp = FALSE /\ uiUp = FALSE /\ reboot = FALSE

Other(s) == IF s = "ota_0" THEN "ota_1" ELSE "ota_0"

\* Mutant: always the first slot.
Target_First == "ota_0"

\* esp_ota_get_next_update_partition(NULL): the slot that does not run.
Target == IF running = "factory" THEN "ota_0" ELSE Other(running)

-----------------------------------------------------------------------------
(***************************************************************************)
(* The boot loader.                                                        *)
(***************************************************************************)

\* The app otadata names once an image that was still on trial is given up.
OnTrialLost == boot \in Slots /\ entry[boot] = "pending"
Selected ==
  IF ~OnTrialLost THEN boot
  ELSE IF entry[Other(boot)] = "valid" THEN Other(boot) ELSE "factory"

\* A slot with whole firmware, as the boot loader and esp_ota_set_boot_partition
\* verify it.
Bootable(s) == flash[s].whole /\ Kind(flash[s].image) = "app"

\* From the selected slot downwards, the first that can be booted.
Loadable(a) ==
  CASE a = "factory" -> "factory"
    [] a = "ota_0" -> IF Bootable("ota_0") THEN "ota_0" ELSE "factory"
    [] a = "ota_1" -> IF Bootable("ota_1") THEN "ota_1"
                      ELSE IF Bootable("ota_0") THEN "ota_0" ELSE "factory"

\* A new image is on trial from its first start.
Reset ==
  /\ running' = Loadable(Selected)
  /\ boot' = Selected
  /\ entry' = [s \in Slots |->
                 CASE OnTrialLost /\ s = boot -> "none"
                   [] s = Selected /\ Loadable(s) = s /\ entry[s] = "new" -> "pending"
                   [] OTHER -> entry[s]]
  /\ phase' = "starting"
  /\ upload' = NoUpload /\ appUp' = FALSE /\ uiUp' = FALSE /\ reboot' = FALSE

PowerFails ==
  /\ Reset
  /\ UNCHANGED flashVars

\* schedule_reboot: 150 ms after the response.
RebootTask ==
  /\ reboot
  /\ Reset
  /\ UNCHANGED flashVars

\* esp_ota_set_boot_partition; the image of a slot is verified first.
SetBoot(a) ==
  /\ a \in Slots => Bootable(a)
  /\ boot' = a
  /\ entry' = IF a = "factory" THEN [s \in Slots |-> "none"]
              ELSE [entry EXCEPT ![a] = "new"]

-----------------------------------------------------------------------------
(***************************************************************************)
(* Start of an app.                                                        *)
(***************************************************************************)

\* Recovery needs no user interface in flash.
RecoveryStarts ==
  /\ running = "factory" /\ phase = "starting"
  /\ phase' = "up"
  /\ UNCHANGED <<flashVars, bootVars, running, sessionVars>>

\* The storage partition has a file system, or may have one although it is torn.
MayMount == Kind(flash["storage"].image) \in {"ui", "bare"}
MayNotMount == ~(flash["storage"].whole /\ MayMount)

\* The main app mounts LittleFS and finds its page: of a torn image it may do so.
MainServes ==
  /\ running \in Slots /\ phase = "starting"
  /\ Kind(flash["storage"].image) = "ui"
  /\ phase' = "serving"
  /\ UNCHANGED <<flashVars, bootVars, running, sessionVars>>

\* What does not mount is formatted, whatever NVS records for it.
Format ==
  /\ MayNotMount
  /\ flash' = [flash EXCEPT !["storage"] = Blank]
  /\ stale' = IF stored["storage"] = "none" THEN stale ELSE stale \cup {"storage"}

\* It finds no page, in what it mounted or has formatted: to recovery, at once,
\* or on without a user interface when recovery cannot be selected.
MainFallsBack ==
  /\ running \in Slots /\ phase = "starting"
  /\ ~(flash["storage"].whole /\ Kind(flash["storage"].image) = "ui")
  /\ \/ Format
     \/ MayMount /\ UNCHANGED <<flash, stale>>
  /\ \/ SetBoot("factory") /\ running' = "factory" /\ phase' = "starting"
     \/ phase' = "serving" /\ UNCHANGED <<bootVars, running>>
  /\ UNCHANGED <<stored, sessionVars>>

\* mark_ota_valid, after the web server has started.
MainConfirms ==
  /\ running \in Slots /\ phase = "serving"
  /\ phase' = "up"
  /\ entry' = [entry EXCEPT ![running] = IF @ = "pending" THEN "valid" ELSE @]
  /\ UNCHANGED <<flashVars, boot, running, sessionVars>>

-----------------------------------------------------------------------------
(***************************************************************************)
(* Uploads.                                                                *)
(***************************************************************************)

Serving == phase \in {"serving", "up"}
Idle == Serving /\ upload.at = "idle"
At(places) == Serving /\ upload.at \in places

\* Mutant: the flag of an earlier upload is kept until this one ends.
UploadApp_KeepsFlag(i) ==
  /\ Idle /\ i \in Offered(Target)
  /\ upload' = [at |-> "begun", part |-> Target, image |-> i]
  /\ UNCHANGED <<flashVars, bootVars, running, phase, appUp, uiUp, reboot>>

\* handler_upload_app: the flag is cleared before anything is erased.
UploadApp(i) ==
  /\ Idle /\ i \in Offered(Target)
  /\ upload' = [at |-> "begun", part |-> Target, image |-> i]
  /\ appUp' = FALSE
  /\ UNCHANGED <<flashVars, bootVars, running, phase, uiUp, reboot>>

\* handler_upload_ui.
UploadUi(i) ==
  /\ Idle /\ i \in Offered("storage")
  /\ upload' = [at |-> "begun", part |-> "storage", image |-> i]
  /\ uiUp' = FALSE
  /\ UNCHANGED <<flashVars, bootVars, running, phase, appUp, reboot>>

\* The stored SHA is the announced one: the body is read and thrown away.
ShaSkips ==
  /\ At({"begun"}) /\ stored[upload.part] = upload.image
  /\ upload' = [upload EXCEPT !.at = "skipping"]
  /\ UNCHANGED <<flashVars, bootVars, running, phase, appUp, uiUp, reboot>>

\* Mutant: the SHA of the old contents stays until the new one is stored.
ShaForgotten_Later ==
  /\ At({"begun"}) /\ stored[upload.part] # upload.image
  /\ upload' = [upload EXCEPT !.at = "cleared"]
  /\ UNCHANGED <<flashVars, bootVars, running, phase, appUp, uiUp, reboot>>

\* ota_io_nvs_sha_delete, before the erase.
ShaForgotten ==
  /\ At({"begun"}) /\ stored[upload.part] # upload.image
  /\ stored' = [stored EXCEPT ![upload.part] = "none"]
  /\ stale' = stale \ {upload.part}
  /\ upload' = [upload EXCEPT !.at = "cleared"]
  /\ UNCHANGED <<flash, bootVars, running, phase, appUp, uiUp, reboot>>

\* The delete fails, at which nobody looks: the upload goes on all the same.
ShaKept ==
  /\ At({"begun"}) /\ stored[upload.part] \notin {"none", upload.image}
  /\ stale' = stale \cup {upload.part}
  /\ upload' = [upload EXCEPT !.at = "cleared"]
  /\ UNCHANGED <<flash, stored, bootVars, running, phase, appUp, uiUp, reboot>>

\* esp_ota_begin refuses while the running image is on trial.
MayErase ==
  upload.part \in Slots /\ running \in Slots => entry[running] # "pending"

\* ota_writer_begin, storage_writer_begin: the partition is erased.
Erase ==
  /\ At({"cleared"}) /\ MayErase
  /\ flash' = [flash EXCEPT ![upload.part] = Blank]
  /\ upload' = [upload EXCEPT !.at = "erased"]
  /\ UNCHANGED <<stored, stale, bootVars, running, phase, appUp, uiUp, reboot>>

\* The first part of the body, which holds the header, is written: of the
\* announced image, or of whatever is sent for it.
WriteFirst ==
  /\ At({"erased"})
  /\ \E i \in Offered(upload.part) : flash' = [flash EXCEPT ![upload.part] = Torn(i)]
  /\ upload' = [upload EXCEPT !.at = "streaming"]
  /\ UNCHANGED <<stored, stale, bootVars, running, phase, appUp, uiUp, reboot>>

\* The rest of it.
WriteRest ==
  /\ At({"streaming"})
  /\ flash' = [flash EXCEPT ![upload.part] = Whole(@.image)]
  /\ upload' = [upload EXCEPT !.at = "written"]
  /\ UNCHANGED <<stored, stale, bootVars, running, phase, appUp, uiUp, reboot>>

\* pump_body: the client is gone or a write failed; also a begin that fails.
UploadBreaks ==
  /\ At({"skipping", "cleared", "erased", "streaming"})
  /\ upload' = NoUpload
  /\ UNCHANGED <<flashVars, bootVars, running, phase, appUp, uiUp, reboot>>

\* The rolling digest equals the announced one.
Verifies == At({"written"}) /\ flash[upload.part].image = upload.image

\* esp_ota_end, which takes firmware only; LittleFS is not looked into.
FinishEnds ==
  /\ Verifies
  /\ upload.part \in Slots => Kind(upload.image) = "app"
  /\ upload' = [upload EXCEPT !.at = "ended"]
  /\ UNCHANGED <<flashVars, bootVars, running, phase, appUp, uiUp, reboot>>

\* SHA mismatch, or esp_ota_end refuses.
FinishFails ==
  /\ At({"written"})
  /\ upload' = NoUpload
  /\ UNCHANGED <<flashVars, bootVars, running, phase, appUp, uiUp, reboot>>

\* The handler reports success and remembers it for commit.
Succeed ==
  /\ appUp' = (appUp \/ upload.part # "storage")
  /\ uiUp' = (uiUp \/ upload.part = "storage")
  /\ upload' = NoUpload
  /\ UNCHANGED <<flash, bootVars, running, phase, reboot>>

FinishStores ==
  /\ At({"ended"})
  /\ stored' = [stored EXCEPT ![upload.part] = upload.image]
  /\ stale' = stale \ {upload.part}
  /\ Succeed

\* A skipped upload has nothing to store, and a store that fails goes unnoticed.
NothingStored ==
  /\ At({"skipping", "ended"})
  /\ UNCHANGED <<stored, stale>>
  /\ Succeed

-----------------------------------------------------------------------------
(***************************************************************************)
(* The other requests.                                                     *)
(***************************************************************************)

\* handler_commit with a new app: it is selected and the board restarts.
CommitApp ==
  /\ Idle /\ appUp
  /\ SetBoot(Target)
  /\ reboot' = TRUE
  /\ UNCHANGED <<flashVars, running, phase, upload, appUp, uiUp>>

\* handler_commit with a user interface only: nothing to restart for.
CommitUi ==
  /\ Idle /\ ~appUp /\ uiUp
  /\ uiUp' = FALSE
  /\ UNCHANGED <<flashVars, bootVars, running, phase, upload, appUp, reboot>>

\* handler_reboot_recovery, of the main app.
RebootRecovery ==
  /\ Idle /\ running \in Slots
  /\ SetBoot("factory")
  /\ reboot' = TRUE
  /\ UNCHANGED <<flashVars, running, phase, upload, appUp, uiUp>>

\* Slots whose description can be read: of firmware, also of its beginning.
Described == {s \in Slots : Kind(flash[s].image) = "app"}

\* app_desc_is_newer: by secure version, then by dates that can be parsed.
Newer(s, t) ==
  LET a == flash[s].image
      b == flash[t].image
  IN IF Secure(a) # Secure(b) THEN Secure(a) > Secure(b)
     ELSE Build(a) # 0 /\ Build(b) # 0 /\ Build(a) > Build(b)

\* The slot ota_io_set_boot_main selects: ota_0 unless ota_1 is newer.
Winner ==
  IF Described = {"ota_1"} \/ (Described = Slots /\ Newer("ota_1", "ota_0"))
  THEN "ota_1" ELSE "ota_0"

\* handler_boot_main, of the recovery app.
BootMain ==
  /\ Idle /\ running = "factory" /\ Described # {}
  /\ SetBoot(Winner)
  /\ reboot' = TRUE
  /\ UNCHANGED <<flashVars, running, phase, upload, appUp, uiUp>>

\* handler_factory_reset, of the recovery app: NVS is erased.
FactoryReset ==
  /\ Idle /\ running = "factory"
  /\ stored' = [p \in Parts |-> "none"]
  /\ reboot' = TRUE
  /\ UNCHANGED <<flash, stale, bootVars, running, phase, upload, appUp, uiUp>>

-----------------------------------------------------------------------------
Start == RecoveryStarts \/ MainServes \/ MainFallsBack \/ MainConfirms

Streaming ==
  \/ ShaSkips \/ ShaForgotten \/ ShaKept \/ Erase \/ WriteFirst \/ WriteRest
  \/ UploadBreaks \/ FinishEnds \/ FinishFails \/ FinishStores \/ NothingStored

Requests ==
  \/ \E i \in Images : UploadApp(i) \/ UploadUi(i)
  \/ CommitApp \/ CommitUi \/ RebootRecovery \/ BootMain \/ FactoryReset

Next == PowerFails \/ RebootTask \/ Start \/ Streaming \/ Requests

Spec == Init /\ [][Next]_vars

-----------------------------------------------------------------------------
(***************************************************************************)
(* Properties.                                                             *)
(***************************************************************************)

\* The SHA that NVS records for a partition is that of what the partition
\* holds, wherever an upload broke off or the power failed: skipping a write on
\* its word is sound, but after a format or a failed delete (`stale`).
ShaIsContent ==
  \A p \in Parts : stored[p] # "none" /\ p \notin stale => flash[p] = Whole(stored[p])

\* What commit relies on: after an upload this session has called successful,
\* the partition holds a whole image, in a slot firmware, with the same exception.
UploadedIsWhole ==
  /\ appUp /\ Target \notin stale => Bootable(Target)
  /\ uiUp /\ "storage" \notin stale => flash["storage"].whole

\* What ota.md's invariant on markers promises of a SHA-skip (:276-289): it never
\* stands for contents that are gone.  Formatting a file that does not mount
\* breaks it, for its record stays.
SkipIsSound ==
  upload.at = "skipping" => flash[upload.part] = Whole(upload.image)

\* While an image is on trial, the confirmed app of the other slot, to which the
\* boot loader would return, is intact; and nothing overwrites the app that runs.
TrialHasFallback ==
  /\ running \in Slots => Bootable(running)
  /\ \A s \in Slots :
       boot = s /\ entry[s] \in {"new", "pending"} /\ entry[Other(s)] = "valid"
         => Bootable(Other(s))

=============================================================================

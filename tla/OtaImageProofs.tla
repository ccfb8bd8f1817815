--------------------------- MODULE OtaImageProofs ---------------------------
(****************************************************************************)
(* Safety of over-the-air updates, for every set of files of every kind and *)
(* every assignment of versions and build dates: the stored SHA is that of  *)
(* the contents and a successful upload is whole, but after a format or a   *)
(* failed delete, and an app on trial has one to fall back to.              *)
(****************************************************************************)
EXTENDS OtaImage, TLAPS

\* What holds along an upload: nothing claims the partition from before its
\* erase until it is verified, and what is ended is the announced image.
UploadInv ==
  /\ phase = "starting" => upload = NoUpload /\ ~appUp /\ ~uiUp
  /\ upload.at # "idle" =>
       /\ upload.image \in Images
       /\ IF upload.part = "storage" THEN ~uiUp ELSE upload.part = Target /\ ~appUp
  /\ upload.at = "skipping" => stored[upload.part] = upload.image
  /\ upload.at \in {"cleared", "erased", "streaming", "written", "ended"} =>
       stored[upload.part] = "none" \/ upload.part \in stale
  /\ upload.at = "erased" => flash[upload.part] = Blank
  /\ upload.at = "streaming" =>
       flash[upload.part].image \in Images /\ ~flash[upload.part].whole
  /\ upload.at \in {"written", "ended"} => flash[upload.part].whole
  /\ upload.at = "ended" =>
       /\ flash[upload.part].image = upload.image
       /\ upload.part \in Slots => Kind(upload.image) = "app"
  /\ \A s \in Slots \ stale : stored[s] # "none" => Kind(stored[s]) = "app"

\* How otadata relates to the app that runs: it names it, or a slot just
\* selected, or recovery with no slot left confirmed.
BootInv ==
  /\ boot = "factory" => \A s \in Slots : entry[s] # "valid"
  /\ running = "factory" => entry["ota_0"] # "valid"
  /\ running = "factory" /\ boot \in Slots => entry[boot] = "new"
  /\ running \in Slots =>
       \/ boot = running /\ entry[running] # "new"
       \/ boot = Other(running) /\ entry[boot] = "new"
       \/ boot = "factory" /\ entry[running] = "none"

IInv == TypeOK /\ ShaIsContent /\ UploadedIsWhole /\ TrialHasFallback /\ UploadInv /\ BootInv

LEMMA InitIInv == Init => IInv
<1> SUFFICES ASSUME Init PROVE IInv
  OBVIOUS
<1>1. TypeOK
  <2>1. PICK app \in Images, ui \in Images :
          flash = [p \in Parts |-> CASE p = "ota_0" -> Whole(app)
                                     [] p = "ota_1" -> Blank
                                     [] p = "storage" -> Whole(ui)]
    BY ImagesAssumption DEF Init, Parts, Slots
  <2>2. Blank \in Contents /\ Whole(app) \in Contents /\ Whole(ui) \in Contents
    BY DEF Blank, Torn, Whole, Contents
  <2>3. flash \in [Parts -> Contents] /\ NoUpload \in Uploads
    BY <2>1, <2>2 DEF NoUpload, Uploads, Parts, Slots
  <2>4. QED
    BY <2>3 DEF Init, TypeOK, Slots, Parts, Apps
<1>2. ShaIsContent /\ UploadedIsWhole /\ UploadInv
  BY DEF Init, ShaIsContent, UploadedIsWhole, UploadInv, NoUpload, Parts
<1>3. TrialHasFallback
  BY DEF Init, TrialHasFallback, Bootable, Slots, Parts, Whole, Other
<1>4. BootInv
  BY DEF Init, BootInv, Slots
<1>5. QED
  BY <1>1, <1>2, <1>3, <1>4 DEF IInv

\* A restart, from power failure or wanted, keeps the invariant.
LEMMA ResetIInv ==
  ASSUME IInv, Reset, UNCHANGED flashVars
  PROVE  IInv'
<1> USE DEF IInv
<1>1. Selected \in Apps /\ Loadable(Selected) \in Apps
  BY DEF Selected, OnTrialLost, Loadable, TypeOK, Apps, Slots, Other
<1>2. TypeOK'
  BY <1>1 DEF Reset, flashVars, TypeOK, Uploads, NoUpload, Parts, Apps, Slots
<1>3. ShaIsContent' /\ UploadedIsWhole' /\ UploadInv'
  BY DEF Reset, flashVars, ShaIsContent, UploadedIsWhole, UploadInv, NoUpload, Whole
<1>4. running' \in Slots => Bootable(running')
  BY <1>1 DEF Reset, Loadable, Slots, Apps
<1>5. TrialHasFallback'
  BY <1>4 DEF Reset, flashVars, Bootable, TrialHasFallback, TypeOK, Selected, OnTrialLost, Slots,
     Other, Apps
<1>6. BootInv'
  BY DEF Reset, flashVars, TrialHasFallback, BootInv, TypeOK, Selected, OnTrialLost,
     Loadable, Slots, Other, Apps
<1>7. QED
  BY <1>2, <1>3, <1>5, <1>6

\* The start of an app: what the boot loader chose is kept or given up.
LEMMA StartIInv ==
  ASSUME IInv, Start
  PROVE  IInv'
<1> USE DEF IInv
<1>1. CASE RecoveryStarts \/ MainServes
  <2>1. UNCHANGED <<flash, stored, stale, boot, entry, running, upload, appUp, uiUp, reboot>>
        /\ phase' \in {"serving", "up"}
    BY <1>1 DEF RecoveryStarts, MainServes, flashVars, bootVars, sessionVars
  <2>2. TypeOK' /\ ShaIsContent' /\ UploadedIsWhole' /\ TrialHasFallback'
    BY <2>1 DEF TypeOK, ShaIsContent, UploadedIsWhole, TrialHasFallback, Bootable, Target
  <2>3. UploadInv' /\ BootInv'
    BY <2>1 DEF UploadInv, BootInv, Target
  <2>4. QED
    BY <2>2, <2>3
<1>2. CASE MainFallsBack
  <2>1. /\ stored' = stored /\ upload' = upload /\ reboot' = reboot
        /\ appUp' = appUp /\ uiUp' = uiUp
        /\ upload = NoUpload /\ ~appUp /\ ~uiUp
        /\ running \in Slots
    BY <1>2 DEF MainFallsBack, sessionVars, UploadInv
  <2>2. \/ UNCHANGED <<flash, stale>>
        \/ /\ flash' = [flash EXCEPT !["storage"] = Blank]
           /\ stale' = IF stored["storage"] = "none" THEN stale ELSE stale \cup {"storage"}
    BY <1>2 DEF MainFallsBack, Format
  <2>3. \/ /\ boot' = "factory" /\ entry' = [s \in Slots |-> "none"]
           /\ running' = "factory" /\ phase' = "starting"
        \/ phase' = "serving" /\ UNCHANGED <<boot, entry, running>>
    BY <1>2 DEF MainFallsBack, SetBoot, bootVars
  <2>4. TypeOK'
    <3>1. Blank \in Contents /\ "storage" \in Parts
      BY DEF Blank, Torn, Contents, Parts
    <3>2. flash' \in [Parts -> Contents]
      BY <2>2, <3>1 DEF TypeOK
    <3>3. stale' \subseteq Parts
      BY <2>2, <3>1 DEF TypeOK
    <3>4. QED
      BY <2>1, <2>3, <3>2, <3>3 DEF TypeOK, Slots, Apps
  <2>5. ShaIsContent'
    BY <2>1, <2>2 DEF ShaIsContent, TypeOK
  <2>6. UploadedIsWhole' /\ UploadInv'
    BY <2>1, <2>2 DEF UploadedIsWhole, UploadInv, NoUpload
  <2>7. \A s \in Slots : flash'[s] = flash[s]
    BY <2>2 DEF TypeOK, Slots, Parts
  <2>8. TrialHasFallback' /\ BootInv'
    <3>1. CASE running' = "factory"
      BY <2>1, <2>3, <3>1 DEF TrialHasFallback, BootInv, Slots
    <3>2. CASE UNCHANGED <<boot, entry, running>>
      BY <2>1, <2>7, <3>2 DEF TrialHasFallback, BootInv, Bootable, Slots, Other
    <3>3. QED
      BY <2>3, <3>1, <3>2
  <2>9. QED
    BY <2>4, <2>5, <2>6, <2>8
<1>3. CASE MainConfirms
  <2> USE <1>3 DEF MainConfirms, flashVars, sessionVars
  <2>1. TypeOK'
    BY DEF TypeOK, Slots
  <2>2. ShaIsContent' /\ UploadedIsWhole' /\ UploadInv'
    BY DEF ShaIsContent, UploadedIsWhole, UploadInv, Bootable, Target
  <2>3. TrialHasFallback' /\ BootInv'
    <3>1. /\ UNCHANGED <<flash, boot, running>> /\ running \in Slots
          /\ \A s \in Slots :
               \/ entry'[s] = entry[s]
               \/ s = running /\ entry[s] = "pending" /\ entry'[s] = "valid"
      BY DEF TypeOK
    <3>2. TrialHasFallback'
      <4>1. ASSUME NEW s \in Slots, boot = s, entry'[s] \in {"new", "pending"},
                   entry'[Other(s)] = "valid"
            PROVE  Bootable(Other(s))
        <5>1. Other(s) \in Slots /\ entry[s] = entry'[s]
          BY <3>1, <4>1 DEF Other, Slots
        <5>2. CASE entry[Other(s)] = "valid"
          BY <4>1, <5>1, <5>2 DEF TrialHasFallback
        <5>3. CASE Other(s) = running
          BY <3>1, <5>3 DEF TrialHasFallback
        <5>4. QED
          BY <3>1, <4>1, <5>1, <5>2, <5>3
      <4>2. QED
        BY <3>1, <4>1 DEF TrialHasFallback, Bootable
    <3>3. BootInv'
      BY <3>1 DEF BootInv, Slots, Other
    <3>4. QED
      BY <3>2, <3>3
  <2>4. QED
    BY <2>1, <2>2, <2>3
<1>4. QED
  BY <1>1, <1>2, <1>3 DEF Start

\* An upload never touches the app that runs, nor the one to fall back to.
LEMMA StreamingIInv ==
  ASSUME IInv, Streaming
  PROVE  IInv'
<1> USE DEF IInv
<1> USE DEF At, Serving
<1>0. Target \in Slots /\ Target # running
  BY DEF Target, Other, TypeOK, Apps, Slots
<1>1. CASE ShaSkips \/ UploadBreaks \/ FinishEnds \/ FinishFails
  <2>1. /\ UNCHANGED <<flash, stored, stale, boot, entry, running, phase, appUp, uiUp, reboot>>
        /\ phase # "starting"
    BY <1>1 DEF ShaSkips, UploadBreaks, FinishEnds, FinishFails, Verifies, flashVars, bootVars
  <2>2. TypeOK'
    BY <1>1, <2>1 DEF ShaSkips, UploadBreaks, FinishEnds, FinishFails, TypeOK, Uploads,
       NoUpload, Parts, Slots
  <2>3. ShaIsContent' /\ UploadedIsWhole' /\ TrialHasFallback' /\ BootInv'
    BY <2>1 DEF ShaIsContent, UploadedIsWhole, TrialHasFallback, BootInv, Bootable, Target
  <2>4. UploadInv'
    BY <1>1, <2>1 DEF ShaSkips, UploadBreaks, FinishEnds, FinishFails, Verifies, UploadInv,
       Target, TypeOK, Uploads, NoUpload
  <2>5. QED
    BY <2>2, <2>3, <2>4
<1>2. CASE ShaForgotten \/ ShaKept
  <2>1. /\ UNCHANGED <<flash, boot, entry, running, phase, appUp, uiUp, reboot>>
        /\ phase # "starting"
        /\ upload.at = "begun" /\ upload' = [upload EXCEPT !.at = "cleared"]
        /\ upload.part \in Parts /\ upload.image \in Images
        /\ IF upload.part = "storage" THEN ~uiUp ELSE upload.part = Target /\ ~appUp
    BY <1>2 DEF ShaForgotten, ShaKept, bootVars, UploadInv, TypeOK, Uploads
  <2>2. \/ /\ stored' = [stored EXCEPT ![upload.part] = "none"]
           /\ stale' = stale \ {upload.part}
        \/ stored' = stored /\ stale' = stale \cup {upload.part}
    BY <1>2 DEF ShaForgotten, ShaKept
  <2>3. TypeOK'
    BY <2>1, <2>2 DEF TypeOK, Uploads
  <2>4. ShaIsContent'
    BY <2>1, <2>2 DEF ShaIsContent, TypeOK
  <2>5. UploadedIsWhole'
    BY <1>0, <2>1, <2>2 DEF UploadedIsWhole, Target, Bootable, Slots
  <2>6. TrialHasFallback' /\ BootInv'
    BY <2>1 DEF TrialHasFallback, BootInv, Bootable
  <2>7. UploadInv'
    BY <2>1, <2>2 DEF UploadInv, Target, TypeOK, Uploads, Slots, Parts
  <2>8. QED
    BY <2>3, <2>4, <2>5, <2>6, <2>7
<1>3. CASE Erase \/ WriteFirst
  <2> DEFINE p == upload.part
  <2>1. /\ UNCHANGED <<stored, stale, boot, entry, running, phase, appUp, uiUp, reboot>>
        /\ phase # "starting"
        /\ stored[p] = "none" \/ p \in stale
        /\ p \in Parts /\ upload.at \in {"cleared", "erased"} /\ upload.image \in Images
        /\ IF p = "storage" THEN ~uiUp ELSE p = Target /\ ~appUp
    BY <1>3 DEF Erase, WriteFirst, bootVars, UploadInv, TypeOK, Uploads
  <2>2. PICK i \in Images \cup {"none"} : flash' = [flash EXCEPT ![p] = Torn(i)]
    BY <1>3, <2>1, ImagesAssumption DEF Erase, WriteFirst, Blank
  <2>3. TypeOK'
    <3>1. Torn(i) \in Contents
      BY DEF Torn, Contents
    <3>2. flash' \in [Parts -> Contents]
      BY <2>2, <3>1 DEF TypeOK
    <3>3. upload' \in Uploads
      BY <1>3 DEF Erase, WriteFirst, TypeOK, Uploads
    <3>4. QED
      BY <2>1, <3>2, <3>3 DEF TypeOK
  <2>4. ShaIsContent' /\ UploadedIsWhole'
    BY <1>0, <2>1, <2>2 DEF ShaIsContent, UploadedIsWhole, Bootable, Target, TypeOK, Slots, Parts
  <2>5. UploadInv'
    <3>1. CASE Erase
      BY <3>1, <2>1 DEF Erase, UploadInv, Target, TypeOK, Uploads
    <3>2. CASE WriteFirst
      BY <3>2, <2>1, ImagesAssumption DEF WriteFirst, UploadInv, Target, TypeOK, Uploads, Torn
    <3>3. QED
      BY <1>3, <3>1, <3>2
  <2>6. \A s \in Parts \ {p} : flash'[s] = flash[s]
    BY <2>1, <2>2 DEF TypeOK
  <2>7. TrialHasFallback'
    <3>1. running \in Slots => Bootable(running)'
      BY <1>0, <2>1, <2>6 DEF TrialHasFallback, Bootable, Slots, Parts
    <3>2. ASSUME NEW s \in Slots, boot = s, entry[s] \in {"new", "pending"},
                 entry[Other(s)] = "valid"
          PROVE  Bootable(Other(s))'
      <4>1. Bootable(Other(s)) /\ Other(s) \in Parts
        BY <3>2 DEF TrialHasFallback, Other, Slots, Parts
      <4>2. CASE WriteFirst
        <5>1. ~Bootable(p)
          BY <4>2 DEF WriteFirst, UploadInv, Blank, Torn, Bootable
        <5>2. QED
          BY <4>1, <5>1, <2>6 DEF Bootable, Other
      <4>3. CASE Erase
        <5>1. running = "factory" => Target = "ota_0"
          BY DEF Target
        <5>2. running \in Slots => Target = Other(running)
          BY DEF Target, Slots
        <5>3. Other(s) # p
          BY <4>3, <3>2, <2>1, <5>1, <5>2 DEF Erase, MayErase, BootInv, TypeOK, Apps, Slots,
             Other
        <5>4. QED
          BY <5>3, <4>1, <2>6 DEF Bootable, Other
      <4>4. QED
        BY <1>3, <4>2, <4>3
    <3>3. QED
      BY <2>1, <3>1, <3>2 DEF TrialHasFallback, Bootable, Other
  <2>8. BootInv'
    BY <2>1 DEF BootInv
  <2>9. QED
    BY <2>3, <2>4, <2>5, <2>7, <2>8
<1>4. CASE WriteRest
  <2> DEFINE p == upload.part
  <2>1. /\ UNCHANGED <<stored, stale, boot, entry, running, phase, appUp, uiUp, reboot>>
        /\ phase # "starting"
        /\ upload.at = "streaming" /\ upload' = [upload EXCEPT !.at = "written"]
        /\ stored[p] = "none" \/ p \in stale
        /\ p \in Parts /\ flash[p].image \in Images /\ ~flash[p].whole
        /\ flash' = [flash EXCEPT ![p] = Whole(flash[p].image)]
    BY <1>4 DEF WriteRest, bootVars, UploadInv, TypeOK, Uploads
  <2>2. TypeOK'
    <3>1. Whole(flash[p].image) \in Contents
      BY <2>1 DEF Whole, Contents
    <3>2. QED
      BY <2>1, <3>1 DEF TypeOK, Uploads
  <2>3. \A s \in Parts : flash[s].whole => flash'[s] = flash[s]
    BY <2>1 DEF TypeOK
  <2>4. ShaIsContent'
    BY <2>1 DEF ShaIsContent, TypeOK
  <2>5. UploadedIsWhole' /\ TrialHasFallback' /\ BootInv'
    BY <1>0, <2>1, <2>3 DEF UploadedIsWhole, TrialHasFallback, BootInv, Bootable, Target, Slots,
       Parts, Other
  <2>6. UploadInv'
    BY <2>1 DEF UploadInv, Target, TypeOK, Uploads, Whole
  <2>7. QED
    BY <2>2, <2>4, <2>5, <2>6
<1>5. CASE FinishStores \/ NothingStored
  <2>1. /\ UNCHANGED <<flash, boot, entry, running, phase, reboot>>
        /\ phase # "starting" /\ upload' = NoUpload
        /\ appUp' = (appUp \/ upload.part # "storage")
        /\ uiUp' = (uiUp \/ upload.part = "storage")
        /\ upload.image \in Images /\ upload.part \in Parts
        /\ upload.part # "storage" => upload.part = Target
    BY <1>5 DEF FinishStores, NothingStored, Succeed, bootVars, UploadInv, TypeOK, Uploads
  <2>2. \/ /\ upload.at = "ended"
           /\ stored' = [stored EXCEPT ![upload.part] = upload.image]
           /\ stale' = stale \ {upload.part}
        \/ upload.at \in {"skipping", "ended"} /\ stored' = stored /\ stale' = stale
    BY <1>5 DEF FinishStores, NothingStored
  <2>3. upload.at = "ended" => flash[upload.part] = Whole(upload.image)
    BY DEF UploadInv, TypeOK, Contents, Whole, Uploads
  <2>4. upload.part \notin stale' =>
          /\ flash[upload.part] = Whole(upload.image)
          /\ upload.part \in Slots => Kind(upload.image) = "app"
    <3>1. CASE upload.at = "ended"
      BY <2>3, <3>1 DEF UploadInv
    <3>2. CASE upload.at = "skipping"
      BY <2>1, <2>2, <3>2, ImagesAssumption DEF UploadInv, ShaIsContent
    <3>3. QED
      BY <2>2, <3>1, <3>2
  <2>5. TypeOK'
    BY <2>1, <2>2 DEF TypeOK, Uploads, NoUpload, Parts
  <2>6. ShaIsContent'
    BY <2>1, <2>2, <2>3 DEF ShaIsContent, TypeOK
  <2>7. UploadedIsWhole'
    BY <1>0, <2>1, <2>2, <2>4 DEF UploadedIsWhole, Bootable, Target, Whole, TypeOK, Slots
  <2>8. TrialHasFallback' /\ BootInv'
    BY <2>1 DEF TrialHasFallback, BootInv, Bootable
  <2>9. UploadInv'
    BY <2>1, <2>2 DEF UploadInv, NoUpload, TypeOK, Parts
  <2>10. QED
    BY <2>5, <2>6, <2>7, <2>8, <2>9
<1>6. QED
  BY <1>1, <1>2, <1>3, <1>4, <1>5 DEF Streaming

\* Requests select apps that are whole, and begin uploads by clearing the flag.
LEMMA RequestsIInv ==
  ASSUME IInv, Requests
  PROVE  IInv'
<1> USE DEF IInv
<1> USE DEF Idle, Serving
<1>0. Target \in Slots /\ Target # running
  BY DEF Target, Other, TypeOK, Apps, Slots
<1>1. ASSUME NEW i \in Images, UploadApp(i) \/ UploadUi(i) PROVE IInv'
  <2>1. UNCHANGED <<flash, stored, stale, boot, entry, running, phase, reboot>>
        /\ phase # "starting"
    BY <1>1 DEF UploadApp, UploadUi, flashVars, bootVars
  <2>2. TypeOK'
    <3>1. upload' \in Uploads
      BY <1>0, <1>1 DEF UploadApp, UploadUi, Uploads, Parts
    <3>2. QED
      BY <1>1, <2>1, <3>1 DEF UploadApp, UploadUi, TypeOK
  <2>3. UploadedIsWhole' /\ UploadInv'
    BY <1>0, <1>1, <2>1 DEF UploadApp, UploadUi, UploadedIsWhole, UploadInv, Bootable, Target,
       Slots, Other
  <2>4. ShaIsContent' /\ TrialHasFallback' /\ BootInv'
    BY <2>1 DEF ShaIsContent, TrialHasFallback, BootInv, Bootable
  <2>5. QED
    BY <2>2, <2>3, <2>4
<1>2. CASE CommitUi
  <2> USE <1>2 DEF CommitUi, flashVars, bootVars
  <2>1. TypeOK' /\ ShaIsContent' /\ TrialHasFallback' /\ BootInv'
    BY DEF TypeOK, ShaIsContent, TrialHasFallback, BootInv, Bootable
  <2>2. UploadedIsWhole' /\ UploadInv'
    BY DEF UploadedIsWhole, UploadInv, Bootable, Target
  <2>3. QED
    BY <2>1, <2>2
<1>3. CASE RebootRecovery \/ FactoryReset
  <2>1. /\ UNCHANGED <<flash, stale, running, phase, upload, appUp, uiUp>>
        /\ stored' = stored \/ stored' = [q \in Parts |-> "none"]
        /\ reboot' = TRUE /\ upload.at = "idle" /\ phase # "starting"
        /\ \/ UNCHANGED <<boot, entry>>
           \/ boot' = "factory" /\ entry' = [s \in Slots |-> "none"] /\ running \in Slots
    BY <1>3 DEF RebootRecovery, FactoryReset, SetBoot, flashVars, bootVars, Slots
  <2>2. TypeOK'
    BY <2>1 DEF TypeOK, Apps, Slots
  <2>3. ShaIsContent' /\ UploadedIsWhole' /\ UploadInv'
    BY <2>1 DEF ShaIsContent, UploadedIsWhole, UploadInv, Bootable, Target, Slots, Parts
  <2>4. TrialHasFallback' /\ BootInv'
    BY <2>1 DEF TrialHasFallback, BootInv, Bootable, Slots
  <2>5. QED
    BY <2>2, <2>3, <2>4
<1>4. CASE CommitApp \/ BootMain
  <2>1. PICK a \in Slots : /\ SetBoot(a)
                           /\ a = Target \/ running = "factory"
    BY <1>0, <1>4 DEF CommitApp, BootMain, Winner, Slots
  <2>2. /\ UNCHANGED <<flash, stored, stale, running, phase, upload, appUp, uiUp>>
        /\ reboot' = TRUE /\ upload.at = "idle" /\ phase # "starting"
        /\ Bootable(a) /\ boot' = a /\ entry' = [entry EXCEPT ![a] = "new"]
    BY <1>4, <2>1 DEF CommitApp, BootMain, SetBoot, flashVars, Slots
  <2>3. TypeOK'
    BY <2>2 DEF TypeOK, Apps, Slots
  <2>4. ShaIsContent' /\ UploadedIsWhole' /\ UploadInv'
    BY <2>2 DEF ShaIsContent, UploadedIsWhole, UploadInv, Bootable, Target
  <2>5. TrialHasFallback'
    BY <2>1, <2>2 DEF TrialHasFallback, BootInv, Bootable, TypeOK, Slots, Apps, Other, Target
  <2>6. BootInv'
    BY <2>1, <2>2 DEF BootInv, TypeOK, Slots, Apps, Other, Target
  <2>7. QED
    BY <2>3, <2>4, <2>5, <2>6
<1>5. QED
  BY <1>1, <1>2, <1>3, <1>4 DEF Requests

LEMMA NextIInv == IInv /\ [Next]_vars => IInv'
<1> SUFFICES ASSUME IInv, [Next]_vars PROVE IInv'
  OBVIOUS
<1>1. CASE PowerFails \/ RebootTask
  BY <1>1, ResetIInv DEF PowerFails, RebootTask
<1>2. CASE UNCHANGED vars
  BY <1>2 DEF vars, flashVars, bootVars, sessionVars, IInv, TypeOK, ShaIsContent,
     UploadedIsWhole, TrialHasFallback, UploadInv, BootInv, Bootable, Target
<1>3. QED
  BY <1>1, <1>2, StartIInv, StreamingIInv, RequestsIInv DEF Next

\* Every state reachable from a factory board satisfies the invariant.
THEOREM Invariance == Spec => []IInv
  BY InitIInv, NextIInv, PTL DEF Spec

\* The state stays well typed, whatever images exist.
THEOREM TypeCorrect == Spec => []TypeOK
<1>1. IInv => TypeOK
  BY DEF IInv
<1>2. QED
  BY <1>1, Invariance, PTL

\* SHA-skip is sound wherever an upload breaks off or power fails: but after
\* LittleFS was formatted or a delete of the record failed, a stored SHA is that
\* of what the partition holds.
THEOREM ShaSkipSound == Spec => []ShaIsContent
<1>1. IInv => ShaIsContent
  BY DEF IInv
<1>2. QED
  BY <1>1, Invariance, PTL

\* The session flags never outlive the image they vouch for, a slot with firmware
\* that boots or a whole file in storage, with the same exception.
THEOREM CommitSound == Spec => []UploadedIsWhole
<1>1. IInv => UploadedIsWhole
  BY DEF IInv
<1>2. QED
  BY <1>1, Invariance, PTL

\* An update can always be rolled back: the confirmed app next to one on trial,
\* and the one that runs, are never overwritten.
THEOREM RollbackSound == Spec => []TrialHasFallback
<1>1. IInv => TrialHasFallback
  BY DEF IInv
<1>2. QED
  BY <1>1, Invariance, PTL
=============================================================================

--------------------------- MODULE CamCoreProofs ---------------------------
(***************************************************************************)
(* For every set of slots, every assignment of drivers and every length of *)
(* the grace window: CamCore is type correct, its grace windows are safe,  *)
(* and no command reaches a camera against its slot's intent.              *)
(*                                                                         *)
(* The same invariant holds while a shutdown works on the slots            *)
(* (ShutdownCameras), whose manager does nothing it would not do alone.    *)
(***************************************************************************)
EXTENDS ShutdownCameras, FiniteSetTheorems, TLAPS

\* The inductive invariant.  GraceProtectsIntent is not inductive by itself: an
\* intent set on a slot that is not ready commands nothing, and only
\* NotReadyIsQuiet says that no window is open on such a slot.
CoreInv == TypeOK /\ NotReadyIsQuiet /\ GraceProtectsIntent

\* A decision of the mismatch poll other than "none" is the intent itself.
LEMMA MismatchIsIntent ==
  ASSUME NEW want \in Intents, NEW actual \in Reports, NEW graceActive \in BOOLEAN
  PROVE  LET c == MismatchStep(want, actual, graceActive)
         IN  c # "none" => c \in Commands /\ c = want /\ ~graceActive
BY DEF MismatchStep, Intents, Reports, Commands

\* Handing a command to drivers keeps the queues and caches well typed.
LEMMA PostTyped ==
  ASSUME TypeOK, NEW T \in SUBSET Slots, NEW c \in Commands, Post(T, c)
  PROVE  /\ queue' \in [Slots -> Seq(Commands)]
         /\ cached' \in [Slots -> Reports]
<1>1. ASSUME NEW s \in Slots PROVE Append(queue[s], c) \in Seq(Commands)
  BY DEF TypeOK
<1>2. Shown(c) \in Reports
  BY DEF Shown, Reports
<1>3. QED
  BY <1>1, <1>2 DEF Post, TypeOK

\* Issuing the present intent to ready slots keeps the invariant's parts.
LEMMA IssueTyped ==
  ASSUME CamCoreAssumption, TypeOK,
         NEW T \in SUBSET Slots, NEW R \in SUBSET Slots, NEW c \in Commands,
         NEW by \in {"poll", "intent"}, Issue(T, R, c, by)
  PROVE  /\ grace' \in [Slots -> 0..Grace]
         /\ last' \in [Slots -> Commands \cup {"none"}]
         /\ path' \in [Slots -> {"none", "poll", "intent"}]
         /\ sent' \in SUBSET Slots
         /\ queue' \in [Slots -> Seq(Commands)]
         /\ cached' \in [Slots -> Reports]
<1>1. Grace \in 0..Grace
  BY DEF CamCoreAssumption
<1>2. /\ queue' \in [Slots -> Seq(Commands)]
      /\ cached' \in [Slots -> Reports]
  BY PostTyped DEF Issue
<1>3. QED
  BY <1>1, <1>2 DEF Issue, TypeOK

LEMMA CoreInit == CamCoreAssumption /\ Init => CoreInv
<1> SUFFICES ASSUME CamCoreAssumption, Init PROVE CoreInv
  OBVIOUS
<1>1. TypeOK
  BY DEF Init, TypeOK, CamCoreAssumption, Intents, Commands, Reports, RealState
<1>2. NotReadyIsQuiet /\ GraceProtectsIntent
  BY DEF Init, NotReadyIsQuiet, GraceProtectsIntent
<1>3. QED
  BY <1>1, <1>2 DEF CoreInv

\* Registry and readiness steps: they close windows, never open one.
LEMMA RegistryKeepsInv ==
  ASSUME CamCoreAssumption, CoreInv, NEW s \in Slots, Registry(s) \/ Readiness(s)
  PROVE  CoreInv'
<1> USE DEF CoreInv
<1>1. CASE RegisterSlot(s)
  <2>1. TypeOK'
    BY <1>1 DEF RegisterSlot, TypeOK, envVars, Intents, Commands, CamCoreAssumption
  <2>2. NotReadyIsQuiet'
    BY <1>1 DEF RegisterSlot, TypeOK, NotReadyIsQuiet
  <2>3. GraceProtectsIntent'
    BY <1>1 DEF RegisterSlot, TypeOK, GraceProtectsIntent
  <2>4. QED
    BY <2>1, <2>2, <2>3
<1>2. CASE AttachDriver(s)
  <2>1. TypeOK'
    BY <1>2 DEF AttachDriver, TypeOK, envVars
  <2>2. NotReadyIsQuiet' /\ GraceProtectsIntent'
    BY <1>2 DEF AttachDriver, TypeOK, NotReadyIsQuiet, GraceProtectsIntent
  <2>3. QED
    BY <2>1, <2>2
<1>3. CASE TeardownSlot(s)
  <2>1. TypeOK'
    BY <1>3 DEF TeardownSlot, TeardownLocked, TypeOK, Reports, CamCoreAssumption
  <2>2. NotReadyIsQuiet' /\ GraceProtectsIntent'
    BY <1>3 DEF TeardownSlot, TeardownLocked, TypeOK, NotReadyIsQuiet, GraceProtectsIntent
  <2>3. QED
    BY <2>1, <2>2
<1>4. CASE UnregisterTeardown(s)
  <2>1. TypeOK'
    BY <1>4 DEF UnregisterTeardown, TeardownLocked, TypeOK, Reports, CamCoreAssumption
  <2>2. NotReadyIsQuiet' /\ GraceProtectsIntent'
    BY <1>4 DEF UnregisterTeardown, TeardownLocked, TypeOK, NotReadyIsQuiet, GraceProtectsIntent
  <2>3. QED
    BY <2>1, <2>2
<1>5. CASE UnregisterClear(s)
  <2>1. TypeOK'
    BY <1>5 DEF UnregisterClear, TypeOK, envVars
  <2>2. NotReadyIsQuiet' /\ GraceProtectsIntent'
    BY <1>5 DEF UnregisterClear, TypeOK, NotReadyIsQuiet, GraceProtectsIntent
  <2>3. QED
    BY <2>1, <2>2
<1>6. CASE SetReady(s)
  <2>1. TypeOK'
    BY <1>6 DEF SetReady, TypeOK, envVars
  <2>2. NotReadyIsQuiet' /\ GraceProtectsIntent'
    BY <1>6 DEF SetReady, TypeOK, NotReadyIsQuiet, GraceProtectsIntent
  <2>3. QED
    BY <2>1, <2>2
<1>7. CASE SetNotReady(s)
  <2>1. TypeOK'
    BY <1>7 DEF SetNotReady, TypeOK, envVars, CamCoreAssumption
  <2>2. NotReadyIsQuiet' /\ GraceProtectsIntent'
    BY <1>7 DEF SetNotReady, TypeOK, NotReadyIsQuiet, GraceProtectsIntent
  <2>3. QED
    BY <2>1, <2>2
<1>8. CASE DeleteTimer(s)
  <2>1. TypeOK'
    BY <1>8 DEF DeleteTimer, TypeOK, envVars
  <2>2. NotReadyIsQuiet' /\ GraceProtectsIntent'
    BY <1>8 DEF DeleteTimer, TypeOK, NotReadyIsQuiet, GraceProtectsIntent
  <2>3. QED
    BY <2>1, <2>2
<1>9. QED
  BY <1>1, <1>2, <1>3, <1>4, <1>5, <1>6, <1>7, <1>8 DEF Registry, Readiness

\* The mismatch poll opens a window only for the present intent.
LEMMA PollKeepsInv ==
  ASSUME CamCoreAssumption, CoreInv, NEW s \in Slots, PollTimer(s)
  PROVE  CoreInv'
<1> DEFINE c == MismatchStep(desired[s], cached[s], grace[s] > 0)
<1>1. /\ registered[s] /\ attached[s] /\ ready[s] /\ c # "none"
      /\ Issue({s}, {s}, c, "poll")
      /\ UNCHANGED <<registered, attached, ready, timer, stray, unreg, desired, link, reply, camera, presses>>
  BY DEF PollTimer, coreVars
<1>2. c \in Commands /\ c = desired[s]
  <2>1. desired[s] \in Intents /\ cached[s] \in Reports /\ (grace[s] > 0) \in BOOLEAN
    BY DEF CoreInv, TypeOK
  <2>2. QED
    BY <2>1, <1>1, MismatchIsIntent
<1> HIDE DEF c
<1>3. TypeOK'
  <2>1. /\ grace' \in [Slots -> 0..Grace]
        /\ last' \in [Slots -> Commands \cup {"none"}]
        /\ path' \in [Slots -> {"none", "poll", "intent"}]
        /\ sent' \in SUBSET Slots
        /\ queue' \in [Slots -> Seq(Commands)]
        /\ cached' \in [Slots -> Reports]
    BY <1>1, <1>2, IssueTyped DEF CoreInv
  <2>2. QED
    BY <2>1, <1>1 DEF CoreInv, TypeOK
<1>4. NotReadyIsQuiet' /\ GraceProtectsIntent'
  BY <1>1, <1>2 DEF Issue, CoreInv, TypeOK, NotReadyIsQuiet, GraceProtectsIntent
<1>5. QED
  BY <1>3, <1>4 DEF CoreInv

\* A change of intent either commands the slot at once, opening the window for
\* the new intent, or finds it not ready, where no window is open.
LEMMA DispatchKeepsInv ==
  ASSUME CamCoreAssumption, CoreInv, NEW want \in Intents,
         SetDesiredAll(want) \/ \E s \in Slots : SetDesiredSlot(s, want)
  PROVE  CoreInv'
<1>1. PICK C \in SUBSET Slots, T \in SUBSET Slots, R \in SUBSET Slots :
        /\ desired' = [s \in Slots |-> IF s \in C THEN want ELSE desired[s]]
        /\ T = CommandedNow(C, want)
        /\ IF T = {} THEN IssueNothing ELSE Issue(T, R, want, "intent")
        /\ \A s \in C : registered[s]
        /\ UNCHANGED <<registered, attached, ready, timer, stray, unreg, link, reply, camera, presses>>
  <2>1. CASE SetDesiredAll(want)
    <3>1. CommandedNow(Slots, want) = CommandedNow({s \in Slots : registered[s]}, want)
      BY DEF CommandedNow
    <3>2. CommandedNow(Slots, want) \in SUBSET Slots
      BY DEF CommandedNow
    <3>3. WaveReach(CommandedNow(Slots, want)) \in SUBSET Slots
      BY DEF CommandedNow, WaveReach
    <3>4. desired' = [s \in Slots |->
            IF s \in {x \in Slots : registered[x]} THEN want ELSE desired[s]]
      BY <2>1 DEF SetDesiredAll
    <3>5. QED
      BY <2>1, <3>1, <3>2, <3>3, <3>4 DEF SetDesiredAll, coreVars
  <2>2. ASSUME NEW s \in Slots, SetDesiredSlot(s, want)
        PROVE  \E C \in SUBSET Slots, T \in SUBSET Slots, R \in SUBSET Slots :
                 /\ desired' = [x \in Slots |-> IF x \in C THEN want ELSE desired[x]]
                 /\ T = CommandedNow(C, want)
                 /\ IF T = {} THEN IssueNothing ELSE Issue(T, R, want, "intent")
                 /\ \A x \in C : registered[x]
                 /\ UNCHANGED <<registered, attached, ready, timer, stray, unreg, link, reply, camera, presses>>
    <3>1. CommandedNow({s}, want) \in SUBSET Slots
      BY DEF CommandedNow
    <3>2. desired' = [x \in Slots |-> IF x \in {s} THEN want ELSE desired[x]]
      BY <2>2 DEF SetDesiredSlot, CoreInv, TypeOK
    <3>3. \A x \in {s} : registered[x]
      BY <2>2 DEF SetDesiredSlot
    <3>4. UNCHANGED <<registered, attached, ready, timer, stray, unreg, link, reply, camera, presses>>
      BY <2>2 DEF SetDesiredSlot, coreVars
    <3>5. LET T == CommandedNow({s}, want)
          IN  IF T = {} THEN IssueNothing ELSE Issue(T, T, want, "intent")
      BY <2>2 DEF SetDesiredSlot
    <3>6. {s} \in SUBSET Slots
      OBVIOUS
    <3>7. QED
      BY <3>1, <3>2, <3>3, <3>4, <3>5, <3>6
  <2>3. QED
    BY <2>1, <2>2
<1>2. T # {} => want \in Commands
  BY <1>1 DEF CommandedNow, Intents, Commands
<1>3. CASE T = {}
  <2>1. TypeOK'
    BY <1>1, <1>3 DEF IssueNothing, CoreInv, TypeOK
  <2>2. NotReadyIsQuiet'
    BY <1>1, <1>3 DEF IssueNothing, CoreInv, NotReadyIsQuiet
  <2>3. GraceProtectsIntent'
    <3>1. ASSUME NEW s \in Slots, grace'[s] > 0
          PROVE  ready'[s] /\ attached'[s] /\ (desired'[s] # "unknown" => last'[s] = desired'[s])
      <4>1. grace[s] > 0 /\ ready[s] /\ attached[s]
        BY <1>1, <1>3, <3>1 DEF IssueNothing, CoreInv, GraceProtectsIntent
      <4>2. s \in C => desired[s] = want \/ want = "unknown"
        BY <1>1, <1>3, <4>1 DEF CommandedNow
      <4>3. desired'[s] # "unknown" => desired[s] = desired'[s]
        BY <1>1, <4>2
      <4>4. QED
        BY <1>1, <1>3, <4>1, <4>3 DEF IssueNothing, CoreInv, GraceProtectsIntent
    <3>2. QED
      BY <3>1 DEF GraceProtectsIntent
  <2>4. QED
    BY <2>1, <2>2, <2>3 DEF CoreInv
<1>4. CASE T # {}
  <2>1. Issue(T, R, want, "intent") /\ want \in Commands
    BY <1>1, <1>2, <1>4
  <2>2. TypeOK'
    <3>1. /\ grace' \in [Slots -> 0..Grace]
          /\ last' \in [Slots -> Commands \cup {"none"}]
          /\ path' \in [Slots -> {"none", "poll", "intent"}]
          /\ sent' \in SUBSET Slots
          /\ queue' \in [Slots -> Seq(Commands)]
          /\ cached' \in [Slots -> Reports]
      BY <2>1, IssueTyped DEF CoreInv
    <3>2. QED
      BY <3>1, <1>1 DEF CoreInv, TypeOK
  <2>3. NotReadyIsQuiet'
    BY <1>1, <2>1 DEF Issue, CommandedNow, CoreInv, TypeOK, NotReadyIsQuiet
  <2>4. GraceProtectsIntent'
    <3>1. ASSUME NEW s \in Slots, grace'[s] > 0
          PROVE  ready'[s] /\ attached'[s] /\ (desired'[s] # "unknown" => last'[s] = desired'[s])
      <4>1. CASE s \in T
        BY <4>1, <1>1, <2>1 DEF Issue, CommandedNow
      <4>2. CASE s \notin T
        <5>1. grace[s] > 0 /\ ready[s] /\ attached[s] /\ last'[s] = last[s]
          BY <4>2, <3>1, <2>1 DEF Issue, CoreInv, GraceProtectsIntent
        <5>2. s \in C => desired[s] = want
          BY <4>2, <1>1, <5>1, <2>1 DEF CommandedNow, Commands
        <5>3. QED
          BY <5>1, <5>2, <1>1 DEF CoreInv, GraceProtectsIntent
      <4>3. QED
        BY <4>1, <4>2
    <3>2. QED
      BY <3>1 DEF GraceProtectsIntent
  <2>5. QED
    BY <2>2, <2>3, <2>4 DEF CoreInv
<1>5. QED
  BY <1>3, <1>4

\* The environment only lets windows run out.
LEMMA EnvironmentKeepsInv ==
  ASSUME CamCoreAssumption, CoreInv, NEW s \in Slots, Environment(s)
  PROVE  CoreInv'
<1>1. /\ UNCHANGED <<registered, attached, ready, timer, stray, unreg, desired, last, path>>
      /\ sent' = {}
      /\ UNCHANGED grace \/ (grace[s] > 0 /\ grace' = [grace EXCEPT ![s] = @ - 1])
  BY DEF Environment, LinkUp, LinkDown, Execute, Lose, Sample, Arrive, Press, Tick, coreVars
<1>2. grace' \in [Slots -> 0..Grace]
  <2>1. CASE UNCHANGED grace
    BY <2>1 DEF CoreInv, TypeOK
  <2>2. CASE grace[s] > 0 /\ grace' = [grace EXCEPT ![s] = @ - 1]
    <3>1. grace \in [Slots -> 0..Grace] /\ grace[s] \in 0..Grace /\ Grace \in Nat
      BY DEF CoreInv, TypeOK, CamCoreAssumption
    <3>2. grace[s] - 1 \in 0..Grace
      BY <2>2, <3>1
    <3>3. QED
      BY <2>2, <3>1, <3>2
  <2>3. QED
    BY <1>1, <2>1, <2>2
<1>3. \A x \in Slots : grace'[x] > 0 => grace[x] > 0
  BY <1>1 DEF CoreInv, TypeOK
<1>4. NotReadyIsQuiet' /\ GraceProtectsIntent'
  BY <1>1, <1>2, <1>3 DEF CoreInv, TypeOK, NotReadyIsQuiet, GraceProtectsIntent
<1>5. /\ link' \in [Slots -> BOOLEAN]
      /\ cached' \in [Slots -> Reports]
      /\ queue' \in [Slots -> Seq(Commands)]
      /\ reply' \in [Slots -> Reports \cup {"none"}]
      /\ camera' \in [Slots -> RealState]
      /\ presses' \in 0..MaxPresses
  <2> USE DEF CoreInv, TypeOK
  <2>1. CASE LinkUp(s) \/ Tick(s)
    BY <2>1 DEF LinkUp, Tick, envVars
  <2>2. CASE LinkDown(s)
    BY <2>2 DEF LinkDown, Reports
  <2>3. CASE Execute(s)
    <3>1. Tail(queue[s]) \in Seq(Commands)
      BY <2>3 DEF Execute
    <3>2. \A r \in Reaction(s, Head(queue[s])) : r \in RealState
      BY DEF Reaction, RealState
    <3>3. QED
      BY <2>3, <3>1, <3>2 DEF Execute
  <2>4. CASE Lose(s)
    <3>1. Tail(queue[s]) \in Seq(Commands)
      BY <2>4 DEF Lose
    <3>2. QED
      BY <2>4, <3>1 DEF Lose
  <2>5. CASE Sample(s)
    <3>1. Answers(s) \subseteq Reports
      BY DEF Answers, Reports, RealState
    <3> QED
      BY <2>5, <3>1 DEF Sample
  <2>6. CASE Arrive(s)
    BY <2>6 DEF Arrive, Reports, RealState
  <2>7. CASE Press(s)
    BY <2>7 DEF Press, CamCoreAssumption
  <2>8. QED
    BY <2>1, <2>2, <2>3, <2>4, <2>5, <2>6, <2>7 DEF Environment
<1>6. TypeOK'
  BY <1>1, <1>2, <1>5 DEF CoreInv, TypeOK
<1>7. QED
  BY <1>4, <1>6 DEF CoreInv

LEMMA CoreStep == CamCoreAssumption /\ CoreInv /\ [Next]_vars => CoreInv'
<1> SUFFICES ASSUME CamCoreAssumption, CoreInv, [Next]_vars PROVE CoreInv'
  OBVIOUS
<1>1. ASSUME NEW s \in Slots, Registry(s) \/ Readiness(s) PROVE CoreInv'
  BY <1>1, RegistryKeepsInv
<1>2. ASSUME NEW s \in Slots, PollTimer(s) PROVE CoreInv'
  BY <1>2, PollKeepsInv
<1>3. ASSUME NEW s \in Slots, Environment(s) PROVE CoreInv'
  BY <1>3, EnvironmentKeepsInv
<1>4. ASSUME NEW s \in Slots, NEW want \in Commands, SetDesiredSlot(s, want) PROVE CoreInv'
  <2>1. want \in Intents
    BY DEF Commands, Intents
  <2>2. QED
    BY <1>4, <2>1, DispatchKeepsInv
<1>5. ASSUME NEW want \in Intents, SetDesiredAll(want) PROVE CoreInv'
  BY <1>5, DispatchKeepsInv
<1>6. CASE UNCHANGED vars
  BY <1>6 DEF vars, CoreInv, TypeOK, NotReadyIsQuiet, GraceProtectsIntent
<1>7. QED
  BY <1>1, <1>2, <1>3, <1>4, <1>5, <1>6 DEF Next

\* Every slot's record stays well typed, a slot that is not ready keeps neither
\* timer nor window, and a grace window always protects the present intent.
THEOREM CoreInvariance == Spec => []CoreInv
<1>1. Init => CoreInv
  BY CoreInit, CamCoreAssumption
<1>2. CoreInv /\ [Next]_vars => CoreInv'
  BY CoreStep, CamCoreAssumption
<1>3. QED
  BY <1>1, <1>2, PTL DEF Spec

\* Type correctness of the intent engine.
THEOREM CamCoreTyped == Spec => []TypeOK
<1>1. CoreInv => TypeOK
  BY DEF CoreInv
<1>2. QED
  BY <1>1, CoreInvariance, PTL

\* cam_core's grace window never hides a command that contradicts the intent.
THEOREM GraceWindowSafe == Spec => []GraceProtectsIntent
<1>1. CoreInv => GraceProtectsIntent
  BY DEF CoreInv
<1>2. QED
  BY <1>1, CoreInvariance, PTL

\* A slot that is not ready keeps neither a poll timer nor a grace window.
THEOREM NotReadySlotsQuiet == Spec => []NotReadyIsQuiet
<1>1. CoreInv => NotReadyIsQuiet
  BY DEF CoreInv
<1>2. QED
  BY <1>1, CoreInvariance, PTL

-----------------------------------------------------------------------------
(***************************************************************************)
(* The commands.                                                           *)
(***************************************************************************)

\* What a dispatch adds to the queues is the command it issues.
LEMMA PostAdds ==
  ASSUME TypeOK, NEW T, NEW c, Post(T, c), NEW s \in Slots, Len(queue'[s]) > Len(queue[s])
  PROVE  s \in T /\ queue'[s][Len(queue'[s])] = c
<1>1. queue'[s] = IF s \in T /\ Accepts(s) THEN Append(queue[s], c) ELSE queue[s]
  BY DEF Post
<1>2. queue[s] \in Seq(Commands) /\ Len(queue[s]) \in Nat
  BY DEF TypeOK
<1>3. s \in T /\ queue'[s] = Append(queue[s], c)
  BY <1>1, <1>2
<1> QED
  BY <1>2, <1>3

\* cam_core.c: a wave that is broadcast reaches cameras whose slots it did not mean
\* to command, but never one that wants something else: the intent of every
\* registered slot is set before the first command goes out.
THEOREM CommandsIntended == Spec => CommandsFollowIntent
<1> DEFINE Follows(s) ==
      Len(queue'[s]) > Len(queue[s]) /\ registered[s] /\ desired'[s] # "unknown"
        => queue'[s][Len(queue'[s])] = desired'[s]
<1>1. TypeOK /\ [Next]_vars =>
        [\A s \in Slots :
           Len(queue'[s]) > Len(queue[s]) /\ registered[s] /\ desired'[s] # "unknown"
             => queue'[s][Len(queue'[s])] = desired'[s]]_vars
  <2> SUFFICES ASSUME TypeOK, Next, NEW s \in Slots PROVE Follows(s)
    OBVIOUS
  <2>1. ASSUME queue' = queue PROVE Follows(s)
    BY <2>1 DEF TypeOK
  <2>2. ASSUME NEW t \in Slots, Execute(t) \/ Lose(t) \/ LinkDown(t) PROVE Follows(s)
    <3>1. queue[s] \in Seq(Commands) /\ Len(queue[s]) \in Nat
      BY DEF TypeOK
    <3>2. queue'[s] \in {queue[s], <<>>} \/ (queue[s] # <<>> /\ queue'[s] = Tail(queue[s]))
      BY <2>2 DEF Execute, Lose, LinkDown, TypeOK
    <3>3. CASE queue'[s] = queue[s]
      BY <3>1, <3>3
    <3>4. CASE queue'[s] = <<>>
      BY <3>1, <3>4
    <3>5. CASE queue[s] # <<>> /\ queue'[s] = Tail(queue[s])
      <4>1. Len(Tail(queue[s])) = Len(queue[s]) - 1
        BY <3>1, <3>5
      <4> QED
        BY <3>1, <3>5, <4>1
    <3> QED
      BY <3>2, <3>3, <3>4, <3>5
  <2>3. ASSUME NEW t \in Slots, PollTimer(t) PROVE Follows(s)
    <3> DEFINE c == MismatchStep(desired[t], cached[t], grace[t] > 0)
    <3>1. Post({t}, c) /\ desired' = desired /\ c # "none"
      BY <2>3 DEF PollTimer, Issue
    <3>2. c = desired[t]
      BY <3>1 DEF MismatchStep
    <3> HIDE DEF c
    <3> QED
      BY <3>1, <3>2, PostAdds
  <2>4. ASSUME NEW t \in Slots, NEW want, SetDesiredSlot(t, want) PROVE Follows(s)
    <3>1. desired' = [desired EXCEPT ![t] = want]
      BY <2>4 DEF SetDesiredSlot
    <3>2. CASE IssueNothing
      BY <2>1, <3>2 DEF IssueNothing
    <3>3. CASE Issue(CommandedNow({t}, want), CommandedNow({t}, want), want, "intent")
      <4>1. Post(CommandedNow({t}, want), want)
        BY <3>3 DEF Issue
      <4>2. CommandedNow({t}, want) \subseteq {t}
        BY DEF CommandedNow
      <4>3. ASSUME Len(queue'[s]) > Len(queue[s])
            PROVE  s = t /\ queue'[s][Len(queue'[s])] = want
        BY <4>1, <4>2, <4>3, PostAdds
      <4>4. desired'[t] = want
        BY <3>1 DEF TypeOK
      <4> QED
        BY <4>3, <4>4
    <3> QED
      BY <2>4, <3>2, <3>3 DEF SetDesiredSlot
  <2>5. ASSUME NEW want, SetDesiredAll(want) PROVE Follows(s)
    <3>1. desired' = [r \in Slots |-> IF registered[r] THEN want ELSE desired[r]]
      BY <2>5 DEF SetDesiredAll
    <3>2. CASE IssueNothing
      BY <2>1, <3>2 DEF IssueNothing
    <3>3. CASE Issue(CommandedNow(Slots, want), WaveReach(CommandedNow(Slots, want)), want, "intent")
      <4>1. Post(WaveReach(CommandedNow(Slots, want)), want)
        BY <3>3 DEF Issue
      <4> QED
        BY <3>1, <4>1, PostAdds
    <3> QED
      BY <2>5, <3>2, <3>3 DEF SetDesiredAll
  <2>6. ASSUME NEW t \in Slots,
               \/ Registry(t) \/ Readiness(t) \/ LinkUp(t) \/ Sample(t) \/ Arrive(t)
               \/ Press(t) \/ Tick(t)
        PROVE  queue' = queue
    BY <2>6 DEF Registry, RegisterSlot, AttachDriver, TeardownSlot, UnregisterTeardown,
       UnregisterClear, Readiness, SetReady, SetNotReady, DeleteTimer, LinkUp, Sample, Arrive,
       Press, Tick, envVars
  <2> HIDE DEF Follows
  <2> QED
    BY <2>1, <2>2, <2>3, <2>4, <2>5, <2>6 DEF Next, Environment
<1> QED
  BY <1>1, CamCoreTyped, PTL DEF Spec, CommandsFollowIntent

-----------------------------------------------------------------------------
(***************************************************************************)
(* While a shutdown is under way.                                          *)
(***************************************************************************)


\* A frame or a request that is past its gate carries a command.
SystemInv == CoreInv /\ rx \in Commands \cup {"none"} /\ web \in Commands \cup {"none"}

\* Each step is one of cam_core or its environment, or leaves them alone.
LEMMA StepsOfCore ==
  ASSUME SystemInv, [ShutdownNext]_allVars
  PROVE  [Next]_vars \/ Quiet
<1>1. ASSUME NEW s \in Slots, TaskStep(s) PROVE Next \/ Quiet
  <2>1. "stop" \in Commands
    BY DEF Commands
  <2> QED
    BY <1>1, <2>1 DEF TaskStep, TaskLooks, TaskOrdersStop, TaskSleeps, TaskTerminatesLink,
       TaskTearsDown, Next, Registry
<1>2. ASSUME NEW s \in Slots,
             Connect(s) \/ Disconnect(s) \/ BecomesReady(s) \/ BecomesNotReady(s) \/ Camera(s)
      PROVE  Next
  BY <1>2 DEF Connect, Disconnect, BecomesReady, BecomesNotReady, Camera, Next, Environment,
     Readiness
<1>3. CASE RxApply \/ HttpApply
  <2>1. ASSUME NEW want \in Commands, SetDesiredAll(want) PROVE Next
    BY <2>1 DEF Commands, Intents, Next
  <2>2. ASSUME NEW want \in Commands, NEW s \in Slots, SetDesiredSlot(s, want) PROVE Next
    BY <2>2 DEF Next
  <2> QED
    BY <1>3, <2>1, <2>2 DEF RxApply, HttpApply, SystemInv
<1>4. CASE Watchdog
  BY <1>4 DEF Watchdog, Intents, Next
<1>5. CASE RequestStep \/ \E want \in Commands : RxGate(want) \/ HttpGate(want)
  BY <1>5 DEF RequestStep, RxGate, HttpGate
<1>6. CASE UNCHANGED allVars
  BY <1>6 DEF allVars
<1> QED
  BY <1>1, <1>2, <1>3, <1>4, <1>5, <1>6 DEF ShutdownNext

LEMMA SystemStep == SystemInv /\ [ShutdownNext]_allVars => SystemInv'
<1> SUFFICES ASSUME SystemInv, [ShutdownNext]_allVars PROVE SystemInv'
  OBVIOUS
<1>1. CoreInv'
  <2>1. CASE [Next]_vars
    BY <2>1, CoreStep, CamCoreAssumption DEF SystemInv
  <2>2. CASE Quiet
    BY <2>2 DEF Quiet, SystemInv, CoreInv, TypeOK, NotReadyIsQuiet, GraceProtectsIntent,
       coreVars, envVars
  <2> QED
    BY <2>1, <2>2, StepsOfCore
<1>2. rx' \in Commands \cup {"none"} /\ web' \in Commands \cup {"none"}
  BY DEF ShutdownNext, RxGate, RxApply, HttpGate, HttpApply, Watchdog, RequestStep, TaskStep, TaskLooks,
     TaskOrdersStop, TaskSleeps, TaskTerminatesLink, TaskTearsDown, Connect, Disconnect,
     BecomesReady, BecomesNotReady, Camera, allVars, SystemInv
<1> QED
  BY <1>1, <1>2 DEF SystemInv

LEMMA ShutdownKeepsSystem == ShutdownSpec => []SystemInv
<1>1. ShutdownInit => SystemInv
  <2> SUFFICES ASSUME ShutdownInit PROVE SystemInv
    OBVIOUS
  <2>1. registered \in [Slots -> BOOLEAN] /\ attached = registered
    BY DEF ShutdownInit
  <2>2. TypeOK
    BY <2>1, CamCoreAssumption DEF ShutdownInit, TypeOK, CamCoreAssumption, Intents, Commands,
       Reports, RealState
  <2> QED
    BY <2>2 DEF ShutdownInit, SystemInv, CoreInv, NotReadyIsQuiet, GraceProtectsIntent
<1> QED
  BY <1>1, SystemStep, PTL DEF ShutdownSpec

\* cam_core's registry and grace windows are as sound while the shutdown's tasks
\* stop and tear down its slots as they are without a shutdown.
THEOREM GraceSafeInShutdown == ShutdownSpec => []GraceProtectsIntent
<1>1. SystemInv => GraceProtectsIntent
  BY DEF SystemInv, CoreInv
<1> QED
  BY <1>1, ShutdownKeepsSystem, PTL

\* can_manager.c, api_cameras.c, shutdown_manager.c: once a shutdown is active a
\* command to start that intent still gives comes from a frame or a shutter request
\* that was past its gate, and uses it up.
THEOREM LateRequestsOnly == ShutdownSpec => OnlyLateRequestsStart
<1> DEFINE Late ==
      /\ rx' \in {rx, "none"} /\ web' \in {web, "none"}
      /\ \A s \in Slots : StartsByIntent(s) => <<rx, web>>' # <<rx, web>>
<1>1. [ShutdownNext]_allVars => [state # "idle" => Late]_allVars
  <2> SUFFICES ASSUME ShutdownNext, state # "idle" PROVE Late
    OBVIOUS
  <2>1. ASSUME sent' = {} PROVE \A s \in Slots : ~StartsByIntent(s)
    BY <2>1 DEF StartsByIntent
  <2>2. ASSUME NEW t \in Slots, SetDesiredSlot(t, "stop")
        PROVE  \A s \in Slots : ~StartsByIntent(s)
    <3>1. CASE IssueNothing
      BY <2>1, <3>1 DEF IssueNothing
    <3>2. CASE \E T : Issue(T, T, "stop", "intent")
      BY <3>2 DEF Issue, StartsByIntent
    <3> QED
      BY <2>2, <3>1, <3>2 DEF SetDesiredSlot
  <2>3. CASE Watchdog
    <3>1. CommandedNow(Slots, "unknown") = {}
      BY DEF CommandedNow
    <3> QED
      BY <2>1, <2>3, <3>1 DEF Watchdog, SetDesiredAll, IssueNothing
  <2>4. ASSUME NEW t \in Slots, PollTimer(t) PROVE \A s \in Slots : ~StartsByIntent(s)
    BY <2>4 DEF PollTimer, Issue, StartsByIntent
  <2>5. ASSUME NEW t \in Slots, Camera(t) PROVE Late
    BY <2>1, <2>4, <2>5 DEF Camera, Execute, Lose, Sample, Arrive, Tick
  <2>6. ASSUME NEW t \in Slots, TaskStep(t) PROVE Late
    BY <2>1, <2>2, <2>6 DEF TaskStep, TaskLooks, TaskOrdersStop, TaskSleeps, TaskTerminatesLink,
       TaskTearsDown, TeardownSlot, TeardownLocked, Quiet
  <2>7. ASSUME NEW t \in Slots,
               Connect(t) \/ Disconnect(t) \/ BecomesReady(t) \/ BecomesNotReady(t)
        PROVE  rx' = rx /\ web' = web /\ sent' = {}
    BY <2>7 DEF Connect, Disconnect, BecomesReady, BecomesNotReady, LinkUp, LinkDown, SetReady,
       SetNotReady
  <2>8. CASE RequestStep
    BY <2>1, <2>8 DEF RequestStep, Quiet
  <2>9. \A want \in Commands : ~RxGate(want) /\ ~HttpGate(want)
    BY DEF RxGate, HttpGate
  <2>10. CASE RxApply \/ HttpApply
    BY <2>10 DEF RxApply, HttpApply
  <2> QED
    BY <2>1, <2>3, <2>5, <2>6, <2>7, <2>8, <2>9, <2>10 DEF ShutdownNext
<1> QED
  BY <1>1, PTL DEF ShutdownSpec, OnlyLateRequestsStart

-----------------------------------------------------------------------------
\* cam_core_slot_count is a number of slots the manager can count to.
LEMMA BoundIsCount == RegisteredBound \in 0..MaxSlots
<1> DEFINE S == {s \in Slots : \E t \in Slots : registered[t] /\ s <= t}
<1>1. Slots = 0..(MaxSlots - 1) /\ MaxSlots \in Nat
  BY ShutdownCamerasAssumption
<1>2. IsFiniteSet(0..(MaxSlots - 1))
      /\ Cardinality(0..(MaxSlots - 1)) = IF 0 > MaxSlots - 1 THEN 0 ELSE (MaxSlots - 1) - 0 + 1
  BY <1>1, FS_Interval
<1>3. Cardinality(Slots) = MaxSlots /\ IsFiniteSet(Slots)
  BY <1>1, <1>2
<1>4. Cardinality(S) \in Nat /\ Cardinality(S) <= Cardinality(Slots)
  <2>1. S \in SUBSET Slots
    OBVIOUS
  <2> HIDE DEF S
  <2> QED
    BY <1>3, <2>1, FS_Subset, FS_CardinalityType
<1> QED
  BY <1>1, <1>3, <1>4 DEF RegisteredBound

\* shutdown_manager.c: amid frames, links and cameras the manager takes only the
\* steps ShutdownManager knows, so that what is proved of it alone (its completion
\* and its report) is true of it here.
THEOREM ManagerAsAlone == ShutdownSpec => SM!Spec
<1>1. ShutdownInit => SM!Init
  BY DEF ShutdownInit
<1>2. SystemInv /\ [ShutdownNext]_allVars => [SM!Next]_(SM!vars)
  <2> SUFFICES ASSUME SystemInv, [ShutdownNext]_allVars PROVE [SM!Next]_(SM!vars)
    OBVIOUS
  <2>1. CASE UNCHANGED managerVars
    BY <2>1 DEF managerVars, SM!vars
  <2>2. CASE RequestStep
    BY <2>2, BoundIsCount DEF RequestStep, SM!Next, SM!RequestStep
  <2>3. ASSUME NEW s \in Slots, TaskStep(s) PROVE SM!Next
    <3>1. s \in SM!SlotIds
      BY ShutdownCamerasAssumption DEF SM!SlotIds
    <3>2. registered[s] \in BOOLEAN /\ IsRecording(s) \in BOOLEAN
      BY DEF IsRecording, SystemInv, CoreInv, TypeOK
    <3>3. SM!TaskStep(s)
      BY <2>3, <3>2 DEF TaskStep, TaskLooks, TaskOrdersStop, TaskSleeps, TaskTerminatesLink,
         TaskTearsDown, SM!TaskStep, SM!SleepResults
    <3> QED
      BY <3>1, <3>3 DEF SM!Next
  <2> QED
    BY <2>1, <2>2, <2>3 DEF ShutdownNext, RxGate, RxApply, HttpGate, HttpApply, Watchdog, Connect,
       Disconnect, BecomesReady, BecomesNotReady, Camera, allVars
<1> QED
  BY <1>1, <1>2, ShutdownKeepsSystem, PTL DEF ShutdownSpec, SM!Spec

-----------------------------------------------------------------------------
\* What is proved of the manager alone is proved of another instance of its module.
Manager == INSTANCE ShutdownManagerProofs

LEMMA SameManager == SM!Spec => Manager!Spec
<1>1. SM!Init => Manager!Init
  BY DEF SM!Init, Manager!Init, SM!SlotIds, Manager!SlotIds
<1>2. [SM!Next]_(SM!vars) => [Manager!Next]_(Manager!vars)
  BY DEF SM!Next, Manager!Next, SM!Request, Manager!Request, SM!RequestStep,
     Manager!RequestStep, SM!ReadSlotCount, Manager!ReadSlotCount,
     SM!ResetCounters, Manager!ResetCounters, SM!NoCameras,
     Manager!NoCameras, SM!SpawnFails, Manager!SpawnFails, SM!Spawn,
     Manager!Spawn, SM!RequestReturns, Manager!RequestReturns, SM!CountDone,
     Manager!CountDone, SM!Goto, Manager!Goto, SM!Start, Manager!Start,
     SM!StopCheck, Manager!StopCheck, SM!OrderStop, Manager!OrderStop,
     SM!WaitEnds, Manager!WaitEnds, SM!Confirm, Manager!Confirm, SM!Sleep,
     Manager!Sleep, SM!TerminateLink, Manager!TerminateLink, SM!Teardown,
     Manager!Teardown, SM!Finish, Manager!Finish, SM!TaskStep,
     Manager!TaskStep, SM!SlotIds, Manager!SlotIds, SM!SleepResults,
     Manager!SleepResults, SM!requestVars, Manager!requestVars, SM!vars,
     Manager!vars
<1> QED
  BY <1>1, <1>2, PTL DEF SM!Spec, Manager!Spec

\* shutdown_manager.c: with frames, watchdog, links and cameras in its way, the
\* shutdown is still the one ShutdownPhases promises: asked once, over a fixed
\* set of slots, complete when all of them have finished.
THEOREM SystemImplementsPhases == ShutdownSpec => Manager!ImplementsPhases
<1>1. Manager!ShutdownAssumption
  BY ShutdownCamerasAssumption DEF Manager!ShutdownAssumption
<1>2. Manager!Spec => Manager!ImplementsPhases
  BY <1>1, Manager!ManagerImplementsPhases
<1> QED
  BY <1>2, SameManager, ManagerAsAlone

\* The REBOOT screen appears exactly when every slot was counted, and it names
\* exactly the slots whose task failed, whatever the cameras did meanwhile.
THEOREM SystemReports ==
    ShutdownSpec => [](SM!CompleteIffAllDone /\ SM!FailuresReported)
<1>1. Manager!ShutdownAssumption
  BY ShutdownCamerasAssumption DEF Manager!ShutdownAssumption
<1>2. Manager!Spec => []Manager!CompleteIffAllDone
  BY <1>1, Manager!CompletionIsExact
<1>3. Manager!Spec => []Manager!FailuresReported
  BY <1>1, Manager!ReportIsExact
<1>4. Manager!CompleteIffAllDone => SM!CompleteIffAllDone
  BY DEF Manager!CompleteIffAllDone, SM!CompleteIffAllDone, Manager!Counted, SM!Counted,
     Manager!Covered, SM!Covered, Manager!SlotIds, SM!SlotIds
<1>5. Manager!FailuresReported => SM!FailuresReported
  BY DEF Manager!FailuresReported, SM!FailuresReported, Manager!Covered, SM!Covered
<1> QED
  BY <1>2, <1>3, <1>4, <1>5, SameManager, ManagerAsAlone, PTL
=============================================================================

----------------------- MODULE ShutdownManagerProofs -----------------------
(***************************************************************************)
(* For every number of slots: the shutdown is complete exactly when every  *)
(* slot it covers was counted done, its report names exactly the failures, *)
(* and the counters implement the abstract shutdown of ShutdownPhases.     *)
(***************************************************************************)
EXTENDS ShutdownManager, FiniteSetTheorems, TLAPS

Over == {"exited", "unspawned"}

LEMMA SlotsFinite ==
  ASSUME ShutdownAssumption
  PROVE  IsFiniteSet(SlotIds) /\ IsFiniteSet(Counted) /\ Cardinality(Counted) \in Nat
<1>1. IsFiniteSet(SlotIds)
  BY FS_Interval, MaxSlots - 1 \in Int DEF SlotIds, ShutdownAssumption
<1>2. IsFiniteSet(Counted)
  BY <1>1, FS_Subset DEF Counted
<1>3. QED
  BY <1>1, <1>2, FS_CardinalityType

\* Counting works: the number of slots counted reaches the number of slots covered
\* exactly when every covered slot is among them.
LEMMA CountReachesTarget ==
  ASSUME ShutdownAssumption, TypeOK, WhileSpawning, request \in {"spawn", "returned"}
  PROVE  /\ Counted \subseteq Covered
         /\ (doneCount >= atStart) <=> (Counted = Covered)
<1>1. atStart \in Nat /\ atStart <= MaxSlots /\ MaxSlots \in Nat
  BY DEF TypeOK, ShutdownAssumption
<1>2. Covered = 0..(atStart - 1)
  BY DEF Covered
<1>3. IsFiniteSet(Covered) /\ Cardinality(Covered) = atStart
  BY <1>1, <1>2, FS_Interval, atStart - 1 \in Int
<1>4. Counted \subseteq Covered
  <2> SUFFICES ASSUME NEW s \in SlotIds, task[s] \in Over PROVE s \in 0..(atStart - 1)
    BY <1>2 DEF Counted, Over
  <2>1. ~(s >= next)
    BY DEF WhileSpawning, Over
  <2>2. s \in Nat /\ next \in Nat /\ next <= atStart
    BY DEF WhileSpawning, TypeOK, SlotIds
  <2> QED
    BY <2>1, <2>2, <1>1
<1>5. Cardinality(Counted) <= atStart
  BY <1>3, <1>4, FS_Subset
<1>6. Cardinality(Counted) = atStart => Counted = Covered
  BY <1>3, <1>4, FS_Subset
<1>7. doneCount = Cardinality(Counted) /\ doneCount \in Nat
  BY DEF WhileSpawning, TypeOK
<1>8. QED
  BY <1>1, <1>3, <1>4, <1>5, <1>6, <1>7

\* Counting one more slot done.
LEMMA OneMoreCounted ==
  ASSUME ShutdownAssumption, TypeOK, NEW s \in SlotIds, NEW to \in Over,
         task[s] \notin Over, task' = [task EXCEPT ![s] = to]
  PROVE  /\ Counted' = Counted \cup {s}
         /\ s \notin Counted
         /\ Cardinality(Counted') = Cardinality(Counted) + 1
<1>1. Counted' = Counted \cup {s} /\ s \notin Counted
  BY DEF Counted, Over, TypeOK
<1>2. QED
  BY <1>1, SlotsFinite, FS_AddElement

LEMMA ShutdownInit ==
  ASSUME ShutdownAssumption, Init
  PROVE  ShutdownInv
BY DEF Init, ShutdownInv, TypeOK, BeforeSpawning, WhileSpawning, FailureFlags, SlotIds,
       States, RequestSteps, TaskSteps, SleepResults, ShutdownAssumption

\* A slot task that takes a step other than its last keeps the invariant.
LEMMA TaskMovesOn ==
  ASSUME ShutdownAssumption, ShutdownInv, NEW s \in SlotIds,
         NEW from \in TaskSteps \ {"none", "exited", "unspawned"},
         NEW to \in TaskSteps \ {"none", "exited", "unspawned"},
         Goto(s, from, to),
         failed' \in [SlotIds -> BOOLEAN],
         \A t \in SlotIds \ {s} : failed'[t] = failed[t]
  PROVE  ShutdownInv'
<1> USE DEF ShutdownInv, Goto, requestVars
<1>1. TypeOK'
  BY DEF TypeOK
<1>2. request \in {"spawn", "returned"}
  BY DEF BeforeSpawning, TypeOK, RequestSteps
<1>3. BeforeSpawning'
  BY <1>2 DEF BeforeSpawning
<1>4. Counted' = Counted
  BY DEF Counted, TypeOK
<1>5. \A t \in SlotIds : (task'[t] = "none") <=> (task[t] = "none")
  BY DEF TypeOK
<1>6. WhileSpawning'
  BY <1>2, <1>4, <1>5 DEF WhileSpawning
<1>7. FailureFlags'
  BY DEF FailureFlags, TypeOK
<1>8. QED
  BY <1>1, <1>3, <1>6, <1>7

\* Counting slot s done keeps the invariant, whoever does it: its own task when it
\* ends, or the requesting task when the slot's task cannot be spawned.
LEMMA CountDoneKeepsInv ==
  ASSUME ShutdownAssumption, ShutdownInv, NEW s \in SlotIds, NEW to \in Over,
         NEW bad \in BOOLEAN,
         request \in {"spawn", "returned"},
         task[s] \notin Over,
         task' = [task EXCEPT ![s] = to],
         CountDone(s, bad),
         next' \in 0..MaxSlots, next' <= slotCount, s < slotCount,
         \A t \in SlotIds : (task'[t] = "none") <=> (t >= next'),
         request = "returned" => next' = slotCount,
         bad = (to = "unspawned" \/ failed[s]),
         UNCHANGED <<atStart, request, slotCount, failed>>
  PROVE  ShutdownInv'
<1>0. TypeOK /\ WhileSpawning /\ FailureFlags
  BY DEF ShutdownInv
<1>1. doneCount \in Nat /\ atStart \in Nat /\ slotCount \in Nat /\ s \in Nat
  BY <1>0 DEF TypeOK, SlotIds, ShutdownAssumption
<1>2. doneCount' = Cardinality(Counted')
  BY <1>0, OneMoreCounted DEF CountDone, WhileSpawning
<1>3. doneCount' = doneCount + 1 /\ atStart' > 0
  BY <1>0, <1>1 DEF CountDone, WhileSpawning
<1>4. (state' = "complete") <=> (doneCount' >= atStart')
  <2>1. state = "complete" => doneCount >= atStart
    BY <1>0 DEF WhileSpawning
  <2>2. QED
    BY <2>1, <1>1, <1>3 DEF CountDone
<1>5. TypeOK'
  <2>1. task' \in [SlotIds -> TaskSteps]
    BY <1>0 DEF TypeOK, TaskSteps, Over
  <2>2. QED
    BY <2>1, <1>0, <1>1, <1>3 DEF TypeOK, CountDone, States
<1>6. WhileSpawning'
  <2>1. atStart' = slotCount' /\ state' # "idle"
    BY <1>0 DEF WhileSpawning, CountDone
  <2>2. QED
    BY <2>1, <1>2, <1>3, <1>4 DEF WhileSpawning
<1>7. BeforeSpawning'
  BY DEF BeforeSpawning
<1>8. FailureFlags'
  BY <1>0 DEF FailureFlags, CountDone, TypeOK, Over
<1>9. QED
  BY <1>5, <1>6, <1>7, <1>8 DEF ShutdownInv

LEMMA RequestKeepsInv ==
  ASSUME ShutdownAssumption, ShutdownInv, Request \/ RequestStep
  PROVE  ShutdownInv'
<1> USE DEF ShutdownInv, ShutdownAssumption
<1>0. SlotIds \subseteq Nat /\ \A s \in SlotIds : s < MaxSlots
  BY DEF SlotIds
<1>1. CASE Request
  BY <1>1 DEF Request, TypeOK, BeforeSpawning, WhileSpawning, FailureFlags, States,
     RequestSteps
<1>2. CASE \E n \in 0..MaxSlots : ReadSlotCount(n)
  BY <1>2 DEF ReadSlotCount, TypeOK, BeforeSpawning, WhileSpawning, FailureFlags,
     RequestSteps
<1>3. CASE ResetCounters
  <2>1. Counted = {} /\ Counted' = {}
    BY <1>3 DEF ResetCounters, Counted, BeforeSpawning
  <2>2. doneCount' = Cardinality(Counted')
    BY <1>3, <2>1, FS_EmptySet DEF ResetCounters
  <2>3. state' = "shutting_down"
    BY <1>3 DEF ResetCounters, BeforeSpawning, TypeOK, States
  <2>4. \A s \in SlotIds : task'[s] = "none" /\ s >= next'
    BY <1>0, <1>3 DEF ResetCounters, BeforeSpawning
  <2>5. TypeOK' /\ BeforeSpawning'
    BY <1>3 DEF ResetCounters, TypeOK, BeforeSpawning, RequestSteps
  <2>6. WhileSpawning'
    BY <1>3, <2>2, <2>3, <2>4, <2>5 DEF ResetCounters, WhileSpawning, TypeOK, BeforeSpawning
  <2>7. FailureFlags'
    BY <1>3, <2>4 DEF ResetCounters, FailureFlags
  <2>8. QED
    BY <2>5, <2>6, <2>7
<1>4. CASE NoCameras
  <2>1. Counted' = Counted
    BY <1>4 DEF NoCameras, Counted
  <2>2. QED
    BY <1>4, <2>1 DEF NoCameras, TypeOK, BeforeSpawning, WhileSpawning, FailureFlags,
       States, RequestSteps
<1>5. CASE SpawnFails
  <2>1. next \in SlotIds /\ next < slotCount /\ slotCount \in Nat /\ next \in Nat
    BY <1>5 DEF SpawnFails, TypeOK, SlotIds
  <2>2. task[next] = "none"
    BY <1>5, <2>1 DEF SpawnFails, WhileSpawning
  <2>3. \A t \in SlotIds : (task'[t] = "none") <=> (t >= next')
    BY <1>0, <1>5, <2>1, <2>2 DEF SpawnFails, WhileSpawning, TypeOK
  <2>4. next' \in 0..MaxSlots /\ next' <= slotCount
    BY <1>5, <2>1 DEF SpawnFails, TypeOK
  <2>5. CountDone(next, TRUE) /\ task' = [task EXCEPT ![next] = "unspawned"]
        /\ request = "spawn" /\ UNCHANGED <<atStart, request, slotCount, failed>>
    BY <1>5 DEF SpawnFails
  <2>6. QED
    BY <2>1, <2>2, <2>3, <2>4, <2>5, CountDoneKeepsInv DEF Over
<1>6. CASE Spawn
  <2>1. next \in SlotIds /\ next < slotCount /\ slotCount \in Nat /\ next \in Nat
    BY <1>6 DEF Spawn, TypeOK, SlotIds
  <2>2. task[next] = "none" /\ Counted' = Counted
    BY <1>6, <2>1 DEF Spawn, WhileSpawning, Counted, TypeOK
  <2>3. \A t \in SlotIds : (task'[t] = "none") <=> (t >= next')
    BY <1>0, <1>6, <2>1, <2>2 DEF Spawn, WhileSpawning, TypeOK
  <2>4. TypeOK' /\ BeforeSpawning'
    BY <1>6, <2>1 DEF Spawn, TypeOK, TaskSteps, BeforeSpawning
  <2>5. WhileSpawning'
    BY <1>6, <2>1, <2>2, <2>3 DEF Spawn, WhileSpawning
  <2>6. FailureFlags'
    BY <1>6, <2>1, <2>2 DEF Spawn, FailureFlags, TypeOK
  <2>7. QED
    BY <2>4, <2>5, <2>6
<1>7. CASE RequestReturns
  <2>1. Counted' = Counted
    BY <1>7 DEF RequestReturns, Counted
  <2>2. QED
    BY <1>7, <2>1 DEF RequestReturns, TypeOK, BeforeSpawning, WhileSpawning,
       FailureFlags, RequestSteps
<1>8. QED
  BY <1>1, <1>2, <1>3, <1>4, <1>5, <1>6, <1>7 DEF RequestStep

LEMMA TaskKeepsInv ==
  ASSUME ShutdownAssumption, ShutdownInv, NEW s \in SlotIds, TaskStep(s)
  PROVE  ShutdownInv'
<1>0. TypeOK /\ failed \in [SlotIds -> BOOLEAN]
  BY DEF ShutdownInv, TypeOK
<1>1. ASSUME NEW a \in BOOLEAN, Start(s, a) \/ StopCheck(s, a) \/ Confirm(s, a)
      PROVE  ShutdownInv'
  BY <1>0, <1>1, TaskMovesOn DEF Start, StopCheck, Confirm, TaskSteps
<1>2. CASE OrderStop(s) \/ WaitEnds(s) \/ TerminateLink(s) \/ Teardown(s)
  BY <1>0, <1>2, TaskMovesOn DEF OrderStop, WaitEnds, TerminateLink, Teardown, TaskSteps
<1>3. ASSUME NEW r \in SleepResults, Sleep(s, r) PROVE ShutdownInv'
  BY <1>0, <1>3, TaskMovesOn DEF Sleep, TaskSteps
<1>4. CASE Finish(s)
  <2>1. task[s] = "finish" /\ request \in {"spawn", "returned"}
    BY <1>4 DEF Finish, ShutdownInv, BeforeSpawning, TypeOK, RequestSteps
  <2>2. s < next /\ next <= slotCount /\ next \in 0..MaxSlots /\ slotCount \in Nat /\ s \in Nat
    BY <2>1 DEF ShutdownInv, WhileSpawning, TypeOK, SlotIds, ShutdownAssumption
  <2>3. \A t \in SlotIds : (task'[t] = "none") <=> (t >= next')
    BY <1>4, <2>1 DEF Finish, ShutdownInv, WhileSpawning, TypeOK, requestVars
  <2>4. request = "returned" => next = slotCount
    BY <2>1 DEF ShutdownInv, WhileSpawning
  <2>5. task' = [task EXCEPT ![s] = "exited"] /\ CountDone(s, failed[s]) /\ next' = next
        /\ UNCHANGED <<atStart, request, slotCount, failed>>
    BY <1>4 DEF Finish, requestVars
  <2>6. failed[s] \in BOOLEAN /\ failed[s] = ("exited" = "unspawned" \/ failed[s])
    BY <1>0
  <2>7. task[s] \notin Over /\ "exited" \in Over
    BY <2>1 DEF Over
  <2>8. next' \in 0..MaxSlots /\ next' <= slotCount /\ s < slotCount
    BY <2>2, <2>5
  <2>9. request = "returned" => next' = slotCount
    BY <2>4, <2>5
  <2>10. QED
    BY <2>1, <2>3, <2>5, <2>6, <2>7, <2>8, <2>9, CountDoneKeepsInv
<1>5. QED
  BY <1>1, <1>2, <1>3, <1>4 DEF TaskStep

LEMMA ShutdownStep ==
  ASSUME ShutdownAssumption, ShutdownInv, [Next]_vars
  PROVE  ShutdownInv'
<1>1. CASE Next
  BY <1>1, RequestKeepsInv, TaskKeepsInv DEF Next
<1>2. CASE UNCHANGED vars
  BY <1>2 DEF vars, ShutdownInv, TypeOK, BeforeSpawning, WhileSpawning, FailureFlags, Counted
<1>3. QED
  BY <1>1, <1>2

\* The counters, tasks and report of a shutdown are consistent in every reachable
\* state, for every number of slots.
THEOREM ShutdownInvariance ==
  ASSUME ShutdownAssumption
  PROVE  Spec => []ShutdownInv
<1>1. Init => ShutdownInv
  BY ShutdownInit
<1>2. ShutdownInv /\ [Next]_vars => ShutdownInv'
  BY ShutdownStep
<1>3. QED
  BY <1>1, <1>2, PTL DEF Spec

LEMMA InvImpliesCompleteIffAllDone ==
  ASSUME ShutdownAssumption, ShutdownInv
  PROVE  CompleteIffAllDone
<1>0. TypeOK /\ BeforeSpawning /\ WhileSpawning
  BY DEF ShutdownInv
<1>1. CASE request \in {"none", "count", "reset"}
  BY <1>0, <1>1 DEF CompleteIffAllDone, BeforeSpawning
<1>2. CASE request \in {"spawn", "returned"}
  <2>1. (doneCount >= atStart) <=> (Counted = Covered)
    BY <1>0, <1>2, CountReachesTarget
  <2>2. Covered = {} <=> atStart = 0
    BY <1>0, <1>2 DEF Covered, TypeOK, ShutdownAssumption
  <2>3. QED
    BY <1>0, <1>2, <2>1, <2>2 DEF CompleteIffAllDone, WhileSpawning
<1>3. QED
  BY <1>0, <1>1, <1>2 DEF TypeOK, RequestSteps

\* A shutdown is reported complete exactly when every slot it covers is done.
THEOREM CompletionIsExact ==
  ASSUME ShutdownAssumption
  PROVE  Spec => []CompleteIffAllDone
<1>1. ShutdownInv => CompleteIffAllDone
  BY InvImpliesCompleteIffAllDone
<1>2. QED
  BY <1>1, ShutdownInvariance, PTL

\* A completed shutdown reports exactly the slots that failed.
THEOREM ReportIsExact ==
  ASSUME ShutdownAssumption
  PROVE  Spec => []FailuresReported
<1>1. ASSUME ShutdownInv PROVE FailuresReported
  <2> SUFFICES ASSUME state = "complete"
               PROVE  failedMask = {s \in Covered : task[s] = "unspawned" \/ failed[s]}
    BY DEF FailuresReported
  <2>1. Counted = Covered
    BY <1>1, InvImpliesCompleteIffAllDone DEF CompleteIffAllDone
  <2>2. QED
    BY <1>1, <2>1 DEF ShutdownInv, FailureFlags, Counted
<1>2. QED
  BY <1>1, ShutdownInvariance, PTL

-----------------------------------------------------------------------------
(***************************************************************************)
(* Refinement: a step of the counters is a step of the abstract shutdown   *)
(* or changes nothing it sees.                                             *)
(***************************************************************************)

LEMMA PhasesInit ==
  ASSUME Init
  PROVE  Abstract!Init
BY DEF Init, Abstract!Init, AbstractPhase, Covered, Counted

\* Counting a slot done is the abstract Finish.
LEMMA CountDoneIsFinish ==
  ASSUME ShutdownAssumption, ShutdownInv, ShutdownInv',
         NEW s \in SlotIds, NEW to \in Over, NEW bad \in BOOLEAN,
         request \in {"spawn", "returned"}, task[s] \notin Over, s < slotCount,
         task' = [task EXCEPT ![s] = to],
         CountDone(s, bad),
         UNCHANGED <<atStart, request>>
  PROVE  Abstract!Finish(s)
<1>0. TypeOK /\ WhileSpawning /\ TypeOK' /\ WhileSpawning'
  BY DEF ShutdownInv
<1>1. s \in Covered /\ Covered' = Covered
  BY <1>0 DEF Covered, WhileSpawning, TypeOK, SlotIds, ShutdownAssumption
<1>2. Counted' = Counted \cup {s} /\ s \notin Counted
  BY <1>0, OneMoreCounted
<1>3. state = "shutting_down"
  <2>1. Counted # Covered
    BY <1>1, <1>2
  <2>2. state # "complete"
    BY <1>0, <2>1, CountReachesTarget DEF WhileSpawning
  <2>3. QED
    BY <1>0, <2>2 DEF WhileSpawning, TypeOK, States
<1>4. (doneCount' >= atStart') <=> (Counted' = Covered')
  <2>2. doneCount \in Nat /\ atStart \in Nat
    BY <1>0 DEF TypeOK, ShutdownAssumption
  <2>3. Counted' \subseteq Covered' /\ IsFiniteSet(Covered') /\ Cardinality(Covered') = atStart'
    <3>1. Covered' = 0..(atStart - 1)
      BY DEF Covered
    <3>2. Counted \subseteq Covered
      BY <1>0, CountReachesTarget
    <3>3. IsFiniteSet(0..(atStart - 1)) /\ Cardinality(0..(atStart - 1)) = atStart
      BY <2>2, FS_Interval, atStart - 1 \in Int
    <3>4. Counted' \subseteq Covered'
      BY <1>1, <1>2, <3>2
    <3>5. QED
      BY <3>1, <3>3, <3>4
  <2>4. Cardinality(Counted') <= atStart' /\ (Cardinality(Counted') = atStart' => Counted' = Covered')
    BY <2>3, FS_Subset
  <2>5. doneCount' = Cardinality(Counted') /\ doneCount' \in Nat
    BY <1>0 DEF WhileSpawning, TypeOK
  <2>6. QED
    BY <2>2, <2>3, <2>4, <2>5
<1>5. AbstractPhase = "shutting_down"
      /\ AbstractPhase' = IF Counted' = Covered THEN "complete" ELSE "shutting_down"
  BY <1>1, <1>3, <1>4 DEF AbstractPhase, CountDone
<1>6. failedMask' \in {failedMask, failedMask \cup {s}}
  BY DEF CountDone
<1>7. QED
  BY <1>1, <1>2, <1>5, <1>6 DEF Abstract!Finish

LEMMA PhasesStep ==
  ASSUME ShutdownAssumption, ShutdownInv, ShutdownInv', [Next]_vars
  PROVE  [Abstract!Next]_(Abstract!vars)
<1> USE DEF ShutdownAssumption
<1>0. TypeOK /\ BeforeSpawning /\ WhileSpawning /\ WhileSpawning'
  BY DEF ShutdownInv
<1> DEFINE Unseen == UNCHANGED <<AbstractPhase, Covered, Counted, failedMask>>
<1>a. Unseen => [Abstract!Next]_(Abstract!vars)
  BY DEF Abstract!vars
<1>1. CASE Request
  <2>1. Counted = {} /\ Counted' = {} /\ Covered = {} /\ Covered' = {} /\ failedMask' = failedMask
    BY <1>0, <1>1 DEF Request, Counted, Covered, BeforeSpawning, WhileSpawning, TypeOK, RequestSteps
  <2>2. Abstract!Begin
    BY <1>1, <2>1 DEF Abstract!Begin, Request, AbstractPhase
  <2>3. QED
    BY <2>2 DEF Abstract!Next
<1>2. CASE \E n \in 0..MaxSlots : ReadSlotCount(n)
  <2>1. Unseen
    BY <1>2 DEF ReadSlotCount, AbstractPhase, Covered, Counted
  <2>2. QED
    BY <2>1, <1>a
<1>3. CASE ResetCounters
  <2>1. Counted' = Counted /\ failedMask' = failedMask
    BY <1>0, <1>3 DEF ResetCounters, Counted, BeforeSpawning
  <2>2. AbstractPhase = "asked" /\ AbstractPhase' = "shutting_down"
    BY <1>0, <1>3 DEF ResetCounters, AbstractPhase, BeforeSpawning, TypeOK, States
  <2>3. Covered' \in SUBSET SlotIds
    BY <1>0, <1>3 DEF ResetCounters, Covered, TypeOK, SlotIds
  <2>4. Abstract!Cover(Covered')
    BY <2>1, <2>2 DEF Abstract!Cover
  <2>5. QED
    BY <2>3, <2>4 DEF Abstract!Next
<1>4. CASE NoCameras
  <2>1. atStart = 0 /\ Counted' = Counted /\ failedMask' = failedMask /\ Covered' = {} /\ Covered = {}
    BY <1>0, <1>4 DEF NoCameras, WhileSpawning, Counted, Covered
  <2>2. state = "shutting_down" /\ state' = "complete"
    BY <1>0, <1>4, <2>1 DEF NoCameras, WhileSpawning, TypeOK, States
  <2>3. AbstractPhase = "shutting_down" /\ AbstractPhase' = "complete"
    BY <1>4, <2>2 DEF NoCameras, AbstractPhase
  <2>4. Abstract!FinishEmpty
    BY <2>1, <2>3 DEF Abstract!FinishEmpty
  <2>5. QED
    BY <2>4 DEF Abstract!Next
<1>5. CASE SpawnFails
  <2>1. next \in SlotIds /\ next < slotCount
    BY <1>0, <1>5 DEF SpawnFails, TypeOK, SlotIds
  <2>2. task[next] = "none"
    BY <1>0, <1>5, <2>1 DEF SpawnFails, WhileSpawning, SlotIds
  <2>3. Abstract!Finish(next)
    BY <1>5, <2>1, <2>2, CountDoneIsFinish DEF SpawnFails, Over
  <2>4. QED
    BY <2>1, <2>3 DEF Abstract!Next
<1>6. CASE Spawn
  <2>1. next \in SlotIds
    BY <1>0, <1>6 DEF Spawn, TypeOK, SlotIds
  <2>2. task[next] = "none"
    BY <1>0, <1>6, <2>1 DEF Spawn, WhileSpawning, SlotIds
  <2>3. Unseen
    BY <1>0, <1>6, <2>1, <2>2 DEF Spawn, AbstractPhase, Covered, Counted, TypeOK
  <2>4. QED
    BY <2>3, <1>a
<1>7. CASE RequestReturns
  <2>1. Unseen
    BY <1>7 DEF RequestReturns, AbstractPhase, Covered, Counted
  <2>2. QED
    BY <2>1, <1>a
<1>8. ASSUME NEW s \in SlotIds, TaskStep(s) PROVE [Abstract!Next]_(Abstract!vars)
  <2>1. CASE Finish(s)
    <3>1. task[s] = "finish" /\ request \in {"spawn", "returned"}
      BY <1>0, <2>1 DEF Finish, BeforeSpawning, TypeOK, RequestSteps
    <3>2. s < slotCount
      BY <1>0, <3>1 DEF WhileSpawning, TypeOK, SlotIds
    <3>3. failed[s] \in BOOLEAN /\ task[s] \notin Over /\ "exited" \in Over
      BY <1>0, <3>1 DEF TypeOK, Over
    <3>4. Abstract!Finish(s)
      BY <2>1, <3>1, <3>2, <3>3, CountDoneIsFinish DEF Finish, requestVars
    <3>5. QED
      BY <3>4 DEF Abstract!Next
  <2>2. ASSUME NEW from \in TaskSteps \ {"none", "exited", "unspawned"},
               NEW to \in TaskSteps \ {"none", "exited", "unspawned"}, Goto(s, from, to)
        PROVE  Unseen
    BY <1>0, <2>2 DEF Goto, requestVars, AbstractPhase, Covered, Counted, TypeOK
  <2>3. CASE ~Finish(s)
    <3>1. Unseen
      BY <1>8, <2>2, <2>3 DEF TaskStep, Start, StopCheck, Confirm, OrderStop, WaitEnds,
         Sleep, TerminateLink, Teardown, TaskSteps
    <3>2. QED
      BY <3>1, <1>a
  <2>4. QED
    BY <2>1, <2>3
<1>9. CASE UNCHANGED vars
  <2>1. Unseen
    BY <1>9 DEF vars, AbstractPhase, Covered, Counted
  <2>2. QED
    BY <2>1, <1>a
<1>10. QED
  BY <1>1, <1>2, <1>3, <1>4, <1>5, <1>6, <1>7, <1>8, <1>9 DEF Next, RequestStep

\* The shutdown manager implements the abstract shutdown.
THEOREM ManagerImplementsPhases ==
  ASSUME ShutdownAssumption
  PROVE  Spec => ImplementsPhases
<1>1. Init => Abstract!Init
  BY PhasesInit
<1>2. ShutdownInv /\ ShutdownInv' /\ [Next]_vars => [Abstract!Next]_(Abstract!vars)
  BY PhasesStep
<1>3. QED
  BY <1>1, <1>2, ShutdownInvariance, PTL DEF Spec, ImplementsPhases, Abstract!Spec
=============================================================================

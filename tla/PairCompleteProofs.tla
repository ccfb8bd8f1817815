------------------------- MODULE PairCompleteProofs -------------------------
(***************************************************************************)
(* For every number of cameras, joins and connections: the single-flight   *)
(* gate of pair_complete.c lets one task through at a time, and that task  *)
(* reads, joins and registers with no camera but its own.                  *)
(*                                                                         *)
(* The second rests on the first: because of the gate only its holder      *)
(* depends on the read bridge and the radio, so that what a step of        *)
(* another task does there can be ignored.                                 *)
(***************************************************************************)
EXTENDS PairComplete, SequenceTheorems, TLAPS

\* s_busy is set as long as there is a task, and there is one of them.  That
\* is what makes the check under s_gate_lock mean something to the next caller.
GateHeld ==
    \A x \in Cameras : Holds(x) => busy /\ \A y \in Cameras : Holds(y) => x = y

\* What the gate's books are made of.
GateTypes ==
    /\ slots \in Seq(Cameras) /\ Len(slots) <= N
    /\ ctxSlot \in [Cameras -> 0..N] /\ ctxConn \in [Cameras -> 0..N]
    /\ busy \in BOOLEAN /\ pending \subseteq 0..N
    /\ task \in [Cameras -> Tasks]
    /\ callback \in Values /\ value \in Values
    /\ reads \subseteq [of: Values, now: BOOLEAN]

IInv == GateTypes /\ GateHeld

LEMMA CamerasAreNat ==
    /\ N \in Nat \ {0} /\ Cameras \subseteq Nat /\ Cameras \subseteq 0..N /\ None \in 0..N
    /\ \A i \in 0..N : i \in Nat /\ (i # None => i \in Cameras)
  BY SizesAssumption DEF Cameras, None

LEMMA InitIInv == Init => IInv
<1> SUFFICES ASSUME Init PROVE IInv
  OBVIOUS
<1>1. NoTask \in Tasks /\ NoTask.at = "none"
  BY CamerasAreNat DEF NoTask, Tasks, TaskStates, None
<1>2. Nothing \in Values
  BY DEF Nothing, Values, None
<1>3. slots \in Seq(Cameras) /\ Len(slots) <= N
  <2>1. slots \in [1..N -> Cameras] /\ N \in Nat
    BY SizesAssumption DEF Init, Cameras
  <2>2. slots \in Seq(Cameras)
    BY <2>1, SeqDef
  <2>3. Len(slots) = N
    BY <2>1, <2>2, LenProperties
  <2> QED
    BY <2>2, <2>3
<1>4. GateTypes
  BY <1>1, <1>2, <1>3, CamerasAreNat DEF Init, GateTypes
<1>5. \A x \in Cameras : ~Holds(x)
  BY <1>1 DEF Init, Holds
<1> QED
  BY <1>4, <1>5 DEF IInv, GateHeld

\* The task of context x goes on, and nothing else changes the gate.
LEMMA GoesOn ==
    ASSUME IInv, NEW x \in Cameras, NEW t \in Tasks,
           task' = [task EXCEPT ![x] = t], busy' = busy,
           Holds(x) \/ t.at = "none"
    PROVE  GateHeld' /\ task' \in [Cameras -> Tasks]
<1>1. task' \in [Cameras -> Tasks]
  BY DEF IInv, GateTypes
<1>2. task'[x] = t /\ \A y \in Cameras : y # x => task'[y] = task[y]
  BY DEF IInv, GateTypes
<1>3. \A y \in Cameras : Holds(y)' => Holds(y)
  <2> SUFFICES ASSUME NEW y \in Cameras, Holds(y)' PROVE Holds(y)
    OBVIOUS
  <2>1. CASE y # x
    BY <2>1, <1>2 DEF Holds
  <2>2. CASE y = x
    BY <2>2, <1>2 DEF Holds
  <2> QED
    BY <2>1, <2>2
<1> QED
  BY <1>1, <1>3 DEF IInv, GateHeld

\* gopro_pair_complete_run takes the gate only when nobody holds it.
LEMMA RunKeeps ==
    ASSUME IInv, NEW tasks \in [Cameras -> Tasks], NEW x \in Cameras,
           \A y \in Cameras : tasks[y] = task[y] \/ (tasks[y].at = "none"
               \/ (tasks[y].at = "failing" /\ ~tasks[y].spawned)),
           RunOver(tasks, x)
    PROVE  /\ GateHeld' /\ task' \in [Cameras -> Tasks]
           /\ busy' \in BOOLEAN /\ pending' \subseteq 0..N
<1>1. \A y \in Cameras : /\ tasks[y].at \notin {"none", "released"}
                         /\ tasks[y].at = "failing" => tasks[y].spawned
                         => Holds(y)
  BY DEF Holds
<1>2. CASE busy
  <2>1. task' = tasks /\ busy' = busy /\ pending' = pending \cup {ctxSlot[x]}
    BY <1>2 DEF RunOver
  <2>2. \A y \in Cameras : Holds(y)' => Holds(y)
    BY <1>1, <2>1 DEF Holds
  <2> QED
    BY <2>1, <2>2 DEF IInv, GateHeld, GateTypes
<1>3. CASE ~busy
  <2>1. PICK ok \in {TRUE, ~SpawnMayFail} : task' = [tasks EXCEPT ![x] = Spawned(x, ok)]
    BY <1>3 DEF RunOver
  <2>2. busy' = TRUE /\ pending' = pending
    BY <1>3 DEF RunOver
  <2>3. Spawned(x, ok) \in Tasks
    BY ChoicesAssumption, CamerasAreNat DEF Spawned, Tasks, TaskStates, None, IInv, GateTypes
  <2>4. \A y \in Cameras : ~Holds(y)
    BY <1>3 DEF IInv, GateHeld
  <2>5. \A y \in Cameras : Holds(y)' => y = x
    BY <1>1, <2>1, <2>4 DEF Holds
  <2> QED
    BY <2>1, <2>2, <2>3, <2>5 DEF IInv, GateHeld, GateTypes
<1> QED
  BY <1>2, <1>3 DEF IInv, GateTypes

\* An unchanged gate stays held.
LEMMA StillHeld == ASSUME IInv, UNCHANGED <<busy, task>> PROVE GateHeld'
  BY DEF IInv, GateHeld, Holds

\* release_busy_and_drain gives the gate back.
LEMMA ReleasesKeeps == ASSUME IInv, NEW x \in Cameras, Releases(x) PROVE IInv'
<1>1. PICK i \in pending \cup {None} :
        task' = [task EXCEPT ![x].at = "released", ![x].slot = i]
  BY DEF Releases
<1>2. i \in 0..N /\ pending' \subseteq 0..N /\ busy' = FALSE
  BY CamerasAreNat DEF Releases, IInv, GateTypes
<1>3. task' \in [Cameras -> Tasks]
  <2>1. task[x] \in Tasks
    BY DEF IInv, GateTypes
  <2>2. [task[x] EXCEPT !.at = "released", !.slot = i] \in Tasks
    BY <2>1, <1>2 DEF Tasks, TaskStates
  <2>3. task' = [task EXCEPT ![x] = [task[x] EXCEPT !.at = "released", !.slot = i]]
    BY <1>1 DEF IInv, GateTypes
  <2> QED
    BY <2>2, <2>3 DEF IInv, GateTypes
<1>4. task'[x].at = "released" /\ \A y \in Cameras : y # x => task'[y] = task[y]
  BY <1>1 DEF IInv, GateTypes, Tasks
<1>5. Holds(x)
  BY DEF Releases, Holds
<1>6. \A y \in Cameras : ~Holds(y)'
  BY <1>4, <1>5 DEF Holds, IInv, GateHeld
<1> QED
  BY <1>2, <1>3, <1>6 DEF Releases, IInv, GateTypes, GateHeld, camVars, linkVars, bridge

\* A task that has released the gate may start the next one.
LEMMA DrainsKeeps == ASSUME IInv, NEW x \in Cameras, Drains(x) PROVE IInv'
<1> DEFINE next == task[x].slot
           rest == [task EXCEPT ![x] = IF task[x].spawned THEN NoTask
                      ELSE [task[x] EXCEPT !.at = "failing", !.slot = ctxSlot[x]]]
<1>1. NoTask \in Tasks /\ NoTask.at = "none"
  BY CamerasAreNat DEF NoTask, Tasks, TaskStates, None
<1>2. rest \in [Cameras -> Tasks]
  BY <1>1 DEF IInv, GateTypes, Tasks, TaskStates
<1>3. \A y \in Cameras : rest[y] = task[y] \/ rest[y].at = "none"
        \/ (rest[y].at = "failing" /\ ~rest[y].spawned)
  BY <1>1 DEF IInv, GateTypes, Tasks
<1>4. GateHeld' /\ task' \in [Cameras -> Tasks] /\ busy' \in BOOLEAN /\ pending' \subseteq 0..N
  <2>1. CASE next # None /\ ctxConn[next] # None /\ next \in Cameras
    <3>1. RunOver(rest, next)
      BY <2>1 DEF Drains
    <3> QED
      BY <3>1, <2>1, <1>2, <1>3, RunKeeps
  <2>2. CASE ~(next # None /\ ctxConn[next] # None)
    <3>1. task' = rest /\ UNCHANGED gate
      BY <2>2 DEF Drains
    <3>2. \A y \in Cameras : Holds(y)' => Holds(y)
      BY <3>1, <1>3 DEF Holds
    <3> QED
      BY <3>1, <3>2, <1>2 DEF gate, IInv, GateTypes, GateHeld
  <2>3. next \in 0..N
    BY DEF IInv, GateTypes, Tasks
  <2> QED
    BY <2>1, <2>2, <2>3, CamerasAreNat
<1> QED
  BY <1>4 DEF Drains, IInv, GateTypes, camVars, linkVars, bridge

-----------------------------------------------------------------------------
(***************************************************************************)
(* The steps between.                                                      *)
(***************************************************************************)

\* A task that goes from one of its states to another.
LEMMA GoesAt ==
    ASSUME IInv, NEW x \in Cameras, NEW at \in TaskStates, Goes(x, at),
           busy' = busy, Holds(x)
    PROVE  GateHeld' /\ task' \in [Cameras -> Tasks]
<1>1. task[x] \in Tasks
  BY DEF IInv, GateTypes
<1>2. [task[x] EXCEPT !.at = at] \in Tasks
  BY <1>1 DEF Tasks
<1>3. task' = [task EXCEPT ![x] = [task[x] EXCEPT !.at = at]]
  BY DEF Goes, IInv, GateTypes
<1> QED
  BY <1>2, <1>3, GoesOn

LEMMA LinksKeep ==
    ASSUME IInv, NEW c \in Cameras, Connect(c) \/ Disconnect(c) PROVE IInv'
<1>1. ctxConn' \in [Cameras -> 0..N]
  BY CamerasAreNat DEF Connect, Disconnect, IInv, GateTypes
<1>2. UNCHANGED <<camVars, gate, task, bridge>>
  BY DEF Connect, Disconnect
<1>3. GateHeld'
  BY <1>2, StillHeld DEF gate
<1> QED
  BY <1>1, <1>2, <1>3 DEF IInv, GateTypes, camVars, gate, bridge

LEMMA ReadyKeeps == ASSUME IInv, NEW x \in Cameras, Ready(x) PROVE IInv'
<1>1. UNCHANGED <<camVars, ctxConn, bridge>>
  BY DEF Ready
<1>2. GateHeld' /\ task' \in [Cameras -> Tasks] /\ busy' \in BOOLEAN /\ pending' \subseteq 0..N
  <2>1. CASE RunOver(task, x)
    BY <2>1, RunKeeps DEF IInv, GateTypes
  <2>2. CASE UNCHANGED <<gate, task>>
    <3>1. GateHeld'
      BY <2>2, StillHeld DEF gate
    <3> QED
      BY <2>2, <3>1 DEF gate, IInv, GateTypes
  <2> QED
    BY <2>1, <2>2 DEF Ready
<1> QED
  BY <1>1, <1>2 DEF IInv, GateTypes, camVars, bridge

\* The GATT reads go to and fro under the task that has the gate.
LEMMA ReadsKeep == ASSUME IInv, NEW x \in Cameras, Reads(x) PROVE IInv'
<1> USE DEF TaskStates
<1>t. task[x] \in Tasks
  BY DEF IInv, GateTypes
<1>1. CASE Begins(x)
  <2>1. Holds(x) /\ \E at \in TaskStates : Goes(x, at)
    BY <1>1 DEF Begins, Holds
  <2>2. UNCHANGED <<camVars, linkVars, gate, bridge>>
    BY <1>1 DEF Begins
  <2>3. GateHeld' /\ task' \in [Cameras -> Tasks]
    BY <2>1, <2>2, GoesAt DEF gate
  <2> QED
    BY <2>2, <2>3 DEF IInv, GateTypes, camVars, linkVars, gate, bridge
<1>2. CASE ReadTimesOut(x)
  <2>1. Holds(x) /\ Goes(x, "failing")
    BY <1>2 DEF ReadTimesOut, Holds
  <2>2. UNCHANGED <<camVars, linkVars, gate, bridge>>
    BY <1>2 DEF ReadTimesOut
  <2>3. GateHeld' /\ task' \in [Cameras -> Tasks]
    BY <2>1, <2>2, GoesAt DEF gate
  <2> QED
    BY <2>2, <2>3 DEF IInv, GateTypes, camVars, linkVars, gate, bridge
<1>3. CASE AsksBand(x)
  <2>1. Holds(x)
    BY <1>3 DEF AsksBand, Holds
  <2>2. UNCHANGED <<camVars, linkVars, gate, bridge>>
    BY <1>3 DEF AsksBand
  <2>3. GateHeld' /\ task' \in [Cameras -> Tasks]
    <3>1. CASE Goes(x, "failing")
      BY <3>1, <2>1, <2>2, GoesAt DEF gate
    <3>2. CASE task' = [task EXCEPT ![x].at = "join", ![x].left = Joins]
      <4>1. [task[x] EXCEPT !.at = "join", !.left = Joins] \in Tasks
        BY <1>t, SizesAssumption DEF Tasks
      <4>2. task' = [task EXCEPT ![x] = [task[x] EXCEPT !.at = "join", !.left = Joins]]
        BY <3>2 DEF IInv, GateTypes
      <4> QED
        BY <4>1, <4>2, <2>1, <2>2, GoesOn DEF gate
    <3> QED
      BY <1>3, <3>1, <3>2 DEF AsksBand
  <2> QED
    BY <2>2, <2>3 DEF IInv, GateTypes, camVars, linkVars, gate, bridge
<1>4. ASSUME NEW what \in {"ssid", "password"}, Asks(x, what) PROVE IInv'
  <2>1. Holds(x) /\ \E at \in TaskStates : Goes(x, at)
    BY <1>4 DEF Asks, Holds
  <2>2. UNCHANGED <<camVars, linkVars, gate, callback, value>>
    BY <1>4 DEF Asks
  <2>3. Read(task[x].conn, what) \in Values
    BY <1>t DEF Read, Values, Tasks
  <2>4. reads' \subseteq [of: Values, now: BOOLEAN]
    <3> DEFINE old == {[r EXCEPT !.now = FALSE] : r \in reads}
               new == [of |-> Read(task[x].conn, what), now |-> TRUE]
    <3>1. old \subseteq [of: Values, now: BOOLEAN]
      BY DEF IInv, GateTypes
    <3>2. new \in [of: Values, now: BOOLEAN]
      BY <2>3
    <3>3. reads' = old \/ reads' = old \cup {new}
      BY <1>4 DEF Asks
    <3> HIDE DEF old, new
    <3> QED
      BY <3>1, <3>2, <3>3
  <2>5. GateHeld' /\ task' \in [Cameras -> Tasks]
    BY <2>1, <2>2, GoesAt DEF gate
  <2> QED
    BY <2>2, <2>4, <2>5 DEF IInv, GateTypes, camVars, linkVars, gate
<1>5. ASSUME NEW what \in {"ssid", "password"}, Receives(x, what) PROVE IInv'
  <2> DEFINE at == IF value = Nothing THEN "failing" ELSE After(what)
             t  == [task[x] EXCEPT !.at = at, !.creds = @ \cup {value}]
  <2>1. Holds(x)
    BY <1>5 DEF Receives, Holds
  <2>2. UNCHANGED <<camVars, linkVars, gate, reads, callback>> /\ value' = Nothing
    BY <1>5 DEF Receives
  <2>3. at \in TaskStates /\ value \in Values /\ Nothing \in Values
    BY DEF After, IInv, GateTypes, Nothing, Values, None
  <2>4. t \in Tasks
    BY <1>t, <2>3 DEF Tasks
  <2>5. task' = [task EXCEPT ![x] = t]
    BY <1>5 DEF Receives, IInv, GateTypes
  <2>6. GateHeld' /\ task' \in [Cameras -> Tasks]
    BY <2>1, <2>2, <2>4, <2>5, GoesOn DEF gate
  <2> QED
    BY <2>2, <2>3, <2>6 DEF IInv, GateTypes, camVars, linkVars, gate
<1> QED
  BY <1>1, <1>2, <1>3, <1>4, <1>5 DEF Reads

\* Another attempt, or none.
LEMMA RetriesGoesOn ==
    ASSUME IInv, NEW x \in Cameras, Holds(x), task' = Retries(x), busy' = busy
    PROVE  GateHeld' /\ task' \in [Cameras -> Tasks]
<1> DEFINE t == [task[x] EXCEPT !.at = IF task[x].left > 1 THEN "join" ELSE "failing",
                                !.left = IF @ > 1 THEN @ - 1 ELSE 0]
<1>1. task[x] \in Tasks
  BY DEF IInv, GateTypes
<1> DEFINE at   == IF task[x].left > 1 THEN "join" ELSE "failing"
           left == IF task[x].left > 1 THEN task[x].left - 1 ELSE 0
<1>2. at \in TaskStates /\ left \in Nat
  <2>1. task[x].left \in Nat
    BY <1>1 DEF Tasks
  <2>2. left \in Nat
    BY <2>1
  <2> QED
    BY <2>2 DEF TaskStates
<1>3. t \in Tasks
  <2>1. t = [task[x] EXCEPT !.at = at, !.left = left]
    BY <1>1 DEF Tasks
  <2> HIDE DEF at, left, t
  <2> QED
    BY <1>1, <1>2, <2>1 DEF Tasks
<1>4. task' = [task EXCEPT ![x] = t]
  BY DEF Retries, IInv, GateTypes
<1> QED
  BY <1>3, <1>4, GoesOn

\* The joins change the radio's books, and the task's state.
LEMMA JoiningKeeps == ASSUME IInv, NEW x \in Cameras, Joining(x) PROVE IInv'
<1>1. Holds(x)
  BY DEF Joining, JoinBegins, JoinStarts, JoinSucceeds, JoinFails, Registers,
         RestoreBegins, RestoreStarts, RestoreRefused, RestoreEnds, Holds
<1>2. UNCHANGED <<slots, ctxSlot, linkVars, gate, bridge>>
  BY DEF Joining, JoinBegins, JoinStarts, JoinSucceeds, JoinFails, Registers,
         RestoreBegins, RestoreStarts, RestoreRefused, RestoreEnds, camVars
<1>3. \/ \E at \in TaskStates : Goes(x, at)
      \/ task' = Retries(x)
      \/ task' = [task EXCEPT ![x].at = "restore", ![x].ok = TRUE]
      \/ task' = [task EXCEPT ![x].at = "restore", ![x].left = 0]
      \/ task' = [task EXCEPT ![x].at = "mark"]
  BY DEF Joining, JoinBegins, JoinStarts, JoinSucceeds, JoinFails, Registers,
         RestoreBegins, RestoreStarts, RestoreRefused, RestoreEnds, TaskStates
<1>t. task[x] \in Tasks
  BY DEF IInv, GateTypes
<1>4. GateHeld' /\ task' \in [Cameras -> Tasks]
  <2>1. CASE \E at \in TaskStates : Goes(x, at)
    BY <2>1, <1>1, <1>2, GoesAt DEF gate
  <2>2. CASE task' = Retries(x)
    BY <2>2, <1>1, <1>2, RetriesGoesOn DEF gate
  <2>3. CASE task' = [task EXCEPT ![x].at = "restore", ![x].ok = TRUE]
    <3>1. [task[x] EXCEPT !.at = "restore", !.ok = TRUE] \in Tasks
      BY <1>t DEF Tasks, TaskStates
    <3>2. task' = [task EXCEPT ![x] = [task[x] EXCEPT !.at = "restore", !.ok = TRUE]]
      BY <2>3 DEF IInv, GateTypes
    <3> QED
      BY <3>1, <3>2, <1>1, <1>2, GoesOn DEF gate
  <2>4. CASE task' = [task EXCEPT ![x].at = "restore", ![x].left = 0]
    <3>1. [task[x] EXCEPT !.at = "restore", !.left = 0] \in Tasks
      BY <1>t DEF Tasks, TaskStates
    <3>2. task' = [task EXCEPT ![x] = [task[x] EXCEPT !.at = "restore", !.left = 0]]
      BY <2>4 DEF IInv, GateTypes
    <3> QED
      BY <3>1, <3>2, <1>1, <1>2, GoesOn DEF gate
  <2>5. CASE task' = [task EXCEPT ![x].at = "mark"]
    BY <2>5, <1>1, <1>2, GoesAt DEF gate, Goes, TaskStates
  <2> QED
    BY <1>3, <2>1, <2>2, <2>3, <2>4, <2>5
<1> QED
  BY <1>2, <1>4 DEF IInv, GateTypes, linkVars, gate, bridge

\* A removal shifts the slots, and a call that spawned no task holds nothing.
LEMMA EndsKeep == ASSUME IInv, NEW x \in Cameras, Marks(x) \/ Cleans(x) PROVE IInv'
<1>t. task[x] \in Tasks
  BY DEF IInv, GateTypes
<1>1. CASE Marks(x)
  <2>1. Holds(x) /\ Goes(x, "dying")
    BY <1>1 DEF Marks, Holds
  <2>2. UNCHANGED <<slots, ctxSlot, linkVars, gate, bridge>>
    BY <1>1 DEF Marks
  <2>3. GateHeld' /\ task' \in [Cameras -> Tasks]
    BY <2>1, <2>2, GoesAt DEF gate, TaskStates
  <2> QED
    BY <2>2, <2>3 DEF IInv, GateTypes, linkVars, gate, bridge
<1>2. CASE Cleans(x)
  <2> DEFINE s == task[x].slot
  <2>1. UNCHANGED <<ctxConn, gate, bridge>>
    BY <1>2 DEF Cleans
  <2>2. slots' \in Seq(Cameras) /\ Len(slots') <= N
    <3>1. CASE s <= Len(slots)
      <4>1. Len(slots) \in Nat /\ s \in Nat /\ N \in Nat
        BY <1>t, CamerasAreNat, LenProperties DEF IInv, GateTypes, Tasks
      <4>2. slots' = [i \in 1..(Len(slots) - 1) |-> IF i < s THEN slots[i] ELSE slots[i + 1]]
        BY <1>2, <3>1 DEF Cleans
      <4>3. \A i \in 1..Len(slots) : slots[i] \in Cameras
        BY ElementOfSeq DEF IInv, GateTypes
      <4>4. CASE Len(slots) = 0
        <5>1. slots' = << >>
          BY <4>2, <4>4
        <5> QED
          BY <5>1, <4>1
      <4>5. CASE Len(slots) > 0
        <5>1. Len(slots) - 1 \in Nat
          BY <4>1, <4>5
        <5>2. \A i \in 1..(Len(slots) - 1) : slots'[i] \in Cameras
          BY <4>1, <4>2, <4>3
        <5>3. slots' \in [1..(Len(slots) - 1) -> Cameras]
          BY <4>2, <5>2
        <5>4. slots' \in Seq(Cameras)
          BY <5>1, <5>3, SeqDef
        <5>5. Len(slots') = Len(slots) - 1
          BY <5>1, <5>3, <5>4, LenProperties
        <5> QED
          BY <5>4, <5>5, <4>1 DEF IInv, GateTypes
      <4> QED
        BY <4>1, <4>4, <4>5
    <3>2. CASE ~(s <= Len(slots))
      BY <3>2, <1>2 DEF Cleans, IInv, GateTypes
    <3> QED
      BY <3>1, <3>2
  <2>3. ctxSlot' \in [Cameras -> 0..N]
    <3>1. CASE s <= Len(slots)
      <4>1. \A c \in Cameras : (\E i \in (s + 1)..Len(slots) : slots[i] = c)
                => SlotOf(c) - 1 \in 0..N
        <5> SUFFICES ASSUME NEW c \in Cameras,
                            \E i \in (s + 1)..Len(slots) : slots[i] = c
                     PROVE  SlotOf(c) - 1 \in 0..N
          OBVIOUS
        <5>1. Len(slots) \in Nat /\ s \in Nat /\ N \in Nat /\ Len(slots) <= N
          BY <1>t, CamerasAreNat, LenProperties DEF IInv, GateTypes, Tasks
        <5>2. \E i \in 1..Len(slots) : slots[i] = c
          BY <5>1
        <5>3. SlotOf(c) \in 1..Len(slots)
          BY <5>2 DEF SlotOf
        <5> QED
          BY <5>1, <5>3
      <4>2. ctxSlot' = [c \in Cameras |->
                          IF \E i \in (s + 1)..Len(slots) : slots[i] = c
                          THEN SlotOf(c) - 1 ELSE ctxSlot[c]]
        BY <1>2, <3>1 DEF Cleans
      <4> QED
        BY <4>1, <4>2 DEF IInv, GateTypes
    <3>2. CASE ~(s <= Len(slots))
      BY <3>2, <1>2 DEF Cleans, IInv, GateTypes
    <3> QED
      BY <3>1, <3>2
  <2>4. GateHeld' /\ task' \in [Cameras -> Tasks]
    <3>1. CASE task[x].spawned
      <4>1. Goes(x, "dying") /\ Holds(x)
        BY <3>1, <1>2 DEF Cleans, Goes, Holds
      <4> QED
        BY <4>1, <2>1, GoesAt DEF gate, TaskStates
    <3>2. CASE ~task[x].spawned
      <4>1. NoTask \in Tasks /\ NoTask.at = "none"
        BY CamerasAreNat DEF NoTask, Tasks, TaskStates, None
      <4>2. task' = [task EXCEPT ![x] = NoTask]
        BY <3>2, <1>2 DEF Cleans
      <4> QED
        BY <4>1, <4>2, <2>1, GoesOn DEF gate
    <3> QED
      BY <3>1, <3>2
  <2> QED
    BY <2>1, <2>2, <2>3, <2>4 DEF IInv, GateTypes, gate, bridge
<1> QED
  BY <1>1, <1>2

\* The host task's callbacks and the event loop leave the gate alone.
LEMMA OthersKeep ==
    ASSUME IInv,
           \/ \E r \in reads : CallbackChecks(r)
           \/ CallbackDelivers \/ Associates \/ Loses \/ Handles
           \/ UNCHANGED vars
    PROVE  IInv'
<1>1. UNCHANGED <<camVars, linkVars, gate, task>>
  BY DEF CallbackChecks, CallbackDelivers, Associates, Loses, Handles, vars
<1>2. GateHeld'
  BY <1>1, StillHeld DEF gate
<1>3. callback' \in Values /\ value' \in Values /\ reads' \subseteq [of: Values, now: BOOLEAN]
  <2>1. Nothing \in Values
    BY DEF Nothing, Values, None
  <2>2. CASE \E r \in reads : CallbackChecks(r)
    <3>1. PICK r \in reads : CallbackChecks(r)
      BY <2>2
    <3>2. r.of \in Values
      BY DEF IInv, GateTypes
    <3> QED
      BY <2>1, <3>1, <3>2 DEF CallbackChecks, IInv, GateTypes
  <2>3. CASE CallbackDelivers
    BY <2>1, <2>3 DEF CallbackDelivers, IInv, GateTypes
  <2>4. CASE UNCHANGED bridge
    BY <2>4 DEF bridge, IInv, GateTypes
  <2> QED
    BY <2>2, <2>3, <2>4 DEF Associates, Loses, Handles, vars
<1> QED
  BY <1>1, <1>2, <1>3 DEF IInv, GateTypes, camVars, linkVars, gate

LEMMA NextKeeps == IInv /\ [Next]_vars => IInv'
<1> SUFFICES ASSUME IInv, [Next]_vars PROVE IInv'
  OBVIOUS
<1>1. CASE \E c \in Cameras : Connect(c) \/ Disconnect(c)
  BY <1>1, LinksKeep
<1>2. CASE \E x \in Cameras : Ready(x)
  BY <1>2, ReadyKeeps
<1>3. ASSUME NEW x \in Cameras, TaskStep(x) PROVE IInv'
  <2>1. CASE Gate(x)
    BY <2>1, ReleasesKeeps, DrainsKeeps DEF Gate
  <2>2. CASE Reads(x)
    BY <2>2, ReadsKeep
  <2>3. CASE Joining(x)
    BY <2>3, JoiningKeeps
  <2>4. CASE Marks(x) \/ Cleans(x)
    BY <2>4, EndsKeep
  <2> QED
    BY <1>3, <2>1, <2>2, <2>3, <2>4 DEF TaskStep
<1>4. CASE \/ \E r \in reads : CallbackChecks(r)
           \/ CallbackDelivers \/ Associates \/ Loses \/ Handles
           \/ UNCHANGED vars
  BY <1>4, OthersKeep
<1> QED
  BY <1>1, <1>2, <1>3, <1>4 DEF Next

-----------------------------------------------------------------------------

\* pair_complete.c:s_busy: whatever is deferred, drained, refused a task or
\* removed meanwhile, one task at a time owns the read bridge and the radio.
THEOREM GateCorrect == Spec => []OneAtATime
<1>1. IInv => OneAtATime
  BY DEF IInv, GateHeld, OneAtATime
<1> QED
  BY <1>1, InitIInv, NextKeeps, PTL DEF Spec

-----------------------------------------------------------------------------
(***************************************************************************)
(* What a task has read and joined is its own camera's.                    *)
(***************************************************************************)

Own(c) == {Read(c, "ssid"), Read(c, "password")}

\* What the event loop may have been told while a task joins camera c.
Leaving    == [is: {"start", "stop", "lost"}]
Answers(c) == [cam: {c}, what: {"gateway", "none"}]
Heard(c)   == Leaving \cup [is: {"got"}, ip: Answers(c)]

\* The credentials so far.
CredsOwn(x) ==
    LET t == task[x]
    IN  /\ t.at \in {"start", "ask ssid", "ssid"} => t.creds = {}
        /\ t.at \in {"ask password", "password"} => t.creds = {Read(t.conn, "ssid")}
        /\ t.at \in {"band", "join", "joining", "joined?", "http",
                     "restore", "restoring", "ap?"} => t.creds = Own(t.conn)

\* Only the read the task waits for can answer it.
BridgeOwn(x) ==
    \A what \in {"ssid", "password"} : task[x].at = what =>
        /\ \A r \in reads : r.now => r.of = Read(task[x].conn, what)
        /\ callback \in {Nothing, Read(task[x].conn, what)}
        /\ done => value \in {Nothing, Read(task[x].conn, what)}

\* Since its join began, only the camera it dials can have given an address.
AirOwn(x) ==
    LET t == task[x]
    IN  /\ t.at = "joining" => dialled = None /\ gotIp = Nothing /\ events \in Seq(Leaving)
        /\ t.at \in {"joined?", "http"} =>
              /\ dialled \in {None, t.conn} /\ events \in Seq(Heard(t.conn))
              /\ gotIp \in {Nothing} \cup Answers(t.conn)
        /\ t.at = "http" => gotIp # Nothing

OwnInv == \A x \in Cameras : CredsOwn(x) /\ BridgeOwn(x) /\ AirOwn(x)

shared == <<reads, callback, done, value, dialled, gotIp, events>>

\* The stages in which a task depends on nothing shared.
Apart == TaskStates \ {"ssid", "password", "joining", "joined?", "http"}

LEMMA InitOwn == Init => OwnInv
<1> SUFFICES ASSUME Init, NEW x \in Cameras PROVE CredsOwn(x) /\ BridgeOwn(x) /\ AirOwn(x)
  BY DEF OwnInv
<1>1. task[x].at = "none"
  BY DEF Init, NoTask
<1> QED
  BY <1>1 DEF CredsOwn, BridgeOwn, AirOwn

\* The shared variables are left alone, and every task is where it was, or where
\* it needs none of them.
LEMMA ApartKeeps ==
    ASSUME OwnInv, UNCHANGED shared,
           \A y \in Cameras :
              task'[y] = task[y] \/ (task'[y].at \in Apart /\ CredsOwn(y)')
    PROVE  OwnInv'
<1> SUFFICES ASSUME NEW y \in Cameras PROVE CredsOwn(y)' /\ BridgeOwn(y)' /\ AirOwn(y)'
  BY DEF OwnInv
<1>1. CASE task'[y] = task[y]
  BY <1>1 DEF shared, OwnInv, CredsOwn, BridgeOwn, AirOwn
<1>2. CASE task'[y].at \in Apart /\ CredsOwn(y)'
  BY <1>2 DEF Apart, BridgeOwn, AirOwn
<1> QED
  BY <1>1, <1>2

\* The task that has the gate is the only one that depends on what is shared.
LEMMA HolderOwns ==
    ASSUME IInv, OwnInv, NEW x \in Cameras, Holds(x),
           \A y \in Cameras : y # x => task'[y] = task[y],
           CredsOwn(x)' /\ BridgeOwn(x)' /\ AirOwn(x)'
    PROVE  OwnInv'
<1> SUFFICES ASSUME NEW y \in Cameras, y # x PROVE CredsOwn(y)' /\ BridgeOwn(y)' /\ AirOwn(y)'
  BY DEF OwnInv
<1>1. task'[y] = task[y] /\ CredsOwn(y)
  BY DEF OwnInv
<1>2. ~Holds(y)
  BY DEF IInv, GateHeld
<1>3. task[y].at \notin {"ssid", "password", "joining", "joined?", "http"}
  BY <1>2 DEF Holds
<1> QED
  BY <1>1, <1>3 DEF CredsOwn, BridgeOwn, AirOwn

\* Task x is at another stage, with the same camera and credentials.
Moves(x, at) ==
    /\ task'[x].at = at /\ task'[x].conn = task[x].conn /\ task'[x].creds = task[x].creds
    /\ \A y \in Cameras : y # x => task'[y] = task[y]

LEMMA GoesMoves ==
    ASSUME IInv, NEW x \in Cameras, NEW at, Goes(x, at) PROVE Moves(x, at)
  BY DEF Goes, Moves, IInv, GateTypes, Tasks

LEMMA RetriesMoves ==
    ASSUME IInv, NEW x \in Cameras, task' = Retries(x)
    PROVE  Moves(x, "join") \/ Moves(x, "failing")
<1>1. task[x] \in Tasks /\ task \in [Cameras -> Tasks]
  BY DEF IInv, GateTypes
<1> DEFINE at == IF task[x].left > 1 THEN "join" ELSE "failing"
<1>2. task' = [task EXCEPT ![x] = [task[x] EXCEPT !.at = at,
                                                  !.left = IF @ > 1 THEN @ - 1 ELSE 0]]
  BY <1>1 DEF Retries
<1>3. at \in {"join", "failing"}
  OBVIOUS
<1> HIDE DEF at
<1> QED
  BY <1>1, <1>2, <1>3 DEF Moves, Tasks

\* To a stage that needs nothing shared, with the credentials it asks for.
LEMMA MovesKeeps ==
    ASSUME OwnInv, UNCHANGED shared, NEW x \in Cameras, NEW at \in Apart, Moves(x, at),
           \/ at \in {"failing", "dying", "mark", "released", "none"}
           \/ at = "ask ssid" /\ task[x].at = "start"
           \/ /\ at \in {"join", "restore", "restoring", "ap?"}
              /\ task[x].at \in {"band", "join", "joining", "joined?", "http",
                                 "restore", "restoring", "ap?"}
    PROVE  OwnInv'
<1>1. CredsOwn(x)'
  BY DEF Moves, OwnInv, CredsOwn
<1> QED
  BY <1>1, ApartKeeps DEF Moves

LEMMA RunOwn ==
    ASSUME OwnInv, UNCHANGED shared, NEW x \in Cameras, NEW tasks, RunOver(tasks, x),
           tasks \in [Cameras -> Tasks],
           \A y \in Cameras : tasks[y] = task[y] \/ tasks[y].at \in {"none", "failing"}
    PROVE  OwnInv'
<1>1. ASSUME NEW y \in Cameras, task'[y] = tasks[y]
      PROVE  task'[y] = task[y] \/ (task'[y].at \in Apart /\ CredsOwn(y)')
  BY <1>1 DEF Apart, TaskStates, CredsOwn
<1>2. CASE busy
  BY <1>1, <1>2, ApartKeeps DEF RunOver
<1>3. CASE ~busy
  <2>1. PICK ok : task' = [tasks EXCEPT ![x] = Spawned(x, ok)]
    BY <1>3 DEF RunOver
  <2>2. task'[x].at \in {"start", "dying"} /\ task'[x].creds = {}
    BY <2>1 DEF Spawned
  <2>3. task'[x].at \in Apart /\ CredsOwn(x)'
    BY <2>2 DEF Apart, TaskStates, CredsOwn
  <2>4. \A y \in Cameras : y # x => task'[y] = tasks[y]
    BY <2>1
  <2> QED
    BY <1>1, <2>3, <2>4, ApartKeeps
<1> QED
  BY <1>2, <1>3

\* The gate and the links.
LEMMA GateOwns ==
    ASSUME IInv, OwnInv, NEW x \in Cameras,
           Connect(x) \/ Disconnect(x) \/ Ready(x) \/ Gate(x) \/ UNCHANGED vars
    PROVE  OwnInv'
<1> USE DEF bridge, wifi, bits, radio
<1>1. UNCHANGED shared
  BY DEF Connect, Disconnect, Ready, Gate, Releases, Drains, vars, shared
<1>2. CASE Connect(x) \/ Disconnect(x) \/ UNCHANGED vars
  <2>1. task' = task
    BY <1>2 DEF Connect, Disconnect, vars
  <2> QED
    BY <1>1, <2>1, ApartKeeps
<1>3. CASE Ready(x)
  <2>1. CASE RunOver(task, x)
    BY <1>1, <2>1, RunOwn DEF IInv, GateTypes
  <2>2. CASE task' = task
    BY <1>1, <2>2, ApartKeeps
  <2> QED
    BY <1>3, <2>1, <2>2 DEF Ready
<1>4. CASE Releases(x)
  <2>1. PICK i : task' = [task EXCEPT ![x].at = "released", ![x].slot = i]
    BY <1>4 DEF Releases
  <2>2. task' = [task EXCEPT ![x] = [task[x] EXCEPT !.at = "released", !.slot = i]]
    BY <2>1 DEF IInv, GateTypes
  <2>3. Moves(x, "released")
    BY <2>2 DEF Moves, IInv, GateTypes, Tasks
  <2> QED
    BY <1>1, <2>3, MovesKeeps DEF Apart, TaskStates
<1>5. CASE Drains(x)
  <2> DEFINE next == task[x].slot
             rest == [task EXCEPT ![x] = IF task[x].spawned THEN NoTask
                        ELSE [task[x] EXCEPT !.at = "failing", !.slot = ctxSlot[x]]]
  <2>1. NoTask \in Tasks /\ NoTask.at = "none"
    BY CamerasAreNat DEF NoTask, Tasks, TaskStates, None
  <2>2. rest \in [Cameras -> Tasks]
    BY <2>1 DEF IInv, GateTypes, Tasks, TaskStates
  <2>3. \A y \in Cameras : rest[y] = task[y] \/ rest[y].at \in {"none", "failing"}
    BY <2>1 DEF IInv, GateTypes, Tasks
  <2>4. next \in 0..N
    BY DEF IInv, GateTypes, Tasks
  <2>5. task' = rest \/ (next \in Cameras /\ RunOver(rest, next))
    BY <1>5, <2>4, CamerasAreNat DEF Drains
  <2> HIDE DEF rest, next
  <2>6. CASE task' = rest
    BY <1>1, <2>3, <2>6, ApartKeeps DEF Apart, TaskStates, CredsOwn
  <2>7. CASE next \in Cameras /\ RunOver(rest, next)
    BY <1>1, <2>2, <2>3, <2>7, RunOwn
  <2> QED
    BY <2>5, <2>6, <2>7
<1> QED
  BY <1>2, <1>3, <1>4, <1>5 DEF Gate

\* The reads.
LEMMA ReadsOwn == ASSUME IInv, OwnInv, NEW x \in Cameras, Reads(x) PROVE OwnInv'
<1> USE DEF wifi, bits, radio
<1>0. Holds(x)
  BY DEF Reads, Begins, ReadTimesOut, AsksBand, Asks, Receives, Holds
<1>1. CASE Begins(x)
  <2>1. UNCHANGED shared /\ task[x].at = "start"
    BY <1>1 DEF Begins, shared, bridge
  <2>2. \E at \in {"dying", "ask ssid", "failing"} : Moves(x, at)
    BY <1>1, GoesMoves DEF Begins
  <2> QED
    BY <2>1, <2>2, MovesKeeps DEF Apart, TaskStates
<1>2. CASE ReadTimesOut(x)
  <2>1. UNCHANGED shared /\ Moves(x, "failing")
    BY <1>2, GoesMoves DEF ReadTimesOut, shared, bridge
  <2> QED
    BY <2>1, MovesKeeps DEF Apart, TaskStates
<1>3. CASE AsksBand(x)
  <2>1. UNCHANGED shared /\ task[x].at = "band"
    BY <1>3 DEF AsksBand, shared, bridge
  <2>2. Moves(x, "failing") \/ Moves(x, "join")
    <3>1. CASE Goes(x, "failing")
      BY <3>1, GoesMoves
    <3>2. CASE task' = [task EXCEPT ![x].at = "join", ![x].left = Joins]
      <4>1. task' = [task EXCEPT ![x] = [task[x] EXCEPT !.at = "join", !.left = Joins]]
        BY <3>2 DEF IInv, GateTypes
      <4> QED
        BY <4>1 DEF Moves, IInv, GateTypes, Tasks
    <3> QED
      BY <1>3, <3>1, <3>2 DEF AsksBand
  <2> QED
    BY <2>1, <2>2, MovesKeeps DEF Apart, TaskStates
<1>4. ASSUME NEW what \in {"ssid", "password"}, Asks(x, what) PROVE OwnInv'
  <2>1. /\ callback = Nothing /\ UNCHANGED <<callback, value, dialled, gotIp, events>>
        /\ ~done' /\ task[x].at = IF what = "ssid" THEN "ask ssid" ELSE "ask password"
    BY <1>4 DEF Asks
  <2>2. Moves(x, what) \/ Moves(x, "failing")
    BY <1>4, GoesMoves DEF Asks
  <2>3. CASE Moves(x, "failing")
    <3>1. CredsOwn(x)' /\ BridgeOwn(x)' /\ AirOwn(x)'
      BY <2>3 DEF Moves, CredsOwn, BridgeOwn, AirOwn
    <3> QED
      BY <1>0, <2>3, <3>1, HolderOwns DEF Moves
  <2>4. CASE Moves(x, what)
    <3>1. reads' = {[r EXCEPT !.now = FALSE] : r \in reads}
                     \cup {[of |-> Read(task[x].conn, what), now |-> TRUE]}
      BY <1>4, <2>4 DEF Asks, Goes, Moves, IInv, GateTypes, Tasks
    <3>2. \A r \in {[q EXCEPT !.now = FALSE] : q \in reads} : ~r.now
      BY DEF IInv, GateTypes
    <3>3. \A r \in reads' : r.now => r.of = Read(task[x].conn, what)
      BY <3>1, <3>2
    <3>4. BridgeOwn(x)'
      BY <2>1, <2>4, <3>3 DEF Moves, BridgeOwn
    <3>5. CredsOwn(x)' /\ AirOwn(x)'
      BY <2>1, <2>4 DEF Moves, OwnInv, CredsOwn, AirOwn
    <3> QED
      BY <1>0, <2>4, <3>4, <3>5, HolderOwns DEF Moves
  <2> QED
    BY <2>2, <2>3, <2>4
<1>5. ASSUME NEW what \in {"ssid", "password"}, Receives(x, what) PROVE OwnInv'
  <2>1. /\ task[x].at = what /\ done /\ ~done'
        /\ UNCHANGED <<reads, callback, dialled, gotIp, events>>
        /\ task' = [task EXCEPT ![x] = [task[x] EXCEPT
                       !.at = IF value = Nothing THEN "failing" ELSE After(what),
                       !.creds = @ \cup {value}]]
    BY <1>5 DEF Receives, IInv, GateTypes
  <2>2. /\ task'[x].at = IF value = Nothing THEN "failing" ELSE After(what)
        /\ task'[x].creds = task[x].creds \cup {value} /\ task'[x].conn = task[x].conn
        /\ \A y \in Cameras : y # x => task'[y] = task[y]
    BY <2>1 DEF IInv, GateTypes, Tasks
  <2>3. value \in {Nothing, Read(task[x].conn, what)}
    BY <2>1 DEF OwnInv, BridgeOwn
  <2>4. CredsOwn(x)'
    <3>1. CASE value = Nothing
      BY <2>2, <3>1 DEF CredsOwn
    <3>2. CASE value # Nothing /\ what = "ssid"
      <4>1. task[x].creds = {} /\ task'[x].at = "ask password" /\ value = Read(task[x].conn, "ssid")
        BY <2>1, <2>2, <2>3, <3>2 DEF OwnInv, CredsOwn, After
      <4>2. task'[x].creds = {Read(task'[x].conn, "ssid")}
        BY <2>2, <4>1
      <4> QED
        BY <4>1, <4>2 DEF CredsOwn
    <3>3. CASE value # Nothing /\ what = "password"
      <4>1. /\ task[x].creds = {Read(task[x].conn, "ssid")} /\ task'[x].at = "band"
            /\ value = Read(task[x].conn, "password")
        BY <2>1, <2>2, <2>3, <3>3 DEF OwnInv, CredsOwn, After
      <4>2. task'[x].creds = Own(task'[x].conn)
        BY <2>2, <4>1 DEF Own
      <4> QED
        BY <4>1, <4>2 DEF CredsOwn
    <3> QED
      BY <3>1, <3>2, <3>3
  <2>5. BridgeOwn(x)' /\ AirOwn(x)'
    BY <2>2 DEF After, BridgeOwn, AirOwn
  <2> QED
    BY <1>0, <2>2, <2>4, <2>5, HolderOwns
<1> QED
  BY <1>1, <1>2, <1>3, <1>4, <1>5 DEF Reads

\* The host task's callbacks: a read that is no longer awaited is dropped.
LEMMA CallbacksOwn ==
    ASSUME OwnInv, CallbackDelivers \/ \E r \in reads : CallbackChecks(r)
    PROVE  OwnInv'
<1> USE DEF wifi, bits, radio
<1>1. UNCHANGED <<task, dialled, gotIp, events>>
  BY DEF CallbackDelivers, CallbackChecks
<1>2. \A y \in Cameras : CredsOwn(y)' /\ AirOwn(y)'
  BY <1>1 DEF OwnInv, CredsOwn, AirOwn
<1>3. ASSUME NEW y \in Cameras PROVE BridgeOwn(y)'
  <2> SUFFICES ASSUME NEW what \in {"ssid", "password"}, task[y].at = what
               PROVE  /\ \A r \in reads' : r.now => r.of = Read(task[y].conn, what)
                      /\ callback' \in {Nothing, Read(task[y].conn, what)}
                      /\ done' => value' \in {Nothing, Read(task[y].conn, what)}
    BY <1>1 DEF BridgeOwn
  <2>1. /\ \A r \in reads : r.now => r.of = Read(task[y].conn, what)
        /\ callback \in {Nothing, Read(task[y].conn, what)}
        /\ done => value \in {Nothing, Read(task[y].conn, what)}
    BY DEF OwnInv, BridgeOwn
  <2> QED
    BY <2>1 DEF CallbackDelivers, CallbackChecks
<1> QED
  BY <1>2, <1>3 DEF OwnInv

\* Joining and leaving.
LEMMA JoiningOwn == ASSUME IInv, OwnInv, NEW x \in Cameras, Joining(x) PROVE OwnInv'
<1> USE DEF bridge, wifi, bits, radio
<1>0. Holds(x)
  BY DEF Joining, JoinBegins, JoinStarts, JoinSucceeds, JoinFails, Registers,
         RestoreBegins, RestoreStarts, RestoreRefused, RestoreEnds, Holds
<1>1. ASSUME task' = Retries(x), UNCHANGED shared, task[x].at \in {"join", "joined?", "ap?"}
      PROVE  OwnInv'
  BY <1>1, RetriesMoves, MovesKeeps DEF Apart, TaskStates
<1>2. CASE JoinBegins(x)
  <2>1. task[x].at = "join" /\ events = << >> /\ UNCHANGED <<reads, callback, done, value>>
    BY <1>2 DEF JoinBegins
  <2>2. CASE staBusy
    BY <1>1, <1>2, <2>1, <2>2 DEF JoinBegins, shared
  <2>3. CASE ~staBusy
    <3>1. /\ gotIp' = Nothing /\ dialled' = None /\ Goes(x, "joining")
          /\ events' = events \o (IF on /\ mode = "ap" THEN <<[is |-> "stop"]>> ELSE << >>)
                              \o (IF joined # None THEN <<[is |-> "lost"]>> ELSE << >>)
      BY <1>2, <2>3 DEF JoinBegins, StopsRadio
    <3>2. events' \in Seq(Leaving)
      <4>1. [is |-> "stop"] \in Leaving /\ [is |-> "lost"] \in Leaving
        BY DEF Leaving
      <4> QED
        BY <2>1, <3>1, <4>1
    <3>3. Moves(x, "joining")
      BY <3>1, GoesMoves
    <3>4. CredsOwn(x)' /\ BridgeOwn(x)' /\ AirOwn(x)'
      BY <2>1, <3>1, <3>2, <3>3 DEF Moves, OwnInv, CredsOwn, BridgeOwn, AirOwn
    <3> QED
      BY <1>0, <3>3, <3>4, HolderOwns DEF Moves
  <2> QED
    BY <2>2, <2>3
<1>3. CASE JoinStarts(x)
  <2>1. task[x].at = "joining" /\ UNCHANGED <<reads, callback, done, value, gotIp>>
    BY <1>3 DEF JoinStarts
  <2>2. CASE Goes(x, "restore") /\ UNCHANGED radio
    BY <2>1, <2>2, GoesMoves, MovesKeeps DEF Apart, TaskStates, shared
  <2>3. CASE Goes(x, "joined?")
    <3>0. ~Goes(x, "restore")
      BY <2>3, GoesMoves DEF Moves
    <3>1. /\ events' = events
          /\ \E c \in Cameras : /\ Read(c, "ssid") \in task[x].creds
                                /\ dialled' \in {None, c}
      BY <1>3, <3>0 DEF JoinStarts
    <3>2. task[x].creds = Own(task[x].conn)
      BY <2>1 DEF OwnInv, CredsOwn
    <3>3. \A c \in Cameras : Read(c, "ssid") \in Own(task[x].conn) => c = task[x].conn
      BY DEF Own, Read
    <3>4. dialled' \in {None, task[x].conn}
      BY <3>1, <3>2, <3>3
    <3>5. events' \in Seq(Heard(task[x].conn)) /\ gotIp' = Nothing
      <4>1. events \in Seq(Leaving) /\ gotIp = Nothing
        BY <2>1 DEF OwnInv, AirOwn
      <4>2. \A S : Leaving \subseteq S => events \in Seq(S)
        BY <4>1
      <4>3. Leaving \subseteq Heard(task[x].conn)
        BY DEF Heard
      <4> QED
        BY <2>1, <3>1, <4>1, <4>2, <4>3
    <3>6. Moves(x, "joined?")
      BY <2>3, GoesMoves
    <3>7. CredsOwn(x)' /\ BridgeOwn(x)' /\ AirOwn(x)'
      BY <3>2, <3>4, <3>5, <3>6 DEF Moves, CredsOwn, BridgeOwn, AirOwn
    <3> QED
      BY <1>0, <3>6, <3>7, HolderOwns DEF Moves
  <2> QED
    BY <1>3, <2>2, <2>3 DEF JoinStarts
<1>4. CASE JoinSucceeds(x)
  <2>1. task[x].at = "joined?" /\ UNCHANGED shared /\ gotIp # Nothing
    BY <1>4 DEF JoinSucceeds, shared
  <2>2. CASE task' = Retries(x)
    BY <1>1, <2>1, <2>2
  <2>3. CASE Goes(x, "http")
    <3>1. Moves(x, "http")
      BY <2>3, GoesMoves
    <3>2. CredsOwn(x)' /\ BridgeOwn(x)' /\ AirOwn(x)'
      BY <2>1, <3>1 DEF Moves, OwnInv, CredsOwn, BridgeOwn, AirOwn, shared
    <3> QED
      BY <1>0, <3>1, <3>2, HolderOwns DEF Moves
  <2> QED
    BY <1>4, <2>2, <2>3 DEF JoinSucceeds
<1>5. CASE JoinFails(x)
  BY <1>5, GoesMoves, MovesKeeps DEF JoinFails, Apart, TaskStates, shared
<1>6. CASE Registers(x)
  <2>1. task[x].at = "http" /\ UNCHANGED shared
    BY <1>6 DEF Registers, shared
  <2>2. Moves(x, "restore")
    <3>1. CASE task' = [task EXCEPT ![x].at = "restore", ![x].ok = TRUE]
      <4>1. task' = [task EXCEPT ![x] = [task[x] EXCEPT !.at = "restore", !.ok = TRUE]]
        BY <3>1 DEF IInv, GateTypes
      <4> QED
        BY <4>1 DEF Moves, IInv, GateTypes, Tasks
    <3>2. CASE task' = [task EXCEPT ![x].at = "restore", ![x].left = 0]
      <4>1. task' = [task EXCEPT ![x] = [task[x] EXCEPT !.at = "restore", !.left = 0]]
        BY <3>2 DEF IInv, GateTypes
      <4> QED
        BY <4>1 DEF Moves, IInv, GateTypes, Tasks
    <3> QED
      BY <1>6, <3>1, <3>2 DEF Registers
  <2> QED
    BY <2>1, <2>2, MovesKeeps DEF Apart, TaskStates
<1>7. ASSUME NEW at \in {"restoring", "ap?"}, Goes(x, at),
             task[x].at \in {"restore", "restoring"}
      PROVE  OwnInv'
  <2>1. Moves(x, at)
    BY <1>7, GoesMoves
  <2>2. CredsOwn(x)' /\ BridgeOwn(x)' /\ AirOwn(x)'
    BY <1>7, <2>1 DEF Moves, OwnInv, CredsOwn, BridgeOwn, AirOwn
  <2> QED
    BY <1>0, <2>1, <2>2, HolderOwns DEF Moves
<1>8. CASE RestoreEnds(x)
  <2>1. task[x].at = "ap?" /\ UNCHANGED shared
    BY <1>8 DEF RestoreEnds, shared
  <2>2. CASE task' = Retries(x)
    BY <1>1, <2>1, <2>2
  <2>3. CASE Goes(x, "mark")
    BY <2>1, <2>3, GoesMoves, MovesKeeps DEF Apart, TaskStates
  <2> QED
    BY <1>8, <2>2, <2>3 DEF RestoreEnds, Goes
<1> QED
  BY <1>2, <1>3, <1>4, <1>5, <1>6, <1>7, <1>8 DEF Joining, RestoreBegins, RestoreStarts,
     RestoreRefused

\* How a task ends.
LEMMA EndsOwn == ASSUME IInv, OwnInv, NEW x \in Cameras, Marks(x) \/ Cleans(x) PROVE OwnInv'
<1>1. UNCHANGED shared
  BY DEF Marks, Cleans, bridge, wifi, bits, radio, shared
<1>2. CASE Goes(x, "dying")
  BY <1>1, <1>2, GoesMoves, MovesKeeps DEF Apart, TaskStates
<1>3. CASE task' = [task EXCEPT ![x] = NoTask]
  <2>1. task'[x].at = "none" /\ \A y \in Cameras : y # x => task'[y] = task[y]
    BY <1>3 DEF NoTask, IInv, GateTypes
  <2> QED
    BY <1>1, <2>1, ApartKeeps DEF Apart, TaskStates, CredsOwn
<1> QED
  BY <1>2, <1>3 DEF Marks, Cleans, Goes

\* The event loop and the driver: what they bring while a task joins comes from the
\* camera that was dialled for it.
LEMMA DriverOwns ==
    ASSUME OwnInv, Associates \/ Loses \/ Handles
    PROVE  OwnInv'
<1>1. UNCHANGED <<task, bridge>>
  BY DEF Associates, Loses, Handles
<1>2. \A y \in Cameras : CredsOwn(y)' /\ BridgeOwn(y)'
  BY <1>1 DEF OwnInv, CredsOwn, BridgeOwn, bridge
<1>3. [is |-> "lost"] \in Leaving /\ [is |-> "start"] \in Leaving
  BY DEF Leaving
<1>4. ASSUME NEW y \in Cameras PROVE AirOwn(y)'
  <2> DEFINE c == task[y].conn
  <2>1. CASE Associates
    <3>1. PICK named \in Gateways :
             events' = Append(events, [is |-> "got", ip |-> Read(dialled,
                                      IF named THEN "gateway" ELSE "none")])
      BY <2>1 DEF Associates
    <3>2. dialled # None /\ dialled' = None /\ gotIp' = gotIp
      BY <2>1 DEF Associates, bits
    <3>3. task[y].at # "joining"
      BY <3>2 DEF OwnInv, AirOwn
    <3>4. ASSUME task[y].at \in {"joined?", "http"} PROVE events' \in Seq(Heard(c))
      <4>1. dialled = c /\ events \in Seq(Heard(c))
        BY <3>2, <3>4 DEF OwnInv, AirOwn
      <4>2. Read(dialled, IF named THEN "gateway" ELSE "none") \in Answers(c)
        BY <4>1 DEF Read, Answers
      <4>3. [is |-> "got", ip |-> Read(dialled, IF named THEN "gateway" ELSE "none")] \in Heard(c)
        BY <4>2 DEF Heard
      <4> QED
        BY <3>1, <4>1, <4>3
    <3> QED
      BY <1>1, <3>2, <3>3, <3>4 DEF OwnInv, AirOwn
  <2>2. CASE Loses
    <3>1. dialled' = None /\ gotIp' = gotIp /\ events' = Append(events, [is |-> "lost"])
      BY <2>2 DEF Loses, bits
    <3>2. events \in Seq(Leaving) => events' \in Seq(Leaving)
      BY <1>3, <3>1
    <3>3. events \in Seq(Heard(c)) => events' \in Seq(Heard(c))
      BY <1>3, <3>1 DEF Heard
    <3> QED
      BY <1>1, <3>1, <3>2, <3>3 DEF OwnInv, AirOwn
  <2>3. CASE Handles
    <3>1. PICK more \in {<< >>, <<[is |-> "start"]>>} : events' = Tail(events) \o more
      BY <2>3 DEF Handles
    <3>2. /\ events # << >> /\ dialled' = dialled
          /\ gotIp' = IF Head(events).is = "got" THEN Head(events).ip ELSE gotIp
      BY <2>3 DEF Handles
    <3>3. ASSUME NEW S, Leaving \subseteq S, events \in Seq(S)
          PROVE  events' \in Seq(S) /\ Head(events) \in S
      <4>1. more \in Seq(S)
        <5>1. [is |-> "start"] \in S
          BY <1>3, <3>3
        <5>2. << >> \in Seq(S) /\ <<[is |-> "start"]>> \in Seq(S)
          BY <5>1
        <5> QED
          BY <3>1, <5>2
      <4>2. Tail(events) \in Seq(S) /\ Head(events) \in S
        BY <3>2, <3>3, HeadTailProperties
      <4> QED
        BY <3>1, <4>1, <4>2, ConcatProperties
    <3>4. ASSUME task[y].at = "joining" PROVE events' \in Seq(Leaving) /\ gotIp' = gotIp
      <4>1. events \in Seq(Leaving)
        BY <3>4 DEF OwnInv, AirOwn
      <4>2. events' \in Seq(Leaving) /\ Head(events) \in Leaving
        BY <3>3, <4>1
      <4> QED
        BY <3>2, <4>2 DEF Leaving
    <3>5. ASSUME task[y].at \in {"joined?", "http"}
          PROVE  events' \in Seq(Heard(c)) /\ gotIp' \in {gotIp} \cup Answers(c)
      <4>1. events \in Seq(Heard(c))
        BY <3>5 DEF OwnInv, AirOwn
      <4>2. events' \in Seq(Heard(c)) /\ Head(events) \in Heard(c)
        BY <3>3, <4>1 DEF Heard
      <4>3. Head(events).is = "got" => Head(events).ip \in Answers(c)
        BY <4>2 DEF Heard, Leaving
      <4> QED
        BY <3>2, <4>2, <4>3
    <3>6. Nothing \notin Answers(c)
      BY DEF Nothing, Answers
    <3> QED
      BY <1>1, <3>2, <3>4, <3>5, <3>6 DEF OwnInv, AirOwn
  <2> QED
    BY <2>1, <2>2, <2>3
<1> QED
  BY <1>2, <1>4 DEF OwnInv

LEMMA OwnKeeps == IInv /\ OwnInv /\ [Next]_vars => OwnInv'
<1> SUFFICES ASSUME IInv, OwnInv, [Next]_vars PROVE OwnInv'
  OBVIOUS
<1>1. 1 \in Cameras
  BY SizesAssumption DEF Cameras
<1> QED
  BY <1>1, GateOwns, ReadsOwn, CallbacksOwn, JoiningOwn, EndsOwn, DriverOwns DEF Next, TaskStep

\* pair_complete.c, wifi_manager.c: whichever reads were given up and whichever joins
\* failed before, the credentials a task joins with and the address it sends the
\* registration to are those of the camera it was spawned for.
THEOREM RegistersOnlyOwn == Spec => []RegistersOwn
<1>1. OwnInv => RegistersOwn
  <2>1. ASSUME OwnInv, NEW x \in Cameras, task[x].at = "http" PROVE gotIp.cam = task[x].conn
    BY <2>1 DEF OwnInv, AirOwn, Answers
  <2> QED
    BY <2>1 DEF OwnInv, CredsOwn, RegistersOwn, Own
<1> QED
  BY <1>1, InitIInv, NextKeeps, InitOwn, OwnKeeps, PTL DEF Spec

-----------------------------------------------------------------------------
(***************************************************************************)
(* The read bridge's flag and the radio's books.                           *)
(***************************************************************************)

RadioTypes ==
    /\ target \in {"ap", "sta"} /\ mode \in {"ap", "sta"}
    /\ done \in BOOLEAN /\ on \in BOOLEAN /\ apStarted \in BOOLEAN /\ staBusy \in BOOLEAN
    /\ apLeft \in BOOLEAN

LEMMA RadioKeeps == RadioTypes /\ [Next]_vars => RadioTypes'
<1> SUFFICES ASSUME RadioTypes, [Next]_vars PROVE RadioTypes'
  OBVIOUS
<1> USE DEF RadioTypes
<1>1. ASSUME NEW c \in Cameras, Connect(c) \/ Disconnect(c) PROVE RadioTypes'
  BY <1>1 DEF Connect, Disconnect, bridge, wifi, radio, bits
<1>2. ASSUME NEW x \in Cameras, Ready(x) \/ Gate(x) \/ Marks(x) \/ Cleans(x) PROVE RadioTypes'
  BY <1>2 DEF Ready, Gate, Releases, Drains, Marks, Cleans, bridge, wifi, radio, bits
<1>3. ASSUME NEW x \in Cameras, Reads(x) PROVE RadioTypes'
  BY <1>3 DEF Reads, Begins, ReadTimesOut, AsksBand, Asks, Receives, bridge, wifi, radio, bits
<1>4. ASSUME NEW x \in Cameras, JoinBegins(x) \/ JoinStarts(x) PROVE RadioTypes'
  BY <1>4 DEF JoinBegins, JoinStarts, StopsRadio, bridge, wifi, radio, bits
<1>5. ASSUME NEW x \in Cameras, JoinSucceeds(x) \/ JoinFails(x) \/ Registers(x)
      PROVE  RadioTypes'
  BY <1>5 DEF JoinSucceeds, JoinFails, Registers, bridge, wifi, radio, bits
<1>6. ASSUME NEW x \in Cameras, \/ RestoreBegins(x) \/ RestoreStarts(x)
                                  \/ RestoreRefused(x) \/ RestoreEnds(x)
      PROVE  RadioTypes'
  BY <1>6 DEF RestoreBegins, RestoreStarts, RestoreRefused, RestoreEnds, StopsRadio,
         bridge, radio, bits
<1>7. CASE CallbackDelivers \/ \E r \in reads : CallbackChecks(r)
  BY <1>7 DEF CallbackDelivers, CallbackChecks, wifi, radio, bits
<1>8. CASE Associates \/ Loses
  BY <1>8 DEF Associates, Loses, bridge, bits
<1>9. CASE Handles
  BY <1>9 DEF Handles, bridge
<1>10. CASE UNCHANGED vars
  BY <1>10 DEF vars, bridge, wifi, radio, bits
<1> QED
  BY <1>1, <1>2, <1>3, <1>4, <1>5, <1>6, <1>7, <1>8, <1>9, <1>10 DEF Next, TaskStep, Joining

\* pair_complete.c, wifi_manager.c: the table, the deferred slots, the tasks, the read
\* bridge and the radio's books hold only what their types allow, a task's slot index
\* among them, however removals shift the slots under the tasks.
THEOREM BooksTyped == Spec => []TypeOK
<1>1. Init => RadioTypes
  BY DEF Init, RadioTypes
<1>2. IInv /\ RadioTypes => TypeOK
  BY DEF IInv, GateTypes, RadioTypes, TypeOK
<1> QED
  BY <1>1, <1>2, InitIInv, NextKeeps, RadioKeeps, PTL DEF Spec
=============================================================================

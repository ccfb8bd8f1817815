------------------------- MODULE CameraManagerProofs -------------------------
(***************************************************************************)
(* Theorems about camera_manager_wireless: its slot table (SlotTable, with *)
(* the abstract Roster it implements) and its pair attempt (PairAttempt).  *)
(*                                                                         *)
(* Of the table: TableInv, an inductive invariant that says where the two  *)
(* tasks are within it and what is still to be written, implies that a     *)
(* restart would load the slots as they are and that a removal spares the  *)
(* other cameras; the order of the slots then refines Roster.              *)
(*                                                                         *)
(* Of the pair attempt: what is left to do is reasoned about as a set      *)
(* (Todo), whatever its order, and each of three invariants, relative to   *)
(* AttemptInv, is kept by every step of every task.                        *)
(***************************************************************************)
EXTENDS SlotTable, PairAttempt, SequenceTheorems, WellFoundedInduction, TLAPS

(***************************************************************************)
(* SlotTable                                                               *)
(***************************************************************************)

AllCams == Cams \cup {NoCam}

\* Where the web task may be: the slot it removes is one of the table, the hole of
\* the compaction is between that slot and the last, and the order it
\* installs permutes slots of the table.
WebInTable ==
  /\ web.op \in {"teardown", "snapshot", "disarm", "erase"} => web.slot < count
  /\ web.op = "shift" => web.slot <= web.next /\ web.next < count
  /\ web.op \in {"settle", "permute", "rewrite"} =>
       \E n \in 0..count : web.order \in Orders(n)

\* Every slot in use has a camera.
Named == \A i \in Used : slots[i].cam \in Cams

RosterInv == TypeOK /\ Named /\ WebInTable

\* The slot that a removal takes out, and then the hole its compaction moves up.
Hole ==
  IF web.op \in {"teardown", "snapshot", "disarm", "erase"} THEN web.slot
  ELSE IF web.op = "shift" THEN web.next ELSE NoSlot

Removing == web.op \in {"teardown", "snapshot", "disarm", "erase", "shift",
                        "unregister", "dropped", "rearm"}

\* Slot i has a model, and a record of its camera is at its index in the NVS.
Holds(i, c) == slots[i].cam = c /\ slots[i].model # NoCam /\ nvs[i].cam = c

KeptInv ==
  /\ ~Removing => kept = {}
  /\ \A c \in kept : \E i \in Used \ {Hole} : Holds(i, c)

\* The indices whose record is still to be written.
Unsaved(i) ==
  \/ host.op = "save" /\ host.slot = i
  \/ web.op = "shift" /\ web.next = i
  \/ web.op = "rewrite" /\ i \in DOMAIN web.order /\ web.next <= i

StoredInv ==
  /\ \A i \in Used : slots[i].model # NoCam /\ ~Unsaved(i) =>
       nvs[i] = RecordOf(slots[i])
  /\ \A i \in Index \ Used : nvs[i] = NoRecord

\* A model is only reported by a camera.
ModelInv == host.op = "model" => host.cam # NoCam

TableInv == RosterInv /\ KeptInv /\ StoredInv /\ ModelInv

\* The numbers are well ordered: what is searched upwards is found.
LEMMA SmallestElement ==
  ASSUME NEW S \in SUBSET Nat, S # {}
  PROVE  \E m \in S : \A k \in S : m <= k
<1>1. PICK m \in S : \A k \in S : ~(<<k, m>> \in OpToRel(<, Nat))
  BY NatLessThanWellFounded, WFMin
<1>2. \A k \in S : ~(k < m)
  BY <1>1 DEF OpToRel
<1> QED
  BY <1>2

LEMMA EmptyOrder == <<>> \in Orders(0)
BY DEF Orders, Bijection, Injection, Surjection, IsInjective

LEMMA InitRoster == Init => RosterInv
<1> SUFFICES ASSUME Init PROVE RosterInv
  OBVIOUS
<1>1. 0 \in 0..MaxSlots /\ Index \subseteq Nat /\ 0 \in Index
  BY SlotTableAssumption DEF Index
<1>2. WebIdle \in WebPlace
  BY <1>1, EmptyOrder DEF WebIdle, WebPlace, WebSteps
<1>3. HostIdle \in HostPlace
  BY <1>1 DEF HostIdle, HostPlace, HostSteps
<1>4. TypeOK
  BY <1>1, <1>2, <1>3, SlotTableAssumption
     DEF Init, TypeOK, Slot, EmptySlot, NewSlot, Record, NoRecord, Context, NoSlot
<1> QED
  BY <1>4 DEF Init, RosterInv, WebInTable, WebIdle, Named, Used

-----------------------------------------------------------------------------
(***************************************************************************)
(* Types.                                                                  *)
(***************************************************************************)

\* The same camera and the same model in every slot.
SameNames == \A i \in Index : /\ slots'[i].cam = slots[i].cam
                             /\ slots'[i].model = slots[i].model

\* cam_core_slot_set_ready is about readiness only.
LEMMA SetReadyKeeps ==
  ASSUME TypeOK, NEW i, NEW b \in BOOLEAN, slots' = SetReady(slots, i, b)
  PROVE  slots' \in [Index -> Slot] /\ SameNames
BY DEF TypeOK, SetReady, Slot, SameNames

LEMMA WifiKeeps ==
  ASSUME TypeOK, NEW i \in Index, NEW b \in BOOLEAN, slots' = [slots EXCEPT ![i].wifi = b]
  PROVE  slots' \in [Index -> Slot] /\ SameNames
BY DEF TypeOK, Slot, SameNames

\* The driver's teardown, and the telling of a new index, leave contexts.
LEMMA ContextsKeep ==
  ASSUME TypeOK, NEW s \in [Index -> Slot], NEW i \in Index
  PROVE  TornCtx(ctxs, s, i) \in [Index -> Context] /\ Told(ctxs, s, i) \in [Index -> Context]
<1>1. s[i].ctx \in Index \cup {NoSlot}
  BY DEF Slot
<1>2. CASE i \notin registered \/ s[i].ctx = NoSlot
  BY <1>2 DEF TornCtx, Told, TypeOK
<1>3. CASE i \in registered /\ s[i].ctx \in Index
  BY <1>3 DEF TornCtx, Told, TypeOK, Context
<1> QED
  BY <1>1, <1>2, <1>3

\* Going to another step of the same call.
LEMMA GoesKeeps ==
  ASSUME TypeOK, NEW op \in WebSteps, NEW i \in 0..MaxSlots, WebGoes(op, i)
  PROVE  /\ web' \in WebPlace
         /\ web'.op = op /\ web'.next = i /\ web'.slot = web.slot
         /\ web'.order = web.order /\ web'.was = web.was
BY DEF TypeOK, WebGoes, WebPlace

LEMMA Bounds ==
  ASSUME TypeOK
  PROVE  /\ MaxSlots \in Nat /\ count \in Nat /\ count <= MaxSlots
         /\ Index \subseteq 0..MaxSlots /\ 0 \in Index
         /\ \A j \in Index : j \in Nat /\ j < MaxSlots /\ j + 1 \in 0..MaxSlots
         /\ Used \subseteq Index
BY SlotTableAssumption DEF TypeOK, Index, Used

\* What a removal keeps is cameras.
LEMMA RemoveSlotTypes ==
  ASSUME TypeOK, Named, NEW i \in Index, RemoveSlot(i)
  PROVE  TypeOK' /\ Named'
<1>1. web' = [op |-> "teardown", slot |-> i, next |-> 0, was |-> {}, order |-> <<>>]
  BY DEF RemoveSlot, WebIdle
<1>2. web' \in WebPlace
  BY <1>1, EmptyOrder, Bounds DEF WebPlace, WebSteps
<1>3. kept' \subseteq Cams
  BY DEF RemoveSlot, Named
<1>4. requests' \in 0..MaxRequests
  BY SlotTableAssumption DEF TypeOK, RemoveSlot
<1> QED
  BY <1>2, <1>3, <1>4 DEF RemoveSlot, TypeOK, Named, Used, tableVars, driverVars

LEMMA RemovalTypes ==
  ASSUME TypeOK, Named,
         \/ Teardown \/ Snapshot \/ Disarm \/ Erase \/ Shift \/ Clear
         \/ UnregisterTop \/ DropTop \/ Rearm
  PROVE  TypeOK' /\ Named'
<1> USE Bounds DEF bounds
<1>0. web.slot \in Index /\ web.next \in 0..MaxSlots /\ web.was \subseteq Index
  BY DEF TypeOK, WebPlace
<1>a. ASSUME \E j \in web.was : j >= web.next
      PROVE  (CHOOSE k \in web.was : k >= web.next
                /\ \A l \in web.was : l >= web.next => k <= l) \in Index
  <2>1. PICK k \in {j \in web.was : j >= web.next} :
               \A l \in {j \in web.was : j >= web.next} : k <= l
    BY <1>0, <1>a, SmallestElement
  <2> QED
    BY <1>0, <2>1
<1>1. CASE Teardown
  <2>1. slots' \in [Index -> Slot] /\ SameNames
    BY <1>1, SetReadyKeeps DEF Teardown, Torn
  <2>2. ctxs' \in [Index -> Context]
    BY <1>0, <1>1, ContextsKeep DEF Teardown, TypeOK
  <2>3. web' \in WebPlace
    BY <1>1, GoesKeeps DEF Teardown, WebSteps
  <2> QED
    BY <1>1, <2>1, <2>2, <2>3 DEF Teardown, TypeOK, Named, Used, SameNames
<1>2. CASE Snapshot
  <2>1. web' \in WebPlace
    BY <1>0, <1>2 DEF Snapshot, TypeOK, WebPlace, WebSteps
  <2> QED
    BY <1>2, <2>1 DEF Snapshot, TypeOK, Named, Used, tableVars, driverVars
<1>3. CASE Disarm
  <2>1. slots' \in [Index -> Slot] /\ SameNames
    BY <1>3, SetReadyKeeps DEF Disarm, TypeOK, SameNames
  <2>2. web' \in WebPlace
    BY <1>0, <1>3, <1>a, GoesKeeps DEF Disarm, WebSteps
  <2> QED
    BY <1>3, <2>1, <2>2 DEF Disarm, TypeOK, Named, Used, SameNames, driverVars
<1>4. CASE Erase
  <2>1. web' \in WebPlace
    BY <1>0, <1>4, GoesKeeps DEF Erase, WebSteps
  <2>2. nvs' \in [Index -> Record]
    BY <1>4 DEF Erase, TypeOK, Record, NoRecord
  <2> QED
    BY <1>4, <2>1, <2>2 DEF Erase, TypeOK, Named, Used, tableVars, driverVars
<1>5. CASE Shift
  <2>1. web.next \in Used /\ web.next + 1 \in Used /\ web.next + 1 \in Index
    BY <1>0, <1>5 DEF Shift, Used, Index, TypeOK
  <2>2. /\ slots' = [slots EXCEPT ![web.next] = slots[web.next + 1]]
        /\ slots' \in [Index -> Slot]
    BY <1>5, <2>1 DEF Shift, TypeOK
  <2>3. ctxs' \in [Index -> Context]
    BY <1>5, <2>1, <2>2, ContextsKeep DEF Shift
  <2>4. nvs' \in [Index -> Record]
    BY <1>5, <2>1 DEF Shift, TypeOK, Record, RecordOf, Slot
  <2>5. web' \in WebPlace
    BY <1>5, <2>1, GoesKeeps DEF Shift, WebSteps
  <2>6. Named'
    BY <1>5, <2>1, <2>2 DEF Shift, Named, Used, TypeOK
  <2> QED
    BY <1>5, <2>2, <2>3, <2>4, <2>5, <2>6 DEF Shift, TypeOK
<1>6. CASE Clear
  <2>1. count - 1 \in Index /\ count' \in 0..MaxSlots
    BY <1>0, <1>6 DEF Clear, Index
  <2>2. slots' \in [Index -> Slot]
    BY <1>6, <2>1 DEF Clear, TypeOK, EmptySlot, NewSlot, Slot
  <2>3. nvs' \in [Index -> Record]
    BY <1>6, <2>1 DEF Clear, TypeOK, Record, NoRecord
  <2>4. web' \in WebPlace
    BY <1>6, GoesKeeps DEF Clear, WebSteps
  <2>5. Named'
    BY <1>6 DEF Clear, Named, Used, TypeOK, Index
  <2> QED
    BY <1>6, <2>1, <2>2, <2>3, <2>4, <2>5 DEF Clear, TypeOK, driverVars
<1>7. CASE UnregisterTop
  <2>1. slots' \in [Index -> Slot] /\ SameNames
    BY <1>7, SetReadyKeeps DEF UnregisterTop, Torn
  <2>2. ctxs' \in [Index -> Context]
    BY <1>7, ContextsKeep DEF UnregisterTop, TypeOK
  <2>3. web' \in WebPlace
    BY <1>7, GoesKeeps DEF UnregisterTop, WebSteps, TypeOK
  <2> QED
    BY <1>7, <2>1, <2>2, <2>3 DEF UnregisterTop, TypeOK, Named, Used, SameNames
<1>8. CASE DropTop
  <2>1. web' \in WebPlace
    BY <1>8, GoesKeeps DEF DropTop, WebSteps
  <2> QED
    BY <1>8, <2>1 DEF DropTop, TypeOK, Named, Used, driverVars
<1>9. CASE Rearm
  <2>1. slots' \in [Index -> Slot] /\ SameNames
    BY <1>9, SetReadyKeeps DEF Rearm, TypeOK, SameNames
  <2>2. web' \in WebPlace
    <3>1. WebIdle \in WebPlace
      BY EmptyOrder DEF WebIdle, WebPlace, WebSteps
    <3> QED
      BY <1>0, <1>9, <1>a, <3>1, GoesKeeps DEF Rearm, WebSteps
  <2> QED
    BY <1>9, <2>1, <2>2 DEF Rearm, TypeOK, Named, Used, SameNames, driverVars
<1> QED
  BY <1>1, <1>2, <1>3, <1>4, <1>5, <1>6, <1>7, <1>8, <1>9

LEMMA ReorderTypes ==
  ASSUME TypeOK, Named, WebInTable,
         (\E p \in Orders(count) : Reorder(p)) \/ Settle \/ Permute \/ Rewrite
  PROVE  TypeOK' /\ Named'
<1> USE Bounds DEF bounds
<1>0. web.slot \in Index /\ web.next \in 0..MaxSlots /\ web.op \in WebSteps
  BY DEF TypeOK, WebPlace
<1>1. ASSUME NEW p \in Orders(count), Reorder(p) PROVE TypeOK' /\ Named'
  <2>1. web' = [op |-> "settle", slot |-> 0, next |-> 0, was |-> {}, order |-> p]
    BY <1>1 DEF Reorder, WebIdle
  <2>2. web' \in WebPlace
    BY <1>1, <2>1 DEF WebPlace, WebSteps
  <2>3. requests' \in 0..MaxRequests
    <3>1. requests < MaxRequests /\ requests' = requests + 1
      BY <1>1 DEF Reorder
    <3> QED
      BY <3>1, SlotTableAssumption DEF TypeOK
  <2> QED
    BY <1>1, <2>2, <2>3 DEF Reorder, TypeOK, Named, Used, tableVars, driverVars
<1>2. ASSUME web.op \in {"settle", "permute", "rewrite"}
      PROVE  \E n \in 0..count : web.order \in [0..(n - 1) -> 0..(n - 1)]
                                /\ DOMAIN web.order = 0..(n - 1)
  BY <1>2 DEF WebInTable, Orders, Bijection, Injection
<1>3. CASE Settle
  <2>1. ASSUME web.next \in DOMAIN web.order
        PROVE  web.order[web.next] \in Index /\ web.next + 1 \in 0..MaxSlots
    <3>1. PICK n \in 0..count : /\ web.order \in [0..(n - 1) -> 0..(n - 1)]
                               /\ DOMAIN web.order = 0..(n - 1)
      BY <1>2, <1>3 DEF Settle
    <3>2. web.order[web.next] \in 0..(n - 1) /\ web.next \in 0..(n - 1)
      BY <2>1, <3>1
    <3> QED
      BY <3>2 DEF Index
  <2>2. slots' \in [Index -> Slot] /\ SameNames
    BY <1>3, SetReadyKeeps DEF Settle, Torn, TypeOK, SameNames
  <2>3. ctxs' \in [Index -> Context]
    BY <1>3, <2>1, ContextsKeep DEF Settle, TypeOK
  <2>4. web' \in WebPlace
    BY <1>3, <2>1, GoesKeeps DEF Settle, WebSteps
  <2> QED
    BY <1>3, <2>2, <2>3, <2>4 DEF Settle, TypeOK, Named, Used, SameNames
<1>4. CASE Permute
  <2>1. PICK n \in 0..count : web.order \in [0..(n - 1) -> 0..(n - 1)]
    BY <1>2, <1>4 DEF Permute
  <2>2. /\ slots' = [i \in Index |-> IF i \in 0..(n - 1) THEN slots[web.order[i]] ELSE slots[i]]
        /\ \A i \in 0..(n - 1) : web.order[i] \in Used
    BY <1>4, <2>1 DEF Permute, Used
  <2>3. slots' \in [Index -> Slot]
    BY <2>2 DEF TypeOK
  <2>4. ctxs' \in [Index -> Context]
    <3> DEFINE Here(k) == {i \in DOMAIN web.order \cap registered : slots'[i].ctx = k}
    <3>1. ASSUME NEW k \in Index, Here(k) # {}
          PROVE  (CHOOSE i \in DOMAIN web.order \cap registered :
                    /\ slots'[i].ctx = k
                    /\ \A j \in DOMAIN web.order \cap registered :
                         slots'[j].ctx = k => j <= i) \in Index
      <4> DEFINE Left == {MaxSlots - i : i \in Here(k)}
      <4>a. \A i \in Here(k) : i \in Index /\ MaxSlots - i \in Nat
        BY DEF TypeOK, Index
      <4>1. Left \in SUBSET Nat /\ Left # {}
        BY <3>1, <4>a
      <4>2. PICK m \in Left : \A l \in Left : m <= l
        BY <4>1, SmallestElement
      <4>3. PICK i \in Here(k) : m = MaxSlots - i
        BY <4>2
      <4>4. ASSUME NEW j \in Here(k) PROVE j <= i
        <5>1. MaxSlots - i <= MaxSlots - j
          BY <4>2, <4>3
        <5> QED
          BY <4>a, <5>1, i \in Here(k)
      <4> QED
        BY <4>3, <4>4 DEF TypeOK
    <3>2. ASSUME NEW k \in Index PROVE ctxs'[k] \in Context
      <4>1. CASE Here(k) # {}
        <5>1. \E i \in Index : ctxs'[k] = [ctxs[k] EXCEPT !.slot = i]
          BY <1>4, <3>1, <4>1 DEF Permute
        <5> QED
          BY <5>1 DEF TypeOK, Context
      <4>2. CASE Here(k) = {}
        <5>1. ctxs'[k] = [ctxs[k] EXCEPT !.slot = ctxs[k].slot]
          BY <1>4, <4>2 DEF Permute
        <5> QED
          BY <5>1 DEF TypeOK, Context
      <4> QED
        BY <4>1, <4>2
    <3>3. ctxs' = [k \in Index |-> ctxs'[k]]
      BY <1>4 DEF Permute
    <3> QED
      BY <3>2, <3>3
  <2>5. web' \in WebPlace
    BY <1>4, GoesKeeps DEF Permute, WebSteps
  <2>6. Named'
    BY <1>4, <2>2 DEF Permute, Named, Used
  <2> QED
    BY <1>4, <2>3, <2>4, <2>5, <2>6 DEF Permute, TypeOK
<1>5. CASE Rewrite
  <2>1. ASSUME web.next \in DOMAIN web.order
        PROVE  web.next \in Index /\ web.next + 1 \in 0..MaxSlots
    BY <1>2, <1>5, <2>1 DEF Rewrite, Index
  <2>2. nvs' \in [Index -> Record]
    BY <1>5, <2>1 DEF Rewrite, TypeOK, Record, RecordOf, Slot
  <2>3. WebIdle \in WebPlace
    BY EmptyOrder DEF WebIdle, WebPlace, WebSteps
  <2>4. web' \in WebPlace
    BY <1>5, <2>1, <2>3, GoesKeeps DEF Rewrite, WebSteps
  <2> QED
    BY <1>5, <2>2, <2>4 DEF Rewrite, TypeOK, Named, Used, tableVars, driverVars
<1> QED
  BY <1>1, <1>3, <1>4, <1>5

LEMMA Found ==
  ASSUME TypeOK, NEW c, \E i \in Used : slots[i].cam = c
  PROVE  SlotOf(c) \in Used /\ slots[SlotOf(c)].cam = c
<1>1. {i \in Used : slots[i].cam = c} \in SUBSET Nat
  BY DEF Used
<1>2. \E i \in Used : slots[i].cam = c /\ \A j \in Used : slots[j].cam = c => i <= j
  BY <1>1, SmallestElement
<1> QED
  BY <1>2 DEF SlotOf

\* The loss of a connection clears one context and at most one slot's link.
LEMMA DisconnectKeeps ==
  ASSUME TypeOK, NEW c \in Cams, Disconnect(c)
  PROVE  /\ ctxs' \in [Index -> Context]
         /\ slots' \in [Index -> Slot] /\ SameNames
         /\ host' = host \/ \E i \in Used : host' = [op |-> "unready", slot |-> i, cam |-> NoCam]
<1> USE Bounds
<1> DEFINE holders == {i \in Used : slots[i].handle = c}
           k == CHOOSE n \in Index : ctxs[n].conn = c
                  /\ \A m \in Index : ctxs[m].conn = c => n <= m
           i == CHOOSE n \in holders : \A m \in holders : n <= m
           ours == i \in registered /\ slots[i].ctx # NoSlot
<1>1. ASSUME holders # {} PROVE i \in Used
  <2>1. holders \in SUBSET Nat
    BY DEF Used
  <2> QED
    BY <1>1, <2>1, SmallestElement
<1>2. ASSUME \E n \in Index : ctxs[n].conn = c PROVE k \in Index
  <2>1. {n \in Index : ctxs[n].conn = c} \in SUBSET Nat
    OBVIOUS
  <2>2. \E n \in Index : ctxs[n].conn = c /\ \A m \in Index : ctxs[m].conn = c => n <= m
    BY <1>2, <2>1, SmallestElement
  <2> QED
    BY <2>2
<1>3. CASE ~\E n \in Index : ctxs[n].conn = c
  BY <1>3 DEF Disconnect, TypeOK, SameNames
<1>4. CASE \E n \in Index : ctxs[n].conn = c
  <2>1. /\ ctxs' = [ctxs EXCEPT ![k].conn = NoCam, ![k].stage = "none"]
        /\ holders = {} => UNCHANGED <<slots, host>>
        /\ holders # {} =>
             /\ slots' = [slots EXCEPT ![i].handle = NoCam, ![i].ble = "none",
                                       ![i].wifi = IF ours THEN FALSE ELSE @]
             /\ host' = IF ours /\ slots[i].wifi
                        THEN [op |-> "unready", slot |-> i, cam |-> NoCam] ELSE host
    BY <1>4 DEF Disconnect
  <2> HIDE DEF k, i, ours
  <2>2. ctxs' \in [Index -> Context]
    BY <1>2, <1>4, <2>1 DEF TypeOK, Context
  <2>3. CASE holders = {}
    BY <2>1, <2>2, <2>3 DEF TypeOK, SameNames
  <2>4. CASE holders # {}
    <3>1. i \in Index
      BY <1>1, <2>4
    <3>2. slots' \in [Index -> Slot] /\ SameNames
      <4>1. slots' = [slots EXCEPT ![i] =
              [slots[i] EXCEPT !.handle = NoCam, !.ble = "none",
                               !.wifi = IF ours THEN FALSE ELSE @]]
        BY <2>1, <2>4, <3>1 DEF TypeOK
      <4>2. slots[i] \in Slot /\ (IF ours THEN FALSE ELSE slots[i].wifi) \in BOOLEAN
        BY <3>1 DEF TypeOK, Slot
      <4>3. [slots[i] EXCEPT !.handle = NoCam, !.ble = "none",
                             !.wifi = IF ours THEN FALSE ELSE @] \in Slot
        BY <4>2 DEF Slot
      <4> QED
        BY <3>1, <4>1, <4>2, <4>3 DEF TypeOK, Slot, SameNames
    <3> QED
      BY <1>1, <2>1, <2>2, <2>4, <3>2
  <2> QED
    BY <2>3, <2>4
<1> QED
  BY <1>3, <1>4

LEMMA LinkTypes ==
  ASSUME TypeOK, Named, NEW c \in Cams, Connect(c) \/ Disconnect(c)
  PROVE  TypeOK' /\ Named'
<1> USE Bounds DEF bounds
<1>1. CASE Connect(c)
  <2>1. connects' \in 0..MaxConnects
    BY <1>1, SlotTableAssumption DEF Connect, TypeOK
  <2>2. CASE SlotOf(c) # NoSlot
    <3>1. SlotOf(c) \in Index
      BY <2>2, Found DEF SlotOf
    <3>2. host' \in HostPlace
      BY <1>1, <2>2, <3>1 DEF Connect, HostPlace, HostSteps
    <3> QED
      BY <1>1, <2>1, <2>2, <3>2 DEF Connect, TypeOK, Named, Used, tableVars
  <2>3. CASE SlotOf(c) = NoSlot
    <3>1. /\ count < MaxSlots /\ count' = count + 1
          /\ slots' = [slots EXCEPT ![count] = NewSlot(c)]
          /\ registered' = registered \cup {count}
          /\ host' = [op |-> "attach", slot |-> count, cam |-> c]
      BY <1>1, <2>3 DEF Connect
    <3>2. count \in Index /\ NewSlot(c) \in Slot
      BY <3>1 DEF Index, NewSlot, Slot
    <3>3. host' \in HostPlace
      BY <3>1, <3>2 DEF HostPlace, HostSteps
    <3>4. slots' \in [Index -> Slot]
      BY <3>1, <3>2 DEF TypeOK
    <3>5. Named'
      BY <3>1, <3>2 DEF Named, Used, TypeOK, NewSlot
    <3> QED
      BY <1>1, <2>1, <3>1, <3>2, <3>3, <3>4, <3>5 DEF Connect, TypeOK
  <2> QED
    BY <2>2, <2>3
<1>2. CASE Disconnect(c)
  <2>1. host' \in HostPlace
    BY <1>2, DisconnectKeeps DEF TypeOK, HostPlace, HostSteps
  <2>2. /\ UNCHANGED <<count, registered, nvs, web, kept, bounds>>
        /\ linked' \subseteq Cams
    BY <1>2 DEF Disconnect, TypeOK
  <2> QED
    BY <1>2, <2>1, <2>2, DisconnectKeeps DEF TypeOK, Named, Used, SameNames
<1> QED
  BY <1>1, <1>2

LEMMA HostTypes ==
  ASSUME TypeOK, Named,
         \/ Attach \/ SetModel \/ SaveSlot \/ CoreReady \/ CoreUnready
         \/ \E k \in Index : Identify(k) \/ CameraReady(k)
  PROVE  TypeOK' /\ Named'
<1> USE Bounds DEF bounds
<1>0. /\ host.slot \in Index /\ host.cam \in AllCams
      /\ HostIdle \in HostPlace
  BY DEF TypeOK, HostPlace, HostIdle, HostSteps, AllCams
<1>1. CASE Attach
  <2>1. ctxs' \in [Index -> Context]
    BY <1>0, <1>1 DEF Attach, TypeOK, Context, AllCams
  <2>2. slots' \in [Index -> Slot] /\ SameNames
    BY <1>0, <1>1 DEF Attach, TypeOK, Slot, SameNames, AllCams
  <2> QED
    BY <1>0, <1>1, <2>1, <2>2 DEF Attach, TypeOK, Named, Used, SameNames
<1>2. CASE SetModel
  <2>1. ctxs' \in [Index -> Context]
    BY <1>0, <1>2 DEF SetModel, TypeOK, Context
  <2>2. slots' \in [Index -> Slot] /\ \A i \in Index : slots'[i].cam = slots[i].cam
    BY <1>0, <1>2 DEF SetModel, TypeOK, Slot, AllCams
  <2>3. host' \in HostPlace
    BY <1>2 DEF SetModel, TypeOK, HostPlace, HostSteps
  <2> QED
    BY <1>2, <2>1, <2>2, <2>3 DEF SetModel, TypeOK, Named, Used
<1>3. CASE SaveSlot
  <2>1. nvs' \in [Index -> Record]
    BY <1>0, <1>3 DEF SaveSlot, TypeOK, Record, RecordOf, Slot
  <2>2. slots' \in [Index -> Slot] /\ SameNames
    BY <1>0, <1>3 DEF SaveSlot, TypeOK, Slot, SameNames
  <2> QED
    BY <1>0, <1>3, <2>1, <2>2 DEF SaveSlot, TypeOK, Named, Used, SameNames, driverVars
<1>4. CASE CoreReady \/ CoreUnready
  <2>1. slots' \in [Index -> Slot] /\ SameNames
    BY <1>4, SetReadyKeeps DEF CoreReady, CoreUnready
  <2> QED
    BY <1>0, <1>4, <2>1 DEF CoreReady, CoreUnready, TypeOK, Named, Used, SameNames, driverVars
<1>5. ASSUME NEW k \in Index, Identify(k) PROVE TypeOK' /\ Named'
  <2>1. ctxs' \in [Index -> Context]
    BY <1>5 DEF Identify, TypeOK, Context
  <2>2. host' \in HostPlace
    BY <1>5 DEF Identify, TypeOK, Context, HostPlace, HostSteps
  <2> QED
    BY <1>5, <2>1, <2>2 DEF Identify, TypeOK, Named, Used, tableVars
<1>6. ASSUME NEW k \in Index, CameraReady(k) PROVE TypeOK' /\ Named'
  <2>1. ctxs' \in [Index -> Context]
    BY <1>6 DEF CameraReady, TypeOK, Context
  <2>2. slots' \in [Index -> Slot] /\ SameNames
    <3>1. ctxs[k].slot \in Index
      BY DEF TypeOK, Context
    <3>2. CASE slots' = [slots EXCEPT ![ctxs[k].slot].wifi = TRUE]
      BY <3>1, <3>2, WifiKeeps
    <3>3. CASE slots' = slots
      BY <3>3 DEF TypeOK, SameNames
    <3> QED
      BY <1>6, <3>2, <3>3 DEF CameraReady
  <2>3. host' \in HostPlace
    BY <1>6 DEF CameraReady, TypeOK, Context, HostPlace, HostSteps
  <2> QED
    BY <1>6, <2>1, <2>2, <2>3 DEF CameraReady, TypeOK, Named, Used, SameNames
<1> QED
  BY <1>1, <1>2, <1>3, <1>4, <1>5, <1>6

-----------------------------------------------------------------------------
(***************************************************************************)
(* The table in RAM and the one in the NVS.                                *)
(***************************************************************************)

\* A step that names no camera anew, writes no record and makes no hole.
LEMMA QuietKeeps ==
  ASSUME TableInv, SameNames, count' = count, nvs' = nvs, kept' = kept,
         Hole' = Hole, Removing' = Removing,
         \A i \in Used : Unsaved(i) => Unsaved(i)'
  PROVE  KeptInv' /\ StoredInv'
<1> USE Bounds DEF TableInv, RosterInv
<1>1. KeptInv'
  <2>1. \A i \in Used, c \in Cams : Holds(i, c) => Holds(i, c)'
    BY DEF Holds, SameNames
  <2>2. kept \subseteq Cams /\ Used' = Used
    BY DEF TypeOK, Used
  <2> QED
    BY <2>1, <2>2 DEF KeptInv
<1>2. StoredInv'
  <2>1. \A i \in Index : RecordOf(slots'[i]) = RecordOf(slots[i])
    BY DEF RecordOf, SameNames
  <2> QED
    BY <2>1 DEF StoredInv, Used, SameNames
<1> QED
  BY <1>1, <1>2

LEMMA RemoveSlotKeeps ==
  ASSUME TableInv, NEW i \in Index, RemoveSlot(i)
  PROVE  TableInv'
<1> USE Bounds DEF TableInv, RosterInv
<1>1. /\ web' = [op |-> "teardown", slot |-> i, next |-> 0, was |-> {}, order |-> <<>>]
      /\ web.op = "idle" /\ i \in Used
      /\ UNCHANGED <<slots, count, nvs, host>>
      /\ kept' = {slots[j].cam : j \in {k \in Used \ {i} :
                    slots[k].model # NoCam /\ nvs[k] = RecordOf(slots[k])}}
  BY DEF RemoveSlot, WebIdle, tableVars
<1>2. TypeOK' /\ Named'
  BY RemoveSlotTypes
<1>3. WebInTable' /\ ModelInv'
  BY <1>1 DEF WebInTable, ModelInv, Used
<1>4. KeptInv'
  <2>1. Hole' = i /\ Removing' /\ Used' = Used
    BY <1>1 DEF Hole, Removing, Used
  <2>2. ASSUME NEW c \in kept' PROVE \E j \in Used \ {i} : Holds(j, c)'
    <3>1. PICK j \in Used \ {i} : /\ slots[j].cam = c /\ slots[j].model # NoCam
                                /\ nvs[j] = RecordOf(slots[j])
      BY <1>1, <2>2
    <3> QED
      BY <1>1, <3>1 DEF Holds, RecordOf
  <2> QED
    BY <2>1, <2>2 DEF KeptInv
<1>5. StoredInv'
  BY <1>1 DEF StoredInv, Unsaved, Used
<1> QED
  BY <1>2, <1>3, <1>4, <1>5

\* The steps of a removal around its compaction.
LEMMA RemovalFrame ==
  ASSUME TableInv, Teardown \/ Snapshot \/ Disarm \/ UnregisterTop \/ DropTop \/ Rearm
  PROVE  TableInv'
<1> USE Bounds DEF TableInv, RosterInv
<1>1. TypeOK' /\ Named'
  BY RemovalTypes
<1>2. count' = count /\ nvs' = nvs /\ host' = host /\ SameNames
  <2>1. CASE Teardown
    BY <2>1, SetReadyKeeps DEF Teardown, Torn
  <2>2. CASE Snapshot
    BY <2>2 DEF Snapshot, SameNames, tableVars
  <2>3. CASE Disarm
    BY <2>3, SetReadyKeeps DEF Disarm, SameNames
  <2>4. CASE UnregisterTop
    BY <2>4, SetReadyKeeps DEF UnregisterTop, Torn
  <2>5. CASE DropTop
    BY <2>5 DEF DropTop, SameNames
  <2>6. CASE Rearm
    BY <2>6, SetReadyKeeps DEF Rearm, SameNames
  <2> QED
    BY <2>1, <2>2, <2>3, <2>4, <2>5, <2>6
<1>3. \/ /\ web.op \in {"teardown", "snapshot", "disarm"} /\ kept' = kept
         /\ web'.op \in {"snapshot", "disarm", "erase"} /\ web'.slot = web.slot
      \/ /\ web.op \in {"unregister", "dropped", "rearm"} /\ kept' = kept
         /\ web'.op \in {"dropped", "rearm"}
      \/ web.op = "rearm" /\ web'.op = "idle" /\ kept' = {}
  <2>1. ASSUME NEW op, NEW i, WebGoes(op, i) PROVE web'.op = op /\ web'.slot = web.slot
    BY <2>1 DEF WebGoes, TypeOK, WebPlace
  <2>2. CASE Teardown \/ Disarm
    BY <2>1, <2>2 DEF Teardown, Disarm
  <2>3. CASE Snapshot
    BY <2>3 DEF Snapshot, TypeOK, WebPlace
  <2>4. CASE UnregisterTop \/ DropTop
    BY <2>1, <2>4 DEF UnregisterTop, DropTop
  <2>5. CASE Rearm
    <3>1. \/ web' = WebIdle /\ kept' = {}
          \/ (\E j : WebGoes("rearm", j)) /\ kept' = kept
      BY <2>5 DEF Rearm
    <3> QED
      BY <2>1, <2>5, <3>1 DEF Rearm, WebIdle
  <2> QED
    BY <2>2, <2>3, <2>4, <2>5
<1>4. WebInTable' /\ ModelInv'
  BY <1>2, <1>3 DEF WebInTable, ModelInv
<1>5. \A i \in Used : Unsaved(i) => Unsaved(i)'
  BY <1>2, <1>3 DEF Unsaved
<1>6. CASE kept' = kept /\ web'.op # "idle"
  <2>1. Hole' = Hole /\ Removing' = Removing
    BY <1>3, <1>6 DEF Hole, Removing
  <2> QED
    BY <1>1, <1>2, <1>4, <1>5, <1>6, <2>1, QuietKeeps
<1>7. CASE web'.op = "idle" /\ kept' = {}
  <2>1. KeptInv'
    BY <1>7 DEF KeptInv
  <2>2. \A i \in Index : RecordOf(slots'[i]) = RecordOf(slots[i])
    BY <1>2 DEF RecordOf, SameNames
  <2>3. StoredInv'
    BY <1>2, <1>5, <2>2 DEF StoredInv, Used, SameNames
  <2> QED
    BY <1>1, <1>4, <2>1, <2>3
<1> QED
  BY <1>3, <1>6, <1>7

LEMMA EraseKeeps ==
  ASSUME TableInv, Erase
  PROVE  TableInv'
<1> USE Bounds DEF TableInv, RosterInv
<1>1. TypeOK' /\ Named'
  BY RemovalTypes
<1>0. web.slot \in Used /\ web.slot \in 0..MaxSlots
  BY DEF Erase, WebInTable, Used, TypeOK, WebPlace, Index
<1>2. /\ web.op = "erase" /\ web.slot \in Used
      /\ web'.op = "shift" /\ web'.slot = web.slot /\ web'.next = web.slot
      /\ UNCHANGED <<slots, count, host, kept>>
      /\ nvs' = [nvs EXCEPT ![web.slot] = NoRecord]
  BY <1>0, GoesKeeps DEF Erase, tableVars, WebSteps
<1>3. WebInTable' /\ ModelInv'
  BY <1>2 DEF WebInTable, ModelInv, Used
<1>4. KeptInv'
  <2>1. Hole' = Hole /\ Hole = web.slot /\ Removing /\ Removing' /\ Used' = Used
    BY <1>2 DEF Hole, Removing, Used
  <2>2. \A i \in Used \ {web.slot}, c \in Cams : Holds(i, c) => Holds(i, c)'
    BY <1>2 DEF Holds, TypeOK
  <2> QED
    BY <1>2, <2>1, <2>2 DEF KeptInv, TypeOK
<1>5. StoredInv'
  BY <1>2 DEF StoredInv, Unsaved, Used, TypeOK
<1> QED
  BY <1>1, <1>3, <1>4, <1>5

LEMMA ShiftKeeps ==
  ASSUME TableInv, Shift
  PROVE  TableInv'
<1> USE Bounds DEF TableInv, RosterInv
<1>1. TypeOK' /\ Named'
  BY RemovalTypes
<1>a. PICK i \in Nat : /\ i = web.next /\ web.slot \in Nat /\ web.slot <= i
                       /\ i \in Used /\ i + 1 \in Used /\ i + 1 \in 0..MaxSlots
  BY DEF Shift, WebInTable, Used, TypeOK, WebPlace, Index
<1>2. /\ web.op = "shift" /\ UNCHANGED <<count, host, kept>>
      /\ slots' = [slots EXCEPT ![i] = slots[i + 1]]
      /\ nvs' = IF slots[i + 1].model = NoCam THEN nvs
                ELSE [nvs EXCEPT ![i] = RecordOf(slots[i + 1])]
      /\ WebGoes("shift", i + 1)
  BY <1>a DEF Shift
<1>b. web'.op = "shift" /\ web'.slot = web.slot /\ web'.next = i + 1
  BY <1>a, <1>2, GoesKeeps DEF WebSteps
<1>3. WebInTable' /\ ModelInv'
  BY <1>a, <1>b, <1>2 DEF WebInTable, ModelInv, Used
<1>4. KeptInv'
  <2>1. Hole' = i + 1 /\ Hole = i /\ Removing /\ Removing' /\ Used' = Used
    BY <1>a, <1>b, <1>2 DEF Hole, Removing, Used
  <2>2. ASSUME NEW c \in kept PROVE \E j \in Used \ {i + 1} : Holds(j, c)'
    <3>1. PICK j \in Used \ {i} : Holds(j, c)
      BY <2>1 DEF KeptInv
    <3>2. CASE j = i + 1
      <4>1. Holds(i, c)'
        BY <1>a, <1>b, <1>2, <3>1, <3>2 DEF Holds, TypeOK, RecordOf
      <4> QED
        BY <1>a, <1>b, <1>2, <4>1 DEF Used
    <3>3. CASE j # i + 1
      BY <1>a, <1>b, <1>2, <3>1, <3>3 DEF Holds, TypeOK
    <3> QED
      BY <3>2, <3>3
  <2> QED
    BY <1>a, <1>b, <1>2, <2>1, <2>2 DEF KeptInv
<1>5. StoredInv'
  <2>1. ASSUME NEW j \in Used, slots'[j].model # NoCam, ~Unsaved(j)'
        PROVE  nvs'[j] = RecordOf(slots'[j])
    <3>1. CASE j = i
      BY <1>a, <1>b, <1>2, <2>1, <3>1 DEF TypeOK
    <3>2. CASE j # i
      <4>1. ~Unsaved(j) /\ slots'[j] = slots[j] /\ nvs'[j] = nvs[j]
        BY <1>a, <1>b, <1>2, <2>1, <3>2 DEF Unsaved, TypeOK
      <4> QED
        BY <2>1, <4>1 DEF StoredInv
    <3> QED
      BY <3>1, <3>2
  <2>2. \A j \in Index \ Used : nvs'[j] = NoRecord
    BY <1>a, <1>b, <1>2 DEF StoredInv, TypeOK
  <2> QED
    BY <1>a, <1>b, <1>2, <2>1, <2>2 DEF StoredInv, Used
<1> QED
  BY <1>1, <1>3, <1>4, <1>5

LEMMA ClearKeeps ==
  ASSUME TableInv, Clear
  PROVE  TableInv'
<1> USE Bounds DEF TableInv, RosterInv
<1>1. TypeOK' /\ Named'
  BY RemovalTypes
<1>0. count - 1 \in Used /\ 0 \in 0..MaxSlots
  BY DEF Clear, WebInTable, Used, TypeOK, WebPlace, Index
<1>a. Used' = Used \ {count - 1}
  BY DEF Clear, Used
<1>2. /\ web.op = "shift" /\ web.next = count - 1 /\ count - 1 \in Used
      /\ web'.op = "unregister" /\ count' = count - 1
      /\ UNCHANGED <<host, kept>>
      /\ slots' = [slots EXCEPT ![count - 1] = EmptySlot]
      /\ nvs' = [nvs EXCEPT ![count - 1] = NoRecord]
      /\ Used' = Used \ {count - 1}
  BY <1>0, <1>a, GoesKeeps DEF Clear, WebSteps
<1>3. WebInTable' /\ ModelInv'
  BY <1>2 DEF WebInTable, ModelInv
<1>4. KeptInv'
  <2>1. Hole' = NoSlot /\ Hole = count - 1 /\ Removing /\ Removing' /\ NoSlot \notin Used
    BY <1>2 DEF Hole, Removing, NoSlot, Used
  <2>2. \A j \in Used \ {count - 1}, c \in Cams : Holds(j, c) => Holds(j, c)'
    BY <1>2 DEF Holds, TypeOK
  <2> QED
    BY <1>2, <2>1, <2>2 DEF KeptInv, TypeOK
<1>5. StoredInv'
  <2>1. \A j \in Used \ {count - 1} :
          (Unsaved(j) => Unsaved(j)') /\ slots'[j] = slots[j] /\ nvs'[j] = nvs[j]
    BY <1>2 DEF Unsaved, TypeOK
  <2>2. \A j \in Index \ Used' : nvs'[j] = NoRecord
    BY <1>2 DEF StoredInv, TypeOK
  <2> QED
    BY <1>2, <2>1, <2>2 DEF StoredInv
<1> QED
  BY <1>1, <1>3, <1>4, <1>5

LEMMA OrderDomain ==
  ASSUME WebInTable, web.op \in {"settle", "permute", "rewrite"}
  PROVE  \E n \in 0..count : DOMAIN web.order = 0..(n - 1) /\ web.order \in Orders(n)
BY DEF WebInTable, Orders, Bijection, Injection

LEMMA ReorderKeeps ==
  ASSUME TableInv,
         (\E p \in Orders(count) : Reorder(p)) \/ Settle \/ Permute \/ Rewrite
  PROVE  TableInv'
<1> USE Bounds DEF TableInv, RosterInv
<1>1. TypeOK' /\ Named'
  BY ReorderTypes
<1>2. /\ count' = count /\ kept' = kept /\ host' = host
      /\ web.next \in Nat /\ Used' = Used
  <2>1. count' = count /\ kept' = kept /\ host' = host
    BY DEF Reorder, Settle, Permute, Rewrite, tableVars
  <2> QED
    BY <2>1 DEF Used, TypeOK, WebPlace
<1>3. CASE \E p \in Orders(count) : Reorder(p)
  <2>1. PICK p \in Orders(count) : Reorder(p)
    BY <1>3
  <2>2. /\ web' = [op |-> "settle", slot |-> 0, next |-> 0, was |-> {}, order |-> p]
        /\ web.op = "idle" /\ UNCHANGED <<slots, nvs>>
    BY <2>1 DEF Reorder, WebIdle, tableVars
  <2>3. WebInTable' /\ ModelInv'
    BY <1>2, <2>2 DEF WebInTable, ModelInv
  <2>4. Hole' = Hole /\ Removing' = Removing /\ \A i \in Used : Unsaved(i) => Unsaved(i)'
    BY <1>2, <2>2 DEF Hole, Removing, Unsaved
  <2> QED
    BY <1>1, <1>2, <2>2, <2>3, <2>4, QuietKeeps DEF SameNames
<1>4. CASE Settle
  <2>1. /\ web.op = "settle" /\ web'.op \in {"settle", "permute"} /\ web'.order = web.order
        /\ nvs' = nvs /\ SameNames
    <3>1. ASSUME NEW op, NEW i, WebGoes(op, i) PROVE web'.op = op /\ web'.order = web.order
      BY <3>1 DEF WebGoes, TypeOK, WebPlace
    <3> QED
      BY <1>4, <3>1, SetReadyKeeps DEF Settle, Torn, SameNames
  <2>2. WebInTable' /\ ModelInv'
    BY <1>2, <2>1 DEF WebInTable, ModelInv
  <2>3. Hole' = Hole /\ Removing' = Removing /\ \A i \in Used : Unsaved(i) => Unsaved(i)'
    BY <1>2, <2>1 DEF Hole, Removing, Unsaved
  <2> QED
    BY <1>1, <1>2, <2>1, <2>2, <2>3, QuietKeeps
<1>5. CASE Permute
  <2>1. PICK n \in 0..count : DOMAIN web.order = 0..(n - 1)
    BY <1>5, OrderDomain DEF Permute
  <2>2. /\ web.op = "permute" /\ nvs' = nvs /\ WebGoes("rewrite", 0)
        /\ \A i \in Index \ (0..(n - 1)) : slots'[i] = slots[i]
    BY <1>5, <2>1 DEF Permute
  <2>3. web'.op = "rewrite" /\ web'.next = 0 /\ web'.order = web.order
    BY <2>2, GoesKeeps DEF WebSteps
  <2>4. WebInTable' /\ ModelInv'
    BY <1>2, <2>2, <2>3 DEF WebInTable, ModelInv
  <2>5. KeptInv'
    BY <1>2, <2>2, <2>3 DEF KeptInv, Removing
  <2>6. StoredInv'
    <3>1. ASSUME NEW i \in Used, slots'[i].model # NoCam, ~Unsaved(i)'
          PROVE  nvs'[i] = RecordOf(slots'[i])
      <4>1. i \notin 0..(n - 1)
        BY <2>1, <2>3, <3>1 DEF Unsaved
      <4>2. ~Unsaved(i) /\ slots'[i] = slots[i]
        BY <1>2, <2>2, <2>3, <3>1, <4>1 DEF Unsaved
      <4> QED
        BY <2>2, <3>1, <4>2 DEF StoredInv
    <3> QED
      BY <1>2, <2>2, <3>1 DEF StoredInv
  <2> QED
    BY <1>1, <2>4, <2>5, <2>6
<1>6. CASE Rewrite
  <2>1. PICK n \in 0..count : DOMAIN web.order = 0..(n - 1)
    BY <1>6, OrderDomain DEF Rewrite
  <2>2. web.op = "rewrite" /\ slots' = slots
    BY <1>6 DEF Rewrite, tableVars
  <2>3. CASE web.next \in 0..(n - 1)
    <3>1. /\ nvs' = [nvs EXCEPT ![web.next] = RecordOf(slots[web.next])]
          /\ WebGoes("rewrite", web.next + 1) /\ web.next \in Used /\ web.next + 1 \in 0..MaxSlots
      BY <1>6, <2>1, <2>3 DEF Rewrite, Used
    <3>2. web'.op = "rewrite" /\ web'.next = web.next + 1 /\ web'.order = web.order
      BY <3>1, GoesKeeps DEF WebSteps
    <3>3. WebInTable' /\ ModelInv'
      BY <1>2, <2>2, <3>2 DEF WebInTable, ModelInv
    <3>4. KeptInv'
      BY <1>2, <2>2, <3>2 DEF KeptInv, Removing
    <3>5. StoredInv'
      <4>1. ASSUME NEW i \in Used, slots'[i].model # NoCam, ~Unsaved(i)'
            PROVE  nvs'[i] = RecordOf(slots'[i])
        <5>1. CASE i = web.next
          BY <2>2, <3>1, <5>1 DEF TypeOK
        <5>2. CASE i # web.next
          <6>1. ~Unsaved(i)
            BY <1>2, <2>2, <3>2, <4>1, <5>2 DEF Unsaved
          <6> QED
            BY <2>2, <3>1, <4>1, <5>2, <6>1 DEF StoredInv, TypeOK
        <5> QED
          BY <5>1, <5>2
      <4>2. \A i \in Index \ Used : nvs'[i] = NoRecord
        BY <3>1 DEF StoredInv, TypeOK
      <4> QED
        BY <1>2, <4>1, <4>2 DEF StoredInv
    <3> QED
      BY <1>1, <3>3, <3>4, <3>5
  <2>4. CASE web.next \notin 0..(n - 1)
    <3>1. nvs' = nvs /\ web'.op = "idle"
      BY <1>6, <2>1, <2>4 DEF Rewrite, WebIdle
    <3>2. \A i \in 0..(n - 1) : ~(web.next <= i)
      BY <1>2, <2>4
    <3>3. WebInTable' /\ ModelInv'
      BY <1>2, <3>1 DEF WebInTable, ModelInv
    <3>4. Hole' = Hole /\ Removing' = Removing
      BY <2>2, <3>1 DEF Hole, Removing
    <3>5. \A i \in Used : Unsaved(i) => Unsaved(i)'
      BY <1>2, <2>1, <2>2, <3>2 DEF Unsaved
    <3> QED
      BY <1>1, <1>2, <2>2, <3>1, <3>3, <3>4, <3>5, QuietKeeps DEF SameNames
  <2> QED
    BY <2>3, <2>4
<1> QED
  BY <1>3, <1>4, <1>5, <1>6

LEMMA ConnectKeeps ==
  ASSUME TableInv, NEW c \in Cams, Connect(c)
  PROVE  TableInv'
<1> USE Bounds DEF TableInv, RosterInv
<1>1. TypeOK' /\ Named'
  BY LinkTypes
<1>2. /\ web.op # "shift" /\ web' = web /\ nvs' = nvs /\ kept' = kept
      /\ host.op = "idle" /\ host'.op = "attach"
      /\ Hole' = Hole /\ Removing' = Removing
  BY DEF Connect, Unlocked, Hole, Removing
<1>3. CASE tableVars' = tableVars
  <2>1. SameNames /\ count' = count /\ WebInTable' /\ ModelInv'
    BY <1>2, <1>3 DEF tableVars, SameNames, WebInTable, ModelInv
  <2>2. \A i \in Used : Unsaved(i) => Unsaved(i)'
    BY <1>2 DEF Unsaved
  <2> QED
    BY <1>1, <1>2, <2>1, <2>2, QuietKeeps
<1>4. CASE /\ count < MaxSlots /\ count' = count + 1
           /\ slots' = [slots EXCEPT ![count] = NewSlot(c)]
  <2>1. Used' = Used \cup {count} /\ count \notin Used /\ count \in Index
    BY <1>4 DEF Used, Index
  <2>2. WebInTable' /\ ModelInv'
    <3>1. 0..count \subseteq 0..count'
      BY <1>4
    <3>2. /\ web.op \in {"settle", "permute", "rewrite"} =>
               \E n \in 0..count' : web.order \in Orders(n)
          /\ web.op \in {"teardown", "snapshot", "disarm", "erase"} => web.slot < count'
      BY <1>4, <3>1 DEF WebInTable, TypeOK, WebPlace
    <3> QED
      BY <1>2, <3>2 DEF WebInTable, ModelInv
  <2>3. \A i \in Used : slots'[i] = slots[i]
    BY <1>4, <2>1 DEF TypeOK
  <2>4. KeptInv'
    <3>1. \A i \in Used, d \in kept : Holds(i, d) => Holds(i, d)'
      BY <1>2, <2>3 DEF Holds
    <3> QED
      BY <1>2, <2>1, <3>1 DEF KeptInv
  <2>5. StoredInv'
    <3>1. slots'[count].model = NoCam
      BY <1>4, <2>1 DEF TypeOK, NewSlot
    <3>2. \A i \in Used : Unsaved(i) => Unsaved(i)'
      BY <1>2 DEF Unsaved
    <3> QED
      BY <1>2, <2>1, <2>3, <3>1, <3>2 DEF StoredInv
  <2> QED
    BY <1>1, <2>2, <2>4, <2>5
<1> QED
  BY <1>3, <1>4 DEF Connect

\* The steps of the host task that are about links and readiness.
LEMMA HostFrame ==
  ASSUME TableInv,
         \/ \E c \in Cams : Disconnect(c)
         \/ Attach \/ CoreReady \/ CoreUnready
         \/ \E k \in Index : Identify(k) \/ CameraReady(k)
  PROVE  TableInv'
<1> USE Bounds DEF TableInv, RosterInv
<1>1. TypeOK' /\ Named'
  BY LinkTypes, HostTypes
<1>2. web' = web /\ count' = count /\ nvs' = nvs /\ kept' = kept /\ host.op # "save"
  BY DEF Disconnect, Attach, CoreReady, CoreUnready, Identify, CameraReady, tableVars
<1>3. SameNames
  <2>1. CASE \E c \in Cams : Disconnect(c)
    BY <2>1, DisconnectKeeps
  <2>2. CASE Attach
    BY <2>2 DEF Attach, TypeOK, Slot, SameNames
  <2>3. CASE CoreReady \/ CoreUnready
    BY <2>3, SetReadyKeeps DEF CoreReady, CoreUnready
  <2>4. ASSUME NEW k \in Index, Identify(k) \/ CameraReady(k) PROVE SameNames
    <3>1. slots' = slots \/ (/\ ctxs[k].slot \in Index
                             /\ slots' = [slots EXCEPT ![ctxs[k].slot].wifi = TRUE])
      BY <2>4 DEF Identify, CameraReady, tableVars, TypeOK, Context
    <3> QED
      BY <3>1, WifiKeeps DEF SameNames
  <2> QED
    BY <2>1, <2>2, <2>3, <2>4
<1>4. ModelInv'
  <2>1. CASE \E c \in Cams : Disconnect(c)
    <3>1. host' = host \/ host'.op = "unready"
      BY <2>1, DisconnectKeeps
    <3> QED
      BY <3>1 DEF ModelInv
  <2>2. CASE Attach \/ CoreReady \/ CoreUnready
    <3>1. host' = HostIdle
      BY <2>2 DEF Attach, CoreReady, CoreUnready
    <3> QED
      BY <3>1 DEF HostIdle, ModelInv
  <2>3. CASE \E k \in Index : Identify(k) \/ CameraReady(k)
    BY <2>3 DEF Identify, CameraReady, ModelInv
  <2> QED
    BY <2>1, <2>2, <2>3
<1>5. /\ WebInTable' /\ Hole' = Hole /\ Removing' = Removing
      /\ \A i \in Used : Unsaved(i) => Unsaved(i)'
  BY <1>2 DEF WebInTable, Hole, Removing, Unsaved
<1> QED
  BY <1>1, <1>2, <1>3, <1>4, <1>5, QuietKeeps

LEMMA SetModelKeeps ==
  ASSUME TableInv, SetModel
  PROVE  TableInv'
<1> USE Bounds DEF TableInv, RosterInv
<1>1. TypeOK' /\ Named'
  BY HostTypes
<1>2. /\ web' = web /\ count' = count /\ nvs' = nvs /\ kept' = kept
      /\ host.op = "model" /\ host.cam # NoCam /\ host.slot \in Index
      /\ host'.op = "save" /\ host'.slot = host.slot
  BY DEF SetModel, ModelInv, TypeOK, HostPlace
<1>3. /\ \A i \in Index : slots'[i].cam = slots[i].cam
      /\ \A i \in Used \ {host.slot} : slots'[i] = slots[i]
      /\ \A i \in Index : slots[i].model # NoCam => slots'[i].model # NoCam
  BY <1>2 DEF SetModel, TypeOK, Slot
<1>4. /\ WebInTable' /\ ModelInv' /\ Hole' = Hole /\ Removing' = Removing /\ Used' = Used
      /\ \A i \in Used \ {host.slot} : Unsaved(i) => Unsaved(i)'
      /\ Unsaved(host.slot)'
  BY <1>2 DEF WebInTable, ModelInv, Hole, Removing, Unsaved, Used
<1>5. KeptInv'
  <2>1. \A i \in Used, c \in kept : Holds(i, c) => Holds(i, c)'
    BY <1>2, <1>3 DEF Holds
  <2> QED
    BY <1>2, <1>4, <2>1 DEF KeptInv
<1>6. StoredInv'
  BY <1>2, <1>3, <1>4 DEF StoredInv
<1> QED
  BY <1>1, <1>4, <1>5, <1>6

LEMMA SaveSlotKeeps ==
  ASSUME TableInv, SaveSlot
  PROVE  TableInv'
<1> USE Bounds DEF TableInv, RosterInv
<1>1. TypeOK' /\ Named'
  BY HostTypes
<1> DEFINE h == host.slot
<1>2. /\ web' = web /\ count' = count /\ kept' = kept /\ web.op # "shift"
      /\ host.op = "save" /\ h \in Index /\ host'.op = "idle"
      /\ SameNames /\ Used' = Used
      /\ nvs' = IF h \notin Used \/ slots[h].model = NoCam THEN nvs
                ELSE [nvs EXCEPT ![h] = RecordOf(slots[h])]
  BY DEF SaveSlot, TypeOK, HostPlace, Slot, SameNames, Unlocked, HostIdle, Used
<1>3. /\ WebInTable' /\ ModelInv' /\ Hole' = Hole /\ Removing' = Removing
      /\ \A i \in Used \ {h} : Unsaved(i) => Unsaved(i)'
  BY <1>2 DEF WebInTable, ModelInv, Hole, Removing, Unsaved
<1>4. KeptInv'
  <2>1. \A i \in Used, c \in kept : Holds(i, c) => Holds(i, c)'
    BY <1>2 DEF Holds, SameNames, RecordOf, TypeOK
  <2> QED
    BY <1>2, <1>3, <2>1 DEF KeptInv
<1>5. StoredInv'
  <2>1. \A i \in Index : RecordOf(slots'[i]) = RecordOf(slots[i])
    BY <1>2 DEF RecordOf, SameNames
  <2>2. ASSUME NEW i \in Used, slots'[i].model # NoCam, ~Unsaved(i)'
        PROVE  nvs'[i] = RecordOf(slots'[i])
    <3>1. slots[i].model # NoCam
      BY <1>2, <2>2 DEF SameNames
    <3>2. CASE i = h
      BY <1>2, <2>1, <3>1, <3>2 DEF TypeOK
    <3>3. CASE i # h
      BY <1>2, <1>3, <2>1, <2>2, <3>1, <3>3 DEF StoredInv, TypeOK
    <3> QED
      BY <3>2, <3>3
  <2>3. \A i \in Index \ Used : nvs'[i] = NoRecord
    BY <1>2 DEF StoredInv, TypeOK
  <2> QED
    BY <1>2, <2>2, <2>3 DEF StoredInv
<1> QED
  BY <1>1, <1>3, <1>4, <1>5

LEMMA TableStep == TableInv /\ [Next]_vars => TableInv'
<1> SUFFICES ASSUME TableInv, [Next]_vars PROVE TableInv'
  OBVIOUS
<1>1. CASE WebStep
  BY <1>1, RemoveSlotKeeps, RemovalFrame, EraseKeeps, ShiftKeeps, ClearKeeps, ReorderKeeps
     DEF WebStep
<1>2. CASE HostStep
  BY <1>2, ConnectKeeps, HostFrame, SetModelKeeps, SaveSlotKeeps DEF HostStep
<1>3. CASE UNCHANGED vars
  BY <1>3 DEF vars, tableVars, driverVars, bounds, TableInv, RosterInv, TypeOK, Named,
     WebInTable, KeptInv, StoredInv, ModelInv, Used, Hole, Removing, Holds, Unsaved
<1> QED
  BY <1>1, <1>2, <1>3 DEF Next

LEMMA InitTable == Init => TableInv
BY InitRoster DEF Init, TableInv, RosterInv, KeptInv, StoredInv, ModelInv, HostIdle,
   WebIdle, Removing, Used

LEMMA TableInvariant == Spec => []TableInv
BY InitTable, TableStep, PTL DEF Spec

\* With both tasks at rest and every camera identified, a restart loads the table
\* that is in RAM (load_slot_from_nvs).
THEOREM RestartLoadsTable == Spec => []BootLoadsTable
<1>1. TableInv => BootLoadsTable
  BY DEF TableInv, StoredInv, Unsaved, BootLoadsTable
<1> QED
  BY <1>1, TableInvariant, PTL

\* Wherever in remove_slot the power fails, no other camera is forgotten.
THEOREM RemovalSpares == Spec => []RemovalKeepsOthers
<1>1. TableInv => RemovalKeepsOthers
  BY Bounds DEF TableInv, RosterInv, KeptInv, Holds, RemovalKeepsOthers
<1> QED
  BY <1>1, TableInvariant, PTL

-----------------------------------------------------------------------------
(***************************************************************************)
(* The table is a Roster.                                                  *)
(***************************************************************************)

LEMMA RemoveAtElements ==
  ASSUME NEW S, NEW s \in Seq(S), NEW k \in 1..Len(s)
  PROVE  RemoveAt(s, k) = [i \in 1..(Len(s) - 1) |-> IF i < k THEN s[i] ELSE s[i + 1]]
<1> DEFINE a == SubSeq(s, 1, k - 1)
           b == SubSeq(s, k + 1, Len(s))
<1>1. Len(s) \in Nat /\ k \in Nat
  OBVIOUS
<1>2. a \in Seq(S) /\ Len(a) = k - 1 /\ \A i \in 1..(k - 1) : a[i] = s[i]
  BY <1>1, SubSeqProperties
<1>3. b \in Seq(S) /\ Len(b) = Len(s) - k /\ \A i \in 1..(Len(s) - k) : b[i] = s[i + k]
  BY <1>1, SubSeqProperties
<1> HIDE DEF a, b
<1>4. /\ a \o b \in Seq(S) /\ Len(a \o b) = Len(s) - 1
      /\ \A i \in 1..(Len(s) - 1) : (a \o b)[i] = IF i < k THEN s[i] ELSE s[i + 1]
  <2>1. /\ a \o b \in Seq(S) /\ Len(a \o b) = Len(a) + Len(b)
        /\ \A i \in 1 .. Len(a) + Len(b) :
             (a \o b)[i] = IF i <= Len(a) THEN a[i] ELSE b[i - Len(a)]
    BY <1>2, <1>3, ConcatProperties
  <2>2. Len(a \o b) = Len(s) - 1
    BY <1>1, <1>2, <1>3, <2>1
  <2>3. ASSUME NEW i \in 1..(Len(s) - 1)
        PROVE  (a \o b)[i] = IF i < k THEN s[i] ELSE s[i + 1]
    <3>1. CASE i < k
      BY <1>1, <1>2, <2>1, <2>2, <3>1
    <3>2. CASE ~(i < k)
      <4>1. i - Len(a) \in 1..(Len(s) - k) /\ (i - Len(a)) + k = i + 1
        BY <1>1, <1>2, <3>2
      <4> QED
        BY <1>1, <1>2, <1>3, <2>1, <2>2, <3>2, <4>1
    <3> QED
      BY <3>1, <3>2
  <2> QED
    BY <2>1, <2>2, <2>3
<1>5. a \o b = [i \in 1..(Len(s) - 1) |-> (a \o b)[i]]
  <2>1. a \o b \in [1..(Len(s) - 1) -> S]
    BY <1>4, LenProperties
  <2> QED
    BY <2>1
<1> QED
  BY <1>4, <1>5 DEF RemoveAt, a, b

\* The cameras by position: the hole of the compaction is not one of them.
Length == IF web.op = "shift" THEN count - 1 ELSE count
Ordered == [i \in 1..Length |-> IF web.op = "shift" /\ web.next < i
                               THEN slots[i].cam ELSE slots[i - 1].cam]

LEMMA MappingExplicit == TableInv => InOrder = Ordered
<1> SUFFICES ASSUME TableInv PROVE InOrder = Ordered
  OBVIOUS
<1> USE Bounds DEF TableInv, RosterInv
<1>1. Listed \in Seq(Cams) /\ Len(Listed) = count
  <2>1. \A i \in 1..count : i - 1 \in Used /\ slots[i - 1].cam \in Cams
    BY DEF Used, Named
  <2>2. Listed \in [1..count -> Cams]
    BY <2>1 DEF Listed
  <2> QED
    BY <2>2
<1>2. CASE web.op = "shift"
  <2>1. web.next \in Nat /\ web.next + 1 \in 1..Len(Listed)
    BY <1>1, <1>2 DEF WebInTable, TypeOK, WebPlace
  <2>2. InOrder = [i \in 1..(count - 1) |->
                    IF i < web.next + 1 THEN Listed[i] ELSE Listed[i + 1]]
    BY <1>1, <1>2, <2>1, RemoveAtElements DEF InOrder
  <2>3. \A i \in 1..(count - 1) :
          (IF i < web.next + 1 THEN Listed[i] ELSE Listed[i + 1])
            = IF web.next < i THEN slots[i].cam ELSE slots[i - 1].cam
    BY <2>1 DEF Listed
  <2> QED
    BY <1>2, <2>2, <2>3 DEF Ordered, Length
<1>3. CASE web.op # "shift"
  BY <1>3 DEF InOrder, Listed, Ordered, Length
<1> QED
  BY <1>2, <1>3

LEMMA OrderedTypes == TableInv => Length \in Nat /\ Ordered \in [1..Length -> Cams]
<1> SUFFICES ASSUME TableInv PROVE Length \in Nat /\ Ordered \in [1..Length -> Cams]
  OBVIOUS
<1> USE Bounds DEF TableInv, RosterInv
<1>1. web.op = "shift" => web.next \in Nat /\ web.slot \in Nat /\ web.next < count
                          /\ web.slot <= web.next
  BY DEF WebInTable, TypeOK, WebPlace, Index
<1>2. Length \in Nat
  BY <1>1 DEF Length
<1>3. \A i \in 1..Length : (IF web.op = "shift" /\ web.next < i
                            THEN slots[i].cam ELSE slots[i - 1].cam) \in Cams
  <2>1. \A i \in 1..Length : i - 1 \in Used /\ (web.op = "shift" => i \in Used)
    BY <1>1 DEF Length, Used
  <2> QED
    BY <2>1 DEF Named
<1> QED
  BY <1>2, <1>3 DEF Ordered

\* Nothing but names in the table matters to the roster.
LEMMA SameNamesSameRoster ==
  ASSUME TypeOK, \A i \in Index : slots'[i].cam = slots[i].cam, count' = count,
         web.op # "shift", web'.op # "shift"
  PROVE  Ordered' = Ordered
<1>1. \A i \in 1..count : i - 1 \in Index
  BY Bounds DEF Used
<1> QED
  BY <1>1 DEF Ordered, Length

LEMMA ShiftKeepsRoster == ASSUME TableInv, Shift PROVE Ordered' = Ordered
<1> USE Bounds DEF TableInv, RosterInv
<1>1. PICK k \in Nat : k = web.next /\ k < count - 1
  BY DEF TypeOK, WebPlace, Shift
<1>2. count' = count /\ web'.op = "shift" /\ web'.next = k + 1 /\ web.op = "shift"
  BY <1>1 DEF Shift, TypeOK, WebPlace, WebGoes
<1>3. /\ slots'[k] = slots[k + 1]
      /\ \A i \in Index \ {k} : slots'[i] = slots[i]
  <2>1. k \in Index
    BY <1>1 DEF Used
  <2> QED
    BY <1>1, <2>1 DEF Shift, TypeOK
<1>4. ASSUME NEW i \in 1..(count - 1)
      PROVE  (IF k + 1 < i THEN slots'[i].cam ELSE slots'[i - 1].cam)
               = IF k < i THEN slots[i].cam ELSE slots[i - 1].cam
  <2>1. i \in Index /\ i - 1 \in Index
    BY DEF Used
  <2>2. CASE k + 1 < i
    BY <1>1, <1>3, <2>1, <2>2
  <2>3. CASE i = k + 1
    BY <1>1, <1>3, <2>1, <2>3
  <2>4. CASE i < k + 1
    BY <1>1, <1>3, <2>1, <2>4
  <2> QED
    BY <1>1, <2>2, <2>3, <2>4
<1> QED
  BY <1>1, <1>2, <1>4 DEF Ordered, Length

LEMMA ClearKeepsRoster == ASSUME TableInv, Clear PROVE Ordered' = Ordered
<1> USE Bounds DEF TableInv, RosterInv
<1>1. count' = count - 1 /\ web'.op = "unregister" /\ web.op = "shift"
      /\ web.next = count - 1 /\ web.next \in Nat
  BY DEF Clear, TypeOK, WebPlace, WebGoes
<1>2. \A i \in Index \ {count - 1} : slots'[i] = slots[i]
  BY DEF Clear, TypeOK
<1>3. ASSUME NEW i \in 1..(count - 1)
      PROVE  slots'[i - 1].cam = slots[i - 1].cam /\ ~(web.next < i)
  <2>1. i - 1 \in Index \ {count - 1}
    <3>1. count \in Nat /\ Used \subseteq Index
      OBVIOUS
    <3> QED
      BY <3>1 DEF Used
  <2> QED
    BY <1>1, <1>2, <2>1
<1> QED
  BY <1>1, <1>3 DEF Ordered, Length

\* Releasing the removed slot's record is where its camera leaves the list.
LEMMA EraseDeletes ==
  ASSUME TableInv, Erase
  PROVE  web.slot + 1 \in 1..Len(Ordered) /\ Ordered' = RemoveAt(Ordered, web.slot + 1)
<1> USE Bounds DEF TableInv, RosterInv
<1>1. PICK k \in Nat : k = web.slot /\ k < count
  BY DEF TypeOK, WebPlace, Erase, WebInTable, Index
<1>2. web'.op = "shift" /\ web'.next = k /\ web.op = "erase"
      /\ count' = count /\ slots' = slots
  BY <1>1 DEF Erase, TypeOK, WebPlace, WebGoes, tableVars
<1>3. Ordered \in Seq(Cams) /\ Len(Ordered) = count
  <2>1. Ordered \in [1..count -> Cams]
    BY <1>2, OrderedTypes DEF Length
  <2> QED
    BY <2>1
<1>4. RemoveAt(Ordered, k + 1)
        = [i \in 1..(count - 1) |-> IF i < k + 1 THEN Ordered[i] ELSE Ordered[i + 1]]
  <2>1. k + 1 \in 1..Len(Ordered)
    BY <1>1, <1>3
  <2>2. RemoveAt(Ordered, k + 1)
          = [i \in 1..(Len(Ordered) - 1) |->
               IF i < k + 1 THEN Ordered[i] ELSE Ordered[i + 1]]
    BY <1>3, <2>1, RemoveAtElements
  <2> QED
    BY <1>3, <2>2
<1>5. ASSUME NEW i \in 1..(count - 1)
      PROVE  (IF i < k + 1 THEN Ordered[i] ELSE Ordered[i + 1])
               = IF k < i THEN slots[i].cam ELSE slots[i - 1].cam
  <2>1. Ordered[i] = slots[i - 1].cam /\ Ordered[i + 1] = slots[i].cam
    BY <1>2 DEF Ordered, Length
  <2> QED
    BY <1>1, <2>1
<1>6. Ordered' = [i \in 1..(count - 1) |-> IF k < i THEN slots[i].cam ELSE slots[i - 1].cam]
  BY <1>2 DEF Ordered, Length
<1>7. Ordered' = RemoveAt(Ordered, k + 1)
  BY <1>4, <1>5, <1>6
<1>8. k + 1 \in 1..Len(Ordered)
  BY <1>1, <1>3
<1> QED
  BY <1>1, <1>7, <1>8

LEMMA AppendIsFunction ==
  ASSUME NEW S, NEW s \in Seq(S), NEW e \in S
  PROVE  Append(s, e) = [i \in 1..(Len(s) + 1) |-> IF i = Len(s) + 1 THEN e ELSE s[i]]
<1>1. /\ Append(s, e) \in Seq(S) /\ Len(Append(s, e)) = Len(s) + 1
      /\ \A i \in 1..Len(s) : Append(s, e)[i] = s[i]
      /\ Append(s, e)[Len(s) + 1] = e
  BY AppendProperties
<1>2. Append(s, e) \in [1..(Len(s) + 1) -> S] /\ Len(s) \in Nat
  BY <1>1, LenProperties
<1>3. \A i \in 1..(Len(s) + 1) : Append(s, e)[i] = IF i = Len(s) + 1 THEN e ELSE s[i]
  BY <1>1, <1>2
<1> QED
  BY <1>2, <1>3

\* A camera of the table keeps its place; another is appended.
LEMMA ConnectAdds ==
  ASSUME TableInv, NEW c \in Cams, Connect(c)
  PROVE  \/ Ordered' = Ordered
         \/ /\ \A i \in DOMAIN Ordered : Ordered[i] # c
            /\ Len(Ordered) < MaxSlots
            /\ Ordered' = Append(Ordered, c)
<1> USE Bounds DEF TableInv, RosterInv
<1>1. web' = web /\ web.op # "shift"
  BY DEF Connect, Unlocked
<1>2. CASE SlotOf(c) # NoSlot
  BY <1>1, <1>2, SameNamesSameRoster DEF Connect, tableVars
<1>3. CASE SlotOf(c) = NoSlot
  <2>1. \A i \in Used : slots[i].cam # c
    <3> SUFFICES ASSUME \E i \in Used : slots[i].cam = c PROVE FALSE
      OBVIOUS
    <3>1. PICK m \in {i \in Used : slots[i].cam = c} :
                 \A j \in {i \in Used : slots[i].cam = c} : m <= j
      BY SmallestElement DEF Used
    <3>2. SlotOf(c) \in Used
      BY <3>1 DEF SlotOf
    <3> QED
      BY <1>3, <3>2 DEF Used, NoSlot
  <2>2. Ordered \in Seq(Cams) /\ Len(Ordered) = count /\ Ordered \in [1..count -> Cams]
    <3>1. Ordered \in [1..count -> Cams]
      BY <1>1, OrderedTypes DEF Length
    <3> QED
      BY <3>1
  <2>3. \A i \in DOMAIN Ordered : Ordered[i] # c
    <3>1. \A i \in 1..count : i - 1 \in Used
      BY DEF Used
    <3> QED
      BY <1>1, <2>1, <2>2, <3>1 DEF Ordered, Length
  <2>4. count < MaxSlots /\ count' = count + 1 /\ count \in Index
    BY <1>3, SlotTableAssumption DEF Connect, TypeOK, Index
  <2>5. slots'[count].cam = c /\ \A i \in Index \ {count} : slots'[i] = slots[i]
    BY <1>3, <2>4 DEF Connect, TypeOK, NewSlot
  <2>6. Ordered' = [i \in 1..(count + 1) |-> slots'[i - 1].cam]
    BY <1>1, <2>4 DEF Ordered, Length
  <2>7. Append(Ordered, c) = [i \in 1..(count + 1) |-> IF i = count + 1 THEN c ELSE Ordered[i]]
    <3>1. Append(Ordered, c) = [i \in 1..(Len(Ordered) + 1) |->
                                  IF i = Len(Ordered) + 1 THEN c ELSE Ordered[i]]
      BY <2>2, AppendIsFunction
    <3> QED
      BY <2>2, <3>1
  <2>8. ASSUME NEW i \in 1..(count + 1)
        PROVE  slots'[i - 1].cam = IF i = count + 1 THEN c ELSE Ordered[i]
    <3>1. CASE i = count + 1
      BY <2>5, <3>1
    <3>2. CASE i # count + 1
      <4>1. i \in 1..count /\ i - 1 \in Index \ {count}
        BY <3>2 DEF Used
      <4> QED
        BY <1>1, <2>5, <3>2, <4>1 DEF Ordered, Length
    <3> QED
      BY <3>1, <3>2
  <2> QED
    BY <2>2, <2>3, <2>4, <2>6, <2>7, <2>8
<1> QED
  BY <1>2, <1>3

\* An order of the first n positions, counted from one, leaves the others alone.
LEMMA OrderExtends ==
  ASSUME NEW n \in Nat, NEW m \in Nat, n <= m, NEW q \in Orders(n)
  PROVE  /\ \A i \in 1..n : q[i - 1] \in 0..(n - 1)
         /\ [i \in 1..m |-> IF i <= n THEN q[i - 1] + 1 ELSE i] \in Bijection(1..m, 1..m)
<1> DEFINE p == [i \in 1..m |-> IF i <= n THEN q[i - 1] + 1 ELSE i]
<1>1. /\ q \in [0..(n - 1) -> 0..(n - 1)]
      /\ \A i, j \in 0..(n - 1) : q[i] = q[j] => i = j
      /\ \A i \in 0..(n - 1) : \E j \in 0..(n - 1) : q[j] = i
  <2>1. q \in [0..(n - 1) -> 0..(n - 1)]
    BY DEF Orders, Bijection, Injection, Surjection
  <2>2. \A i \in 0..(n - 1) : \E j \in 0..(n - 1) : q[j] = i
    BY DEF Orders, Bijection, Surjection
  <2>3. \A i, j \in 0..(n - 1) : q[i] = q[j] => i = j
    BY <2>1 DEF Orders, Bijection, Injection, IsInjective
  <2> QED
    BY <2>1, <2>2, <2>3
<1>2. \A i \in 1..n : i - 1 \in 0..(n - 1)
  OBVIOUS
<1>3. \A i \in 1..n : q[i - 1] \in 0..(n - 1)
  BY <1>1, <1>2
<1>4. \A i \in 1..m : p[i] \in 1..m /\ (i <= n => p[i] <= n)
  BY <1>3
<1>5. ASSUME NEW i \in 1..m, NEW j \in 1..m, p[i] = p[j] PROVE i = j
  <2>1. CASE i <= n /\ j <= n
    <3>1. q[i - 1] \in 0..(n - 1) /\ q[j - 1] \in 0..(n - 1)
      BY <1>3, <2>1
    <3>2. q[i - 1] = q[j - 1]
      BY <1>5, <2>1, <3>1
    <3>3. i - 1 = j - 1
      BY <1>1, <1>2, <2>1, <3>2
    <3> QED
      BY <3>3
  <2>2. CASE ~(i <= n /\ j <= n)
    BY <1>4, <1>5, <2>2
  <2> QED
    BY <2>1, <2>2
<1>6. ASSUME NEW i \in 1..m PROVE \E j \in 1..m : p[j] = i
  <2>1. CASE i <= n
    <3>1. i - 1 \in 0..(n - 1)
      BY <2>1
    <3>2. PICK j \in 0..(n - 1) : q[j] = i - 1
      BY <1>1, <3>1
    <3>3. j + 1 \in 1..m /\ (j + 1) - 1 = j /\ j + 1 <= n
      BY <3>2
    <3>4. p[j + 1] = q[j] + 1
      BY <3>3
    <3> QED
      BY <3>2, <3>3, <3>4
  <2>2. CASE ~(i <= n)
    BY <2>2
  <2> QED
    BY <2>1, <2>2
<1>7. p \in [1..m -> 1..m]
  BY <1>4
<1> HIDE DEF p
<1>8. p \in Injection(1..m, 1..m)
  BY <1>5, <1>7 DEF Injection, IsInjective
<1>9. p \in Surjection(1..m, 1..m)
  BY <1>6, <1>7 DEF Surjection
<1> QED
  BY <1>3, <1>8, <1>9 DEF Bijection, p

\* The order asked for, as positions counted from one; slots registered since
\* it was asked for stay behind those it names.
LEMMA PermuteRearranges ==
  ASSUME TableInv, Permute
  PROVE  \E p \in Bijection(DOMAIN Ordered, DOMAIN Ordered) :
           Ordered' = [i \in DOMAIN Ordered |-> Ordered[p[i]]]
<1>0. count \in Nat /\ Used \subseteq Index
  BY Bounds DEF TableInv, RosterInv
<1>1. PICK n \in 0..count : web.order \in Orders(n)
  BY DEF Permute, WebInTable, TableInv, RosterInv
<1>2. PICK q : q = web.order
  OBVIOUS
<1>3. n \in Nat /\ n <= count /\ q \in Orders(n) /\ DOMAIN q = 0..(n - 1)
  <2>1. q \in [0..(n - 1) -> 0..(n - 1)]
    BY <1>1, <1>2 DEF Orders, Bijection, Injection
  <2> QED
    BY <1>0, <1>1, <1>2, <2>1
<1>4. web'.op = "rewrite" /\ web.op = "permute" /\ count' = count
  BY DEF Permute, TypeOK, WebPlace, WebGoes, TableInv, RosterInv
<1>5. DOMAIN Ordered = 1..count
  BY <1>4 DEF Ordered, Length
<1>6. PICK p : p = [i \in 1..count |-> IF i <= n THEN q[i - 1] + 1 ELSE i]
  OBVIOUS
<1>7. p \in Bijection(1..count, 1..count) /\ \A i \in 1..n : q[i - 1] \in 0..(n - 1)
  BY <1>0, <1>3, <1>6, OrderExtends
<1>8. p \in [1..count -> 1..count]
  BY <1>7 DEF Bijection, Injection
<1>9. ASSUME NEW i \in 1..count PROVE slots'[i - 1].cam = Ordered[p[i]]
  <2>1. i - 1 \in Index
    BY <1>0 DEF Used
  <2>2. slots'[i - 1] = IF i - 1 \in DOMAIN q THEN slots[q[i - 1]] ELSE slots[i - 1]
    BY <1>2, <2>1 DEF Permute
  <2>3. Ordered[p[i]] = slots[p[i] - 1].cam
    BY <1>4, <1>8 DEF Ordered, Length
  <2>4. CASE i <= n
    <3>1. i - 1 \in 0..(n - 1) /\ q[i - 1] \in 0..(n - 1)
      BY <1>0, <1>3, <1>7, <2>4
    <3>2. p[i] - 1 = q[i - 1]
      BY <1>6, <2>4, <3>1
    <3> QED
      BY <1>3, <2>2, <2>3, <3>1, <3>2
  <2>5. CASE ~(i <= n)
    <3>1. p[i] = i /\ i - 1 \notin 0..(n - 1)
      BY <1>0, <1>3, <1>6, <2>5
    <3> QED
      BY <1>3, <2>2, <2>3, <3>1
  <2> QED
    BY <2>4, <2>5
<1>10. Ordered' = [i \in 1..count |-> slots'[i - 1].cam]
  BY <1>4 DEF Ordered, Length
<1> QED
  BY <1>5, <1>7, <1>9, <1>10

\* Every other step of the web task only goes on.
LEMMA WebKeepsRoster ==
  ASSUME TableInv, TableInv',
         \/ \E i \in Index : RemoveSlot(i)
         \/ Teardown \/ Snapshot \/ Disarm \/ UnregisterTop \/ DropTop \/ Rearm
         \/ \E p \in Orders(count) : Reorder(p)
         \/ Settle \/ Rewrite
  PROVE  Ordered' = Ordered
<1> USE DEF TableInv, RosterInv
<1>0. web \in WebPlace
  BY DEF TypeOK
<1>1. count' = count /\ web.op # "shift" /\ web'.op # "shift"
  <2>1. CASE \E i \in Index : RemoveSlot(i)
    BY <2>1 DEF RemoveSlot, WebIdle, tableVars
  <2>2. CASE \E p \in Orders(count) : Reorder(p)
    BY <2>2 DEF Reorder, WebIdle, tableVars
  <2>3. CASE Teardown \/ UnregisterTop \/ DropTop
    BY <1>0, <2>3 DEF Teardown, UnregisterTop, DropTop, WebGoes, WebPlace
  <2>4. CASE Snapshot
    BY <1>0, <2>4 DEF Snapshot, WebPlace, tableVars
  <2>5. CASE Disarm
    BY <1>0, <2>5 DEF Disarm, WebGoes, WebPlace
  <2>6. CASE Rearm
    <3>1. web'.op \in {"rearm", "idle"}
      <4>1. CASE web' = WebIdle
        BY <4>1 DEF WebIdle
      <4>2. CASE \E i : web' = [web EXCEPT !.op = "rearm", !.next = i]
        BY <1>0, <4>2 DEF WebPlace
      <4> QED
        BY <2>6, <4>1, <4>2 DEF Rearm, WebGoes
    <3> QED
      BY <2>6, <3>1 DEF Rearm
  <2>7. CASE Settle
    BY <1>0, <2>7 DEF Settle, WebGoes, WebPlace
  <2>8. CASE Rewrite
    <3>1. web'.op \in {"rewrite", "idle"}
      <4>1. CASE web' = WebIdle
        BY <4>1 DEF WebIdle
      <4>2. CASE WebGoes("rewrite", web.next + 1)
        BY <1>0, <4>2 DEF WebPlace, WebGoes
      <4> QED
        BY <2>8, <4>1, <4>2 DEF Rewrite
    <3> QED
      BY <2>8, <3>1 DEF Rewrite, tableVars
  <2> QED
    BY <2>1, <2>2, <2>3, <2>4, <2>5, <2>6, <2>7, <2>8
<1>2. SameNames
  <2>1. CASE Teardown \/ UnregisterTop \/ Settle \/ Disarm \/ Rearm
    BY <2>1, SetReadyKeeps DEF Teardown, UnregisterTop, Settle, Disarm, Rearm, Torn, SameNames
  <2>2. CASE ~(Teardown \/ UnregisterTop \/ Settle \/ Disarm \/ Rearm)
    BY <2>2 DEF RemoveSlot, Snapshot, DropTop, Reorder, Rewrite, tableVars, SameNames
  <2> QED
    BY <2>1, <2>2
<1> QED
  BY <1>1, <1>2, SameNamesSameRoster DEF SameNames

\* No camera's place changes but by Connect.
LEMMA HostKeepsRoster ==
  ASSUME TableInv, TableInv',
         \/ \E c \in Cams : Disconnect(c)
         \/ Attach \/ SetModel \/ SaveSlot \/ CoreReady \/ CoreUnready
         \/ \E k \in Index : Identify(k) \/ CameraReady(k)
  PROVE  Ordered' = Ordered
<1> USE Bounds DEF TableInv, RosterInv
<1>2. count' = count /\ \A i \in Index : slots'[i].cam = slots[i].cam
  <2>1. ASSUME NEW c \in Cams, Disconnect(c) PROVE SameNames /\ count' = count
    BY <2>1, DisconnectKeeps DEF Disconnect
  <2>2. CASE Attach
    BY <2>2 DEF Attach, TypeOK, Slot
  <2>3. CASE SetModel
    BY <2>3 DEF SetModel, TypeOK, Slot
  <2>4. CASE SaveSlot
    BY <2>4 DEF SaveSlot, TypeOK, Slot
  <2>5. CASE CoreReady \/ CoreUnready
    BY <2>5, SetReadyKeeps DEF CoreReady, CoreUnready, SameNames
  <2>6. ASSUME NEW k \in Index, Identify(k) \/ CameraReady(k)
        PROVE  count' = count /\ \A i \in Index : slots'[i].cam = slots[i].cam
    BY <2>6 DEF Identify, CameraReady, TypeOK, Slot, tableVars
  <2> QED
    BY <2>1, <2>2, <2>3, <2>4, <2>5, <2>6 DEF SameNames
<1>3. web' = web
  BY DEF Disconnect, Attach, SetModel, SaveSlot, CoreReady, CoreUnready, Identify, CameraReady
<1>4. CASE web.op # "shift"
  BY <1>2, <1>3, <1>4, SameNamesSameRoster
<1>5. CASE web.op = "shift"
  <2>1. \A i \in 1..(count - 1) : i \in Index /\ i - 1 \in Index
    BY DEF Used
  <2> QED
    BY <1>2, <1>3, <1>5, <2>1 DEF Ordered, Length
<1> QED
  BY <1>4, <1>5

LEMMA RosterStep == TableInv /\ TableInv' /\ [Next]_vars => [Roster!Next]_InOrder
<1> SUFFICES ASSUME TableInv, TableInv', [Next]_vars PROVE [Roster!Next]_InOrder
  OBVIOUS
<1>1. InOrder = Ordered
  BY MappingExplicit
<1>2. InOrder' = Ordered'
  <2>1. (TableInv => InOrder = Ordered)'
    BY MappingExplicit, PTL
  <2> QED
    BY <2>1
<1>3. CASE Erase
  <2>1. /\ web.slot + 1 \in DOMAIN Ordered
        /\ Ordered' = RemoveAt(Ordered, web.slot + 1)
    <3>1. Ordered \in [1..Length -> Cams] /\ Length \in Nat
      BY OrderedTypes
    <3>2. Ordered \in Seq(Cams)
      BY <3>1
    <3> QED
      BY <1>3, <3>2, EraseDeletes, LenProperties
  <2>2. InOrder' = Roster!RemoveAt(InOrder, web.slot + 1)
    BY <1>1, <1>2, <2>1 DEF Roster!RemoveAt, RemoveAt
  <2> QED
    BY <1>1, <2>1, <2>2 DEF Roster!Next, Roster!Delete
<1>4. CASE Permute
  BY <1>1, <1>2, <1>4, PermuteRearranges
     DEF Roster!Next, Roster!Rearrange, Roster!Bijection, Roster!Injection,
         Roster!Surjection, Roster!IsInjective, Bijection, Injection, Surjection, IsInjective
<1>5. ASSUME NEW c \in Cams, Connect(c) PROVE [Roster!Next]_InOrder
  BY <1>1, <1>2, <1>5, ConnectAdds DEF Roster!Next, Roster!Add, Roster!Range
<1>6. CASE Shift \/ Clear
  BY <1>1, <1>2, <1>6, ShiftKeepsRoster, ClearKeepsRoster
<1>7. CASE UNCHANGED vars
  BY <1>7 DEF vars, tableVars, driverVars, bounds, InOrder, Listed
<1> QED
  BY <1>1, <1>2, <1>3, <1>4, <1>5, <1>6, <1>7, WebKeepsRoster, HostKeepsRoster
     DEF Next, WebStep, HostStep

\* Whatever the two tasks interleave, the table is a list of different cameras that
\* grows at the end, loses one camera at a time and is rearranged.
THEOREM TableImplementsRoster == Spec => ImplementsRoster
<1>1. Init => Roster!Init
  BY InitTable, MappingExplicit
     DEF Roster!Init, Init, Ordered, Length, WebIdle
<1> QED
  BY <1>1, TableInvariant, RosterStep, PTL DEF Spec, ImplementsRoster, Roster!Spec

(***************************************************************************)
(* PairAttempt                                                             *)
(***************************************************************************)

USE DEF watchdog, attempts

Someone == Cameras \cup {Nobody}
Programs == Seq(Operations \X Someone)

\* What the tasks have still to do, as sets of operations with their cameras.
Elements(s) == {s[i] : i \in 1..Len(s)}
Todo(t) == Elements(pc[t])
WillDo(t, op) == \E e \in Todo(t) : e[1] = op

\* Nobody advances an attempt that has not begun.
NoneBegun ==
  state \in {"unset", "idle"} =>
    \A t \in Tasks : ~WillDo(t, "bonding") /\ ~WillDo(t, "provisioning")

AttemptInv == AttemptTypeOK /\ NoneBegun

\* WatchdogCovers, in terms of what the tasks will do.
WatchdogInv ==
  InFlight /\ created /\ ~stolen =>
    armed \/ WillDo("http", "arm") \/ WillDo("timer", "cancel")

\* Only the web server's task adds a Wi-Fi camera.  If the attempt before was over and
\* done with, no watchdog of that one is running, and the handler is never cancelled
\* before it has added the camera.
AddingInv ==
  /\ \A t \in Tasks : WillDo(t, "add") => t = "http"
  /\ ~overlapped =>
       /\ ~old
       /\ (\E t \in Tasks : WillDo(t, "add")) =>
            error # "cancelled" /\ \A u \in Tasks : ~WillDo(u, "cancel")

ForgottenInv ==
  error = "cancelled" /\ addr \in RcCameras /\ ~overlapped =>
    slot[addr] = "none" \/ \E t \in Tasks : <<"remove", addr>> \in Todo(t)

\* Task t has done what is in `gone` and is to do what is in `new`.
Goes(t, gone, new) ==
  /\ pc' \in [Tasks -> Programs]
  /\ \A u \in Tasks \ {t} : Todo(u)' = Todo(u)
  /\ Todo(t) \ gone \subseteq Todo(t)'
  /\ new \subseteq Todo(t)'
  /\ Todo(t)' \subseteq Todo(t) \cup new

LEMMA PendingIsToDo ==
  ASSUME AttemptTypeOK, NEW t \in Tasks, NEW op
  PROVE  Pending(t, op) <=> WillDo(t, op)
BY DEF AttemptTypeOK, Pending, WillDo, Todo, Elements

LEMMA ElementsOf ==
  /\ Elements(<<>>) = {}
  /\ \A e : Elements(<<e>>) = {e}
  /\ \A e, f : Elements(<<e, f>>) = {e, f}
  /\ \A e, f, g : Elements(<<e, f, g>>) = {e, f, g}
<1>1. Elements(<<>>) = {}
  BY DEF Elements
<1>2. ASSUME NEW e PROVE Elements(<<e>>) = {e}
  BY DEF Elements
<1>3. ASSUME NEW e, NEW f PROVE Elements(<<e, f>>) = {e, f}
  <2>1. 1..2 = {1, 2} /\ Len(<<e, f>>) = 2 /\ <<e, f>>[1] = e /\ <<e, f>>[2] = f
    OBVIOUS
  <2> QED
    BY <2>1 DEF Elements
<1>4. ASSUME NEW e, NEW f, NEW g PROVE Elements(<<e, f, g>>) = {e, f, g}
  <2>1. /\ 1..3 = {1, 2, 3} /\ Len(<<e, f, g>>) = 3 /\ <<e, f, g>>[1] = e
        /\ <<e, f, g>>[2] = f /\ <<e, f, g>>[3] = g
    OBVIOUS
  <2> QED
    BY <2>1 DEF Elements
<1> QED
  BY <1>1, <1>2, <1>3, <1>4

LEMMA ElementsConcat ==
  ASSUME NEW S, NEW s \in Seq(S), NEW r \in Seq(S)
  PROVE  Elements(s \o r) = Elements(s) \cup Elements(r)
<1>1. /\ Len(s \o r) = Len(s) + Len(r)
      /\ \A i \in 1 .. Len(s) + Len(r) : (s \o r)[i] =
                     IF i <= Len(s) THEN s[i] ELSE r[i - Len(s)]
  BY ConcatProperties
<1>2. Len(s) \in Nat /\ Len(r) \in Nat
  BY LenProperties
<1>3. Elements(s \o r) \subseteq Elements(s) \cup Elements(r)
  BY <1>1, <1>2 DEF Elements
<1>4. ASSUME NEW i \in 1..Len(s) PROVE s[i] \in Elements(s \o r)
  BY <1>1, <1>2 DEF Elements
<1>5. ASSUME NEW i \in 1..Len(r) PROVE r[i] \in Elements(s \o r)
  <2>1. /\ Len(s) + i \in 1..(Len(s) + Len(r)) /\ ~(Len(s) + i <= Len(s))
        /\ (Len(s) + i) - Len(s) = i
    BY <1>2
  <2>2. (s \o r)[Len(s) + i] = r[i]
    BY <1>1, <2>1
  <2> QED
    BY <1>1, <2>1, <2>2 DEF Elements
<1> QED
  BY <1>3, <1>4, <1>5 DEF Elements

LEMMA ElementsTail ==
  ASSUME NEW S, NEW s \in Seq(S), s # <<>>
  PROVE  Elements(s) = {Head(s)} \cup Elements(Tail(s))
<1>1. /\ Tail(s) \in Seq(S) /\ Len(Tail(s)) = Len(s) - 1 /\ Len(s) \in Nat \ {0}
      /\ \A i \in 1..(Len(s) - 1) : Tail(s)[i] = s[i + 1]
      /\ Head(s) = s[1]
  BY HeadTailProperties, EmptySeq, LenProperties
<1>2. Elements(Tail(s)) \subseteq Elements(s) /\ Head(s) \in Elements(s)
  BY <1>1 DEF Elements
<1>3. ASSUME NEW i \in 1..Len(s) PROVE s[i] \in {Head(s)} \cup Elements(Tail(s))
  <2>1. CASE i = 1
    BY <1>1, <2>1
  <2>2. CASE i # 1
    <3>1. i - 1 \in 1..(Len(s) - 1) /\ (i - 1) + 1 = i
      BY <1>1, <2>2
    <3> QED
      BY <1>1, <3>1 DEF Elements
  <2> QED
    BY <2>1, <2>2
<1> QED
  BY <1>2, <1>3 DEF Elements

LEMMA DoesGoes ==
  ASSUME AttemptTypeOK, NEW t \in Tasks, NEW op, NEW more \in Programs, Does(t, op, more)
  PROVE  /\ Camera(t) \in Someone /\ <<op, Camera(t)>> \in Todo(t)
         /\ Goes(t, {<<op, Camera(t)>>}, Elements(more))
<1>1. pc \in [Tasks -> Programs] /\ pc[t] \in Programs /\ pc[t] # <<>>
  BY DEF AttemptTypeOK, Programs, Someone, Does
<1>2. Head(pc[t]) \in Operations \X Someone /\ Tail(pc[t]) \in Programs
  BY <1>1, HeadTailProperties DEF Programs
<1>3. Head(pc[t]) = <<op, Camera(t)>> /\ Camera(t) \in Someone
  BY <1>2 DEF Does, Camera
<1>4. pc' = [pc EXCEPT ![t] = more \o Tail(pc[t])] /\ more \o Tail(pc[t]) \in Programs
  BY <1>1, <1>2, ConcatProperties DEF Does, Programs
<1>5. Todo(t) = {<<op, Camera(t)>>} \cup Elements(Tail(pc[t]))
  BY <1>1, <1>3, ElementsTail DEF Todo, Programs
<1>6. Todo(t)' = Elements(more) \cup Elements(Tail(pc[t]))
  <2>1. Todo(t)' = Elements(more \o Tail(pc[t]))
    BY <1>1, <1>4 DEF Todo
  <2>2. more \in Seq(Operations \X Someone) /\ Tail(pc[t]) \in Seq(Operations \X Someone)
    BY <1>2 DEF Programs
  <2>3. Elements(more \o Tail(pc[t])) = Elements(more) \cup Elements(Tail(pc[t]))
    BY <2>2, ElementsConcat
  <2> QED
    BY <2>1, <2>3
<1>7. \A u \in Tasks \ {t} : Todo(u)' = Todo(u)
  BY <1>1, <1>4 DEF Todo
<1> QED
  BY <1>1, <1>3, <1>4, <1>5, <1>6, <1>7 DEF Goes

LEMMA EndsGoes ==
  ASSUME AttemptTypeOK, NEW t \in Tasks, NEW op, Does(t, op, <<>>)
  PROVE  /\ Camera(t) \in Someone /\ <<op, Camera(t)>> \in Todo(t)
         /\ Goes(t, {<<op, Camera(t)>>}, {})
<1>1. <<>> \in Programs /\ Elements(<<>>) = {}
  BY DEF Programs, Elements
<1> QED
  BY <1>1, DoesGoes

LEMMA EnterGoes ==
  ASSUME AttemptTypeOK, NEW t \in Tasks, NEW program \in Programs, Enter(t, program)
  PROVE  Todo(t) = {} /\ Goes(t, {}, Elements(program))
<1>1. pc \in [Tasks -> Programs] /\ pc[t] = <<>> /\ pc' = [pc EXCEPT ![t] = program]
  BY DEF AttemptTypeOK, Programs, Someone, Enter, Idle
<1>2. Todo(t) = {}
  BY <1>1, ElementsOf DEF Todo
<1>3. Todo(t)' = Elements(program)
  BY <1>1 DEF Todo
<1> QED
  BY <1>1, <1>2, <1>3 DEF Goes, Todo

LEMMA StayGoes ==
  ASSUME AttemptTypeOK, pc' = pc
  PROVE  Goes("http", {}, {})
BY DEF AttemptTypeOK, Goes, Todo, Programs, Someone

\* The least a call can be made of.
LEMMA ProgramsOf ==
  /\ <<>> \in Programs
  /\ \A e \in Operations \X Someone : <<e>> \in Programs
  /\ \A e, f \in Operations \X Someone : <<e, f>> \in Programs
  /\ \A e, f, g \in Operations \X Someone : <<e, f, g>> \in Programs
BY DEF Programs

\* A call that is about neither the attempt nor its watchdog, taken up or gone on
\* with by task t.
Aside(t, gone, new) ==
  /\ Goes(t, gone, new)
  /\ UNCHANGED <<state, addr, error, watchdog, attempts>>
  /\ \A e \in gone : e[1] \notin {"arm", "cancel", "remove"}
  /\ \A e \in new : e[1] \notin {"disarm", "cancel", "add"}
  /\ (\E e \in new : e[1] \in {"bonding", "provisioning"}) => InFlight

LEMMA AsideKeeps ==
  ASSUME AttemptInv, NEW t \in Tasks, NEW gone, NEW new, Aside(t, gone, new)
  PROVE  /\ NoneBegun'
         /\ WatchdogInv => WatchdogInv'
         /\ AddingInv => AddingInv'
         /\ ForgottenInv /\ (addr \in RcCameras /\ slot[addr] = "none" => slot'[addr] = "none")
              => ForgottenInv'
<1> USE DEF Aside, Goes
<1>1. \A u \in Tasks : \A e \in Todo(u)' : e \in Todo(u) \/ e \in new
  OBVIOUS
<1>2. \A u \in Tasks : \A e \in Todo(u) : e[1] \in {"arm", "cancel", "remove"} => e \in Todo(u)'
  OBVIOUS
<1>3. {"http", "timer"} \subseteq Tasks /\ InFlight' = InFlight
  BY DEF Tasks, InFlight
<1>4. NoneBegun'
  BY <1>1 DEF NoneBegun, AttemptInv, WillDo, InFlight, InFlightStates
<1>5. ASSUME WatchdogInv PROVE WatchdogInv'
  <2>1. InFlight /\ created /\ ~stolen =>
          armed \/ WillDo("http", "arm")' \/ WillDo("timer", "cancel")'
    BY <1>2, <1>3, <1>5 DEF WatchdogInv, WillDo
  <2> QED
    BY <1>3, <2>1 DEF WatchdogInv
<1>6. ASSUME AddingInv PROVE AddingInv'
  <2>1. \A u \in Tasks : (WillDo(u, "add")' => WillDo(u, "add"))
                      /\ (WillDo(u, "cancel")' => WillDo(u, "cancel"))
    BY <1>1 DEF WillDo
  <2> QED
    BY <1>6, <2>1 DEF AddingInv
<1>7. ASSUME ForgottenInv, addr \in RcCameras /\ slot[addr] = "none" => slot'[addr] = "none"
      PROVE  ForgottenInv'
  BY <1>2, <1>7 DEF ForgottenInv
<1> QED
  BY <1>4, <1>5, <1>6, <1>7

WorldTypes ==
  /\ link \in [Cameras -> {"down", "connecting", "up", "closing"}]
  /\ stage \in [Cameras -> {"none", "connected", "encrypted", "identified", "done"}]
  /\ slot \in [Cameras -> {"none", "unfinished", "complete"}]

\* What a call about something else is.
AsideStep ==
  /\ \E t \in Tasks, gone, new \in SUBSET (Operations \X Someone) : Aside(t, gone, new)
  /\ WorldTypes' /\ conn' \in Someone
  /\ \A c \in RcCameras : slot[c] = "none" => slot'[c] = "none"

LEMMA CallsAside ==
  ASSUME AttemptTypeOK, NEW t \in Tasks,
         \/ Reset(t) \/ Handle(t) \/ Abort(t) \/ Drop(t) \/ Check(t)
         \/ StartConnecting(t) \/ Finish(t)
  PROVE  AsideStep
<1> USE DEF WorldTypes, world, attempt
<1>0. /\ {"arm", "remove", "reset", "handle", "abort", "drop", "check", "connect", "finish"}
           \subseteq Operations
      /\ Nobody \in Someone /\ <<>> \in Programs
  BY ProgramsOf DEF Operations, Someone
<1>1. CASE Reset(t)
  <2>1. <<<<"arm", Nobody>>>> \in Programs /\ Elements(<<<<"arm", Nobody>>>>) = {<<"arm", Nobody>>}
    BY <1>0, ProgramsOf, ElementsOf
  <2>2. PICK more \in Programs : Does(t, "reset", more) /\ Elements(more) \subseteq {<<"arm", Nobody>>}
    BY <1>0, <1>1, <2>1, ElementsOf DEF Reset
  <2>3. Goes(t, {<<"reset", Camera(t)>>}, Elements(more)) /\ Camera(t) \in Someone
    BY <2>2, DoesGoes
  <2>4. Aside(t, {<<"reset", Camera(t)>>}, Elements(more))
    BY <1>1, <2>2, <2>3 DEF Aside, Reset
  <2>5. /\ Elements(more) \in SUBSET (Operations \X Someone)
        /\ {<<"reset", Camera(t)>>} \in SUBSET (Operations \X Someone)
    BY <1>0, <2>2, <2>3
  <2> QED
    BY <1>0, <1>1, <2>4, <2>5 DEF Reset, AsideStep, AttemptTypeOK, Someone
<1>2. CASE Check(t)
  <2>1. PICK more \in Programs : /\ Does(t, "check", more)
                                /\ Elements(more) \subseteq {<<"remove", Camera(t)>>}
    <3>1. Does(t, "check", IF slot[Camera(t)] = "unfinished"
                           THEN <<<<"remove", Camera(t)>>>> ELSE <<>>)
      BY <1>2 DEF Check
    <3>2. Camera(t) \in Someone
      <4>1. pc[t] \in Programs /\ pc[t] # <<>>
        BY <3>1 DEF Does, AttemptTypeOK, Programs, Someone
      <4>2. Head(pc[t]) \in Operations \X Someone
        BY <4>1, HeadTailProperties DEF Programs
      <4> QED
        BY <4>2 DEF Camera
    <3>3. /\ <<<<"remove", Camera(t)>>>> \in Programs
          /\ Elements(<<<<"remove", Camera(t)>>>>) = {<<"remove", Camera(t)>>}
      BY <1>0, <3>2, ProgramsOf, ElementsOf
    <3> QED
      BY <1>0, <3>1, <3>3, ElementsOf
  <2>2. Goes(t, {<<"check", Camera(t)>>}, Elements(more)) /\ Camera(t) \in Someone
    BY <2>1, DoesGoes
  <2>3. Aside(t, {<<"check", Camera(t)>>}, Elements(more))
    BY <1>2, <2>1, <2>2 DEF Aside, Check
  <2>4. /\ Elements(more) \in SUBSET (Operations \X Someone)
        /\ {<<"check", Camera(t)>>} \in SUBSET (Operations \X Someone)
    BY <1>0, <2>1, <2>2
  <2> QED
    BY <1>0, <1>2, <2>3, <2>4 DEF Check, AsideStep, AttemptTypeOK, Someone
<1>3. ASSUME NEW op \in {"handle", "abort", "drop", "connect", "finish"}, Does(t, op, <<>>),
             UNCHANGED <<state, addr, error, watchdog, attempts>>
      PROVE  /\ \E u \in Tasks, gone, new \in SUBSET (Operations \X Someone) : Aside(u, gone, new)
             /\ Camera(t) \in Someone
  <2>0. Goes(t, {<<op, Camera(t)>>}, {}) /\ Camera(t) \in Someone
    <3>1. Goes(t, {<<op, Camera(t)>>}, Elements(<<>>)) /\ Camera(t) \in Someone
      BY <1>0, <1>3, DoesGoes
    <3> QED
      BY <3>1, ElementsOf
  <2>1. Aside(t, {<<op, Camera(t)>>}, {}) /\ Camera(t) \in Someone
    BY <1>3, <2>0 DEF Aside
  <2>2. {<<op, Camera(t)>>} \in SUBSET (Operations \X Someone)
    BY <1>0, <2>1
  <2> QED
    BY <2>1, <2>2
<1>4. CASE Handle(t)
  BY <1>3, <1>4 DEF Handle, AsideStep, AttemptTypeOK, Someone
<1>5. CASE Abort(t)
  BY <1>3, <1>5 DEF Abort, AsideStep, AttemptTypeOK, Someone
<1>6. CASE Drop(t)
  BY <1>3, <1>6 DEF Drop, AsideStep, AttemptTypeOK, Someone
<1>7. CASE StartConnecting(t)
  BY <1>3, <1>7 DEF StartConnecting, AsideStep, AttemptTypeOK, Someone
<1>8. CASE Finish(t)
  <2>1. /\ slot' \in [Cameras -> {"none", "unfinished", "complete"}]
        /\ \A c \in Cameras : slot[c] = "none" => slot'[c] = "none"
    BY <1>8 DEF Finish, AttemptTypeOK
  <2> QED
    BY <1>3, <1>8, <2>1 DEF Finish, AsideStep, AttemptTypeOK, Someone, Cameras
<1> QED
  BY <1>1, <1>2, <1>4, <1>5, <1>6, <1>7, <1>8

\* Taking up an event whose program is about something else.
LEMMA EnterAside ==
  ASSUME AttemptTypeOK, NEW t \in Tasks, NEW program \in Programs, Enter(t, program),
         UNCHANGED <<state, addr, error, watchdog, attempts>>,
         \A e \in Elements(program) : e[1] \notin {"disarm", "cancel", "add"},
         (\E e \in Elements(program) : e[1] \in {"bonding", "provisioning"}) => InFlight
  PROVE  \E u \in Tasks, gone, new \in SUBSET (Operations \X Someone) : Aside(u, gone, new)
<1>1. Goes(t, {}, Elements(program))
  BY EnterGoes
<1>2. Aside(t, {}, Elements(program))
  BY <1>1 DEF Aside
<1>3. Elements(program) \in SUBSET (Operations \X Someone)
  BY DEF Programs, Elements
<1> QED
  BY <1>2, <1>3

LEMMA EventsAside ==
  ASSUME AttemptTypeOK, NEW c \in BleCameras, Event(c)
  PROVE  AsideStep
<1> USE DEF WorldTypes, world, attempt
<1>0. /\ c \in Cameras /\ c \in Someone /\ c \notin RcCameras /\ <<>> \in Programs
      /\ {"http", "host", "timer", "pairer"} \subseteq Tasks
      /\ conn \in Someone
  BY ProgramsOf, PairAttemptAssumption DEF Cameras, Someone, Tasks, AttemptTypeOK
<1>a. \A op \in Operations : <<op, c>> \in Operations \X Someone
  BY <1>0
<1>b. /\ {"handle", "bonding", "fail", "provisioning", "drop",
          "remove", "reset", "finish", "success"} \subseteq Operations
  BY DEF Operations
<1> DEFINE Programme(p, ops) ==
             p \in Programs /\ \A e \in Elements(p) : e[1] \in ops
<1>c. Programme(<<>>, {})
  BY <1>0, ElementsOf
<1>d. \A op \in Operations : Programme(<<<<op, c>>>>, {op})
  BY <1>a, ProgramsOf, ElementsOf
<1>e. \A op, oq \in Operations : Programme(<<<<op, c>>, <<oq, c>>>>, {op, oq})
  BY <1>a, ProgramsOf, ElementsOf
<1>f. \A op, oq, or \in Operations :
        Programme(<<<<op, c>>, <<oq, c>>, <<or, c>>>>, {op, oq, or})
  BY <1>a, ProgramsOf, ElementsOf
<1> HIDE DEF Programme
<1>1. CASE Reconnect(c) \/ ConnectFails(c)
  <2>1. Aside("http", {}, {})
    BY <1>1, StayGoes DEF Reconnect, ConnectFails, Aside
  <2>2. link' \in [Cameras -> {"down", "connecting", "up", "closing"}]
    BY <1>1 DEF Reconnect, ConnectFails, AttemptTypeOK
  <2> QED
    BY <1>0, <1>1, <2>1, <2>2 DEF Reconnect, ConnectFails, AsideStep, AttemptTypeOK, Someone
<1>2. CASE Connected(c)
  <2>1. PICK p \in Programs : /\ Enter("host", p)
                             /\ \A e \in Elements(p) : e[1] \in {"handle", "bonding"} /\ InFlight
    BY <1>2, <1>b, <1>c, <1>e DEF Connected, Matches, Programme
  <2>2. \E u \in Tasks, gone, new \in SUBSET (Operations \X Someone) : Aside(u, gone, new)
    BY <1>0, <1>2, <2>1, EnterAside DEF Connected
  <2> QED
    BY <1>0, <1>2, <2>2 DEF Connected, AsideStep, AttemptTypeOK
<1>3. ASSUME NEW full \in BOOLEAN, Encrypted(c, full) PROVE AsideStep
  <2>1. slot' = [slot EXCEPT ![c] = IF @ = "none" /\ ~full THEN "unfinished" ELSE @]
    BY <1>3 DEF Encrypted
  <2>2. /\ slot' \in [Cameras -> {"none", "unfinished", "complete"}]
        /\ \A d \in RcCameras : slot'[d] = slot[d]
    BY <1>0, <2>1 DEF AttemptTypeOK, Cameras
  <2>3. stage' \in [Cameras -> {"none", "connected", "encrypted", "identified", "done"}]
    BY <1>3 DEF Encrypted, AttemptTypeOK
  <2>4. PICK p \in Programs :
          /\ Enter("host", p)
          /\ \A e \in Elements(p) : e[1] \in {"fail", "provisioning", "drop"}
          /\ (\E e \in Elements(p) : e[1] = "provisioning") => InFlight
    <3> DEFINE own == IF Matches(c)
                THEN <<<<IF full THEN "fail" ELSE "provisioning", c>>>> ELSE <<>>
               rest == IF full THEN <<<<"drop", c>>>> ELSE <<>>
    <3>1. Enter("host", own \o rest)
      BY <1>3 DEF Encrypted
    <3>2. /\ own \in Programs
          /\ \A e \in Elements(own) : e[1] \in {"fail", "provisioning"} /\ InFlight
      BY <1>b, <1>c, <1>d DEF Programme, Matches
    <3>3. rest \in Programs /\ \A e \in Elements(rest) : e[1] = "drop"
      BY <1>b, <1>c, <1>d DEF Programme
    <3> HIDE DEF own, rest
    <3>4. own \o rest \in Programs /\ Elements(own \o rest) = Elements(own) \cup Elements(rest)
      <4>1. own \in Seq(Operations \X Someone) /\ rest \in Seq(Operations \X Someone)
        BY <3>2, <3>3 DEF Programs
      <4> QED
        BY <4>1, ElementsConcat, ConcatProperties DEF Programs
    <3> QED
      BY <3>1, <3>2, <3>3, <3>4
  <2>5. \E u \in Tasks, gone, new \in SUBSET (Operations \X Someone) : Aside(u, gone, new)
    BY <1>0, <1>3, <2>4, EnterAside DEF Encrypted
  <2> QED
    BY <1>0, <1>3, <2>2, <2>3, <2>5 DEF Encrypted, AsideStep, AttemptTypeOK
<1>4. ASSUME NEW frozen \in BOOLEAN, HwInfo(c, frozen) PROVE AsideStep
  <2>1. PICK p \in Programs :
          /\ Enter("host", p)
          /\ \A e \in Elements(p) : e[1] \in {"fail", "drop", "remove"}
    <3>1. Programme(<<<<"fail", c>>, <<"drop", c>>, <<"remove", c>>>>,
                    {"fail", "drop", "remove"})
      BY <1>b, <1>f
    <3>2. CASE frozen
      BY <1>4, <3>1, <3>2 DEF HwInfo, Programme
    <3>3. CASE ~frozen
      BY <1>4, <1>c, <3>3 DEF HwInfo, Programme
    <3> QED
      BY <3>2, <3>3
  <2>2. \E u \in Tasks, gone, new \in SUBSET (Operations \X Someone) : Aside(u, gone, new)
    BY <1>0, <1>4, <2>1, EnterAside DEF HwInfo
  <2>3. stage' \in [Cameras -> {"none", "connected", "encrypted", "identified", "done"}]
    BY <1>4 DEF HwInfo, AttemptTypeOK
  <2> QED
    BY <1>0, <1>4, <2>2, <2>3 DEF HwInfo, AsideStep, AttemptTypeOK
<1>5. CASE RetriesExhausted(c)
  <2>1. PICK p \in Programs :
          /\ Enter("timer", p)
          /\ \A e \in Elements(p) : e[1] \in {"fail", "drop"}
    BY <1>5, <1>b, <1>e DEF RetriesExhausted, Programme
  <2>2. \E u \in Tasks, gone, new \in SUBSET (Operations \X Someone) : Aside(u, gone, new)
    BY <1>0, <1>5, <2>1, EnterAside DEF RetriesExhausted
  <2>3. stage' \in [Cameras -> {"none", "connected", "encrypted", "identified", "done"}]
    BY <1>5 DEF RetriesExhausted, AttemptTypeOK
  <2> QED
    BY <1>0, <1>5, <2>2, <2>3 DEF RetriesExhausted, AsideStep, AttemptTypeOK
<1>6. ASSUME NEW t \in {"host", "timer"}, Completes(c, t) PROVE AsideStep
  <2>1. PICK u \in {"host", "timer", "pairer"}, p \in Programs :
          /\ Enter(u, p)
          /\ \A e \in Elements(p) :
               e[1] \in {"reset", "finish", "success", "fail", "drop", "remove"}
    <3>1. CASE c \in Legacy /\ slot[c] = "unfinished"
      <4> DEFINE good == <<<<"finish", c>>, <<"success", c>>>>
                 bad == <<<<"fail", c>>, <<"drop", c>>, <<"remove", c>>>>
                 first == <<<<"reset", c>>>>
      <4>1. PICK end \in {good, bad} : Enter("pairer", first \o end)
        BY <1>6, <3>1 DEF Completes
      <4>2. /\ Programme(good, {"finish", "success"}) /\ Programme(first, {"reset"})
            /\ Programme(bad, {"fail", "drop", "remove"})
        BY <1>b, <1>d, <1>e, <1>f
      <4> HIDE DEF good, bad, first
      <4>3. /\ end \in Seq(Operations \X Someone) /\ first \in Seq(Operations \X Someone)
            /\ \A e \in Elements(first) \cup Elements(end) :
                 e[1] \in {"reset", "finish", "success", "fail", "drop", "remove"}
        BY <4>1, <4>2 DEF Programme, Programs
      <4>4. /\ first \o end \in Programs
            /\ Elements(first \o end) = Elements(first) \cup Elements(end)
        BY <4>3, ElementsConcat, ConcatProperties DEF Programs
      <4> QED
        BY <4>1, <4>3, <4>4
    <3>2. CASE ~(c \in Legacy /\ slot[c] = "unfinished")
      BY <1>6, <1>b, <1>e, <3>2 DEF Completes, Programme
    <3> QED
      BY <3>1, <3>2
  <2>2. \E v \in Tasks, gone, new \in SUBSET (Operations \X Someone) : Aside(v, gone, new)
    BY <1>0, <1>6, <2>1, EnterAside DEF Completes
  <2>3. stage' \in [Cameras -> {"none", "connected", "encrypted", "identified", "done"}]
    BY <1>6 DEF Completes, AttemptTypeOK
  <2> QED
    BY <1>0, <1>6, <2>2, <2>3 DEF Completes, AsideStep, AttemptTypeOK
<1>7. CASE Disconnected(c)
  <2>1. PICK p \in Programs : /\ Enter("host", p)
                             /\ \A e \in Elements(p) : e[1] = "fail"
    BY <1>7, <1>b, <1>c, <1>d DEF Disconnected, Programme
  <2>2. \E u \in Tasks, gone, new \in SUBSET (Operations \X Someone) : Aside(u, gone, new)
    BY <1>0, <1>7, <2>1, EnterAside DEF Disconnected
  <2> QED
    BY <1>0, <1>7, <2>2 DEF Disconnected, AsideStep, AttemptTypeOK
<1> QED
  BY <1>1, <1>2, <1>3, <1>4, <1>5, <1>6, <1>7 DEF Event

\* What a step is to keep.
Keeps ==
  /\ AttemptInv'
  /\ WatchdogInv => WatchdogInv'
  /\ AddingInv => AddingInv'
  /\ AddingInv /\ ForgottenInv => ForgottenInv'

LEMMA AsideStepKeeps == ASSUME AttemptInv, AsideStep PROVE Keeps
<1>1. PICK t \in Tasks, gone, new \in SUBSET (Operations \X Someone) : Aside(t, gone, new)
  BY DEF AsideStep
<1>2. AttemptTypeOK'
  BY <1>1 DEF AttemptInv, AttemptTypeOK, AsideStep, WorldTypes, Aside, Goes, Programs, Someone
<1>3. addr \in RcCameras /\ slot[addr] = "none" => slot'[addr] = "none"
  BY DEF AsideStep
<1> QED
  BY <1>1, <1>2, <1>3, AsideKeeps DEF Keeps, AttemptInv

LEMMA GetKeeps == ASSUME AttemptInv, Get PROVE Keeps
<1>1. \A t \in Tasks : Todo(t)' = Todo(t)
  BY DEF Get, Todo
<1>2. AttemptInv'
  BY <1>1 DEF Get, AttemptInv, AttemptTypeOK, NoneBegun, WillDo, world, States, InFlightStates
<1>3. ~InFlight'
  BY DEF Get, InFlight, InFlightStates
<1>4. AddingInv => AddingInv'
  BY <1>1 DEF AddingInv, WillDo, Get
<1>5. ForgottenInv => ForgottenInv'
  BY <1>1 DEF ForgottenInv, Get, world
<1> QED
  BY <1>2, <1>3, <1>4, <1>5 DEF Keeps, WatchdogInv

LEMMA BeginKeeps == ASSUME AttemptInv, NEW c \in Cameras, Begin(c) PROVE Keeps
<1> DEFINE second == IF c \in RcCameras THEN "add" ELSE "connect"
           program == <<<<"arm", c>>, <<second, c>>>>
<1>0. {"http", "timer"} \subseteq Tasks /\ c \in Someone
  BY DEF Tasks, Someone
<1>1. program \in Programs /\ Elements(program) = {<<"arm", c>>, <<second, c>>}
  <2>1. <<"arm", c>> \in Operations \X Someone /\ <<second, c>> \in Operations \X Someone
    BY <1>0 DEF Operations
  <2> HIDE DEF second
  <2> QED
    BY <2>1, ProgramsOf, ElementsOf
<1>2. Enter("http", program)
  BY DEF Begin
<1>3. second \in {"add", "connect"}
  OBVIOUS
<1> HIDE DEF program, second
<1>4. Todo("http") = {} /\ Goes("http", {}, {<<"arm", c>>, <<second, c>>})
  BY <1>0, <1>1, <1>2, EnterGoes DEF AttemptInv
<1>5. AttemptTypeOK'
  <2>1. /\ created' \in BOOLEAN /\ armed' \in BOOLEAN /\ old' \in BOOLEAN /\ stolen' \in BOOLEAN
        /\ overlapped' \in BOOLEAN
    BY DEF Begin, AttemptInv, AttemptTypeOK
  <2>2. begun' \in 0..MaxAttempts
    BY PairAttemptAssumption DEF Begin, AttemptInv, AttemptTypeOK
  <2>3. pc' \in [Tasks -> Seq(Operations \X Someone)]
    BY <1>4 DEF Goes, Programs
  <2>4. UNCHANGED world
    BY DEF Begin
  <2> QED
    BY <2>1, <2>2, <2>3, <2>4
       DEF Begin, AttemptInv, AttemptTypeOK, Someone, States, InFlightStates, Errors, world
<1>6. InFlight' /\ error' = "none" /\ state' = "connecting"
  BY DEF Begin, InFlight, InFlightStates
<1>7. ASSUME ~overlapped', NEW t \in Tasks, NEW op \in Ending PROVE ~WillDo(t, op)
  <2>1. ~Pending(t, op)
    BY <1>7 DEF Begin
  <2> QED
    BY <2>1, PendingIsToDo DEF AttemptInv, Ending, Operations
<1>8. \A t \in Tasks : \A e \in Todo(t)' : e \in Todo(t) \/ (t = "http" /\ e[1] \in {"arm", second})
  BY <1>4 DEF Goes
<1>9. WillDo("http", "arm")'
  BY <1>4 DEF Goes, WillDo
<1>10. WatchdogInv'
  BY <1>9 DEF WatchdogInv
<1>11. AddingInv => AddingInv'
  <2>1. \A t \in Tasks : WillDo(t, "add")' => WillDo(t, "add") \/ t = "http"
    BY <1>8 DEF WillDo
  <2>2. ~overlapped' => ~old'
    BY DEF Begin, AttemptInv, AttemptTypeOK
  <2>3. ~overlapped' => \A u \in Tasks : ~WillDo(u, "cancel")'
    BY <1>3, <1>7, <1>8 DEF WillDo, Ending
  <2> QED
    BY <1>6, <2>1, <2>2, <2>3 DEF AddingInv
<1> QED
  BY <1>5, <1>6, <1>10, <1>11 DEF Keeps, AttemptInv, NoneBegun, ForgottenInv

LEMMA TimerKeeps ==
  ASSUME AttemptInv, NEW t \in Tasks, ArmWatchdog(t) \/ DisarmWatchdog(t) PROVE Keeps
<1> DEFINE op == IF ArmWatchdog(t) THEN "arm" ELSE "disarm"
<1>1. /\ Does(t, op, <<>>) /\ op \in {"arm", "disarm"} /\ old' = FALSE
      /\ created' \in BOOLEAN /\ armed' \in BOOLEAN /\ stolen' \in BOOLEAN
      /\ op = "arm" => armed' = created'
      /\ op = "disarm" =>
           created' = created /\ stolen' = (stolen \/ (InFlight /\ armed /\ ~Pending("http", "arm")))
  BY DEF ArmWatchdog, DisarmWatchdog, AttemptInv, AttemptTypeOK
<1>2. UNCHANGED <<attempt, attempts, world>>
  BY DEF ArmWatchdog, DisarmWatchdog
<1> HIDE DEF op
<1>3. <<op, Camera(t)>> \in Todo(t) /\ Goes(t, {<<op, Camera(t)>>}, {})
  BY <1>1, EndsGoes DEF AttemptInv
<1>4. AttemptTypeOK'
  BY <1>1, <1>2, <1>3 DEF AttemptInv, AttemptTypeOK, Goes, Programs, Someone, attempt, world
<1>5. \A u \in Tasks : \A e \in Todo(u)' : e \in Todo(u)
  BY <1>3 DEF Goes
<1>6. \A u \in Tasks : \A e \in Todo(u) : e[1] # op => e \in Todo(u)'
  BY <1>3 DEF Goes
<1>7. InFlight' = InFlight /\ state' = state /\ error' = error /\ addr' = addr /\ slot' = slot
      /\ overlapped' = overlapped
  BY <1>2 DEF attempt, world, InFlight
<1>8. NoneBegun'
  BY <1>5, <1>7 DEF AttemptInv, NoneBegun, WillDo
<1>9. WatchdogInv => WatchdogInv'
  <2>0. {"http", "timer"} \subseteq Tasks
    BY DEF Tasks
  <2>1. CASE op = "arm"
    BY <1>1, <2>1 DEF WatchdogInv
  <2>2. CASE op = "disarm"
    <3>1. Pending("http", "arm") => WillDo("http", "arm")
      BY <2>0, PendingIsToDo DEF AttemptInv
    <3>2. /\ WillDo("http", "arm") => WillDo("http", "arm")'
          /\ WillDo("timer", "cancel") => WillDo("timer", "cancel")'
      BY <1>6, <2>0, <2>2 DEF WillDo
    <3> QED
      BY <1>1, <1>7, <2>2, <3>1, <3>2 DEF WatchdogInv
  <2> QED
    BY <1>1, <2>1, <2>2
<1>10. AddingInv => AddingInv'
  <2>1. \A u \in Tasks, op2 \in {"add", "cancel"} : WillDo(u, op2)' => WillDo(u, op2)
    BY <1>5 DEF WillDo
  <2> QED
    BY <1>1, <1>7, <2>1 DEF AddingInv
<1>11. ForgottenInv => ForgottenInv'
  BY <1>1, <1>6, <1>7 DEF ForgottenInv
<1> QED
  BY <1>4, <1>8, <1>9, <1>10, <1>11 DEF Keeps, AttemptInv

LEMMA OverwriteKeeps == ASSUME AttemptInv, NEW t \in Tasks, Overwrite(t) PROVE Keeps
<1>1. /\ Does(t, "overwrite", <<>>) /\ error' = "handshake_timeout"
      /\ UNCHANGED <<state, addr, conn, watchdog, attempts, world>>
  BY DEF Overwrite
<1>2. Goes(t, {<<"overwrite", Camera(t)>>}, {})
  BY <1>1, EndsGoes DEF AttemptInv
<1>3. AttemptTypeOK'
  BY <1>1, <1>2 DEF AttemptInv, AttemptTypeOK, Goes, Programs, Someone, world, Errors
<1>4. \A u \in Tasks : \A e \in Todo(u)' : e \in Todo(u)
  BY <1>2 DEF Goes
<1>5. \A u \in Tasks : \A e \in Todo(u) : e[1] # "overwrite" => e \in Todo(u)'
  BY <1>2 DEF Goes
<1>6. NoneBegun'
  BY <1>1, <1>4 DEF AttemptInv, NoneBegun, WillDo
<1>7. WatchdogInv => WatchdogInv'
  <2>1. {"http", "timer"} \subseteq Tasks
    BY DEF Tasks
  <2> QED
    BY <1>1, <1>4, <1>5, <2>1 DEF WatchdogInv, WillDo, InFlight
<1>8. AddingInv => AddingInv'
  BY <1>1, <1>4 DEF AddingInv, WillDo
<1> QED
  BY <1>1, <1>3, <1>6, <1>7, <1>8 DEF Keeps, AttemptInv, ForgottenInv

LEMMA RemoveCameraKeeps == ASSUME AttemptInv, NEW t \in Tasks, RemoveCamera(t) PROVE Keeps
<1>1. /\ Does(t, "remove", <<>>) /\ slot' = [slot EXCEPT ![Camera(t)] = "none"]
      /\ UNCHANGED <<attempt, watchdog, attempts, link, stage>>
  BY DEF RemoveCamera
<1>2. Goes(t, {<<"remove", Camera(t)>>}, {})
  BY <1>1, EndsGoes DEF AttemptInv
<1>3. AttemptTypeOK'
  BY <1>1, <1>2 DEF AttemptInv, AttemptTypeOK, Goes, Programs, Someone, attempt
<1>4. \A u \in Tasks : \A e \in Todo(u)' : e \in Todo(u)
  BY <1>2 DEF Goes
<1>5. \A u \in Tasks : \A e \in Todo(u) : e # <<"remove", Camera(t)>> => e \in Todo(u)'
  BY <1>2 DEF Goes
<1>6. InFlight' = InFlight /\ state' = state /\ error' = error /\ addr' = addr
      /\ overlapped' = overlapped /\ old' = old
  BY <1>1 DEF attempt, InFlight
<1>7. NoneBegun'
  BY <1>4, <1>6 DEF AttemptInv, NoneBegun, WillDo
<1>8. WatchdogInv => WatchdogInv'
  <2>1. {"http", "timer"} \subseteq Tasks
    BY DEF Tasks
  <2>2. \A u \in Tasks, op \in {"arm", "cancel"} : WillDo(u, op) => WillDo(u, op)'
    BY <1>5 DEF WillDo
  <2> QED
    BY <1>1, <1>4, <1>6, <2>1, <2>2 DEF WatchdogInv, WillDo
<1>9. AddingInv => AddingInv'
  BY <1>4, <1>6 DEF AddingInv, WillDo
<1>10. ASSUME ForgottenInv, error = "cancelled", addr \in RcCameras, ~overlapped
       PROVE  slot'[addr] = "none" \/ \E u \in Tasks : <<"remove", addr>> \in Todo(u)'
  <2>1. addr \in Cameras
    BY <1>10 DEF Cameras
  <2>2. CASE Camera(t) = addr
    BY <1>1, <2>1, <2>2 DEF AttemptInv, AttemptTypeOK
  <2>3. CASE Camera(t) # addr
    <3>1. slot[addr] = "none" => slot'[addr] = "none"
      BY <1>1, <2>1 DEF AttemptInv, AttemptTypeOK
    <3>2. \A u \in Tasks : <<"remove", addr>> \in Todo(u) => <<"remove", addr>> \in Todo(u)'
      BY <1>5, <2>3
    <3> QED
      BY <1>10, <3>1, <3>2 DEF ForgottenInv
  <2> QED
    BY <2>2, <2>3
<1> QED
  BY <1>3, <1>6, <1>7, <1>8, <1>9, <1>10 DEF Keeps, AttemptInv, ForgottenInv

\* An advance or a failure: what it is about, and the stopping of the watchdog once
\* the attempt is over.
LEMMA MovesKeep ==
  ASSUME AttemptInv, NEW t \in Tasks, NEW op \in Operations \ {"arm", "cancel", "remove"},
         NEW more \in {<<>>, <<<<"disarm", Nobody>>>>}, Does(t, op, more),
         state' \in States, state' \in InFlightStates => InFlight,
         InFlight /\ more # <<>> => ~InFlight',
         InFlight' => more = <<>>,
         state' \in {"unset", "idle"} => state' = state,
         error' \in Errors \ {"cancelled"} \/ error' = error,
         UNCHANGED <<addr, conn, watchdog, attempts, world>>
  PROVE  Keeps
<1>0. more \in Programs /\ Elements(more) \subseteq {<<"disarm", Nobody>>}
  <2>1. <<"disarm", Nobody>> \in Operations \X Someone
    BY DEF Operations, Someone
  <2> QED
    BY <2>1, ProgramsOf, ElementsOf
<1>1. Goes(t, {<<op, Camera(t)>>}, Elements(more))
  BY <1>0, DoesGoes DEF AttemptInv
<1>2. AttemptTypeOK'
  BY <1>1 DEF AttemptInv, AttemptTypeOK, Goes, Programs, Someone, InFlight, world
<1>3. \A u \in Tasks : \A e \in Todo(u)' : e \in Todo(u) \/ (more # <<>> /\ e[1] = "disarm")
  BY <1>0, <1>1, ElementsOf DEF Goes
<1>4. \A u \in Tasks : \A e \in Todo(u) : e[1] \in {"arm", "cancel", "remove"} => e \in Todo(u)'
  BY <1>1 DEF Goes
<1>5. NoneBegun'
  BY <1>3 DEF AttemptInv, NoneBegun, WillDo
<1>6. WatchdogInv => WatchdogInv'
  <2>1. {"http", "timer"} \subseteq Tasks /\ (InFlight' => InFlight /\ more = <<>>)
    BY DEF Tasks, InFlight
  <2> QED
    BY <1>3, <1>4, <2>1 DEF WatchdogInv, WillDo
<1>7. AddingInv => AddingInv'
  BY <1>3 DEF AddingInv, WillDo
<1>8. ForgottenInv => ForgottenInv'
  BY <1>4 DEF ForgottenInv, world
<1> QED
  BY <1>2, <1>5, <1>6, <1>7, <1>8 DEF Keeps, AttemptInv

LEMMA AdvanceKeeps ==
  ASSUME AttemptInv, NEW t \in Tasks, NEW new \in {"bonding", "provisioning", "success"},
         Advance(t, new)
  PROVE  Keeps
<1> DEFINE taken == state # "unset" /\ ~Terminal /\ Rank[new] > Rank[state]
           more == IF taken /\ new = "success" THEN <<<<"disarm", Nobody>>>> ELSE <<>>
<1>1. /\ Does(t, new, more) /\ state' = IF taken THEN new ELSE state
      /\ UNCHANGED <<addr, error, conn, watchdog, attempts, world>>
  BY DEF Advance
<1>2. state \in States /\ new \in States /\ new \in Operations \ {"arm", "cancel", "remove"}
  BY DEF AttemptInv, AttemptTypeOK, States, InFlightStates, Operations
<1>3. WillDo(t, new)
  <2>1. more \in Programs
    <3>1. <<"disarm", Nobody>> \in Operations \X Someone
      BY DEF Operations, Someone
    <3> QED
      BY <3>1, ProgramsOf
  <2>2. <<new, Camera(t)>> \in Todo(t)
    BY <1>1, <2>1, DoesGoes DEF AttemptInv
  <2> QED
    BY <2>2 DEF WillDo
<1>4. ~Terminal => state \in {"unset", "idle"} \cup InFlightStates
  BY <1>2 DEF Terminal, States
<1>5. taken /\ new # "success" => InFlight
  BY <1>3, <1>4 DEF AttemptInv, NoneBegun, InFlight
<1>6. /\ more \in {<<>>, <<<<"disarm", Nobody>>>>}
      /\ more # <<>> => state' = "success"
      /\ state' = state \/ (state' = new /\ taken)
  BY <1>1
<1>7. "success" \notin InFlightStates /\ "success" \notin {"unset", "idle"}
      /\ new \notin {"unset", "idle"}
  BY DEF InFlightStates
<1>8. /\ state' \in States /\ (state' \in InFlightStates => InFlight)
      /\ (InFlight /\ more # <<>> => ~InFlight')
      /\ (InFlight' => more = <<>>)
      /\ (state' \in {"unset", "idle"} => state' = state)
  BY <1>2, <1>5, <1>6, <1>7 DEF InFlight
<1> HIDE DEF more, taken
<1> QED
  BY <1>1, <1>2, <1>6, <1>8, MovesKeep

LEMMA FailKeeps ==
  ASSUME AttemptInv, NEW t \in Tasks, Fail(t)
  PROVE  Keeps
<1> DEFINE more == IF InFlight THEN <<<<"disarm", Nobody>>>> ELSE <<>>
<1>1. /\ Does(t, "fail", more)
      /\ state' = IF InFlight THEN "failed" ELSE state
      /\ error' = IF InFlight THEN "other" ELSE error
      /\ UNCHANGED <<addr, conn, watchdog, attempts, world>>
  BY DEF Fail
<1>2. /\ "fail" \in Operations \ {"arm", "cancel", "remove"}
      /\ "other" \in Errors \ {"cancelled"} /\ state \in States
      /\ "failed" \in States \ ({"unset", "idle"} \cup InFlightStates)
  BY DEF Operations, Errors, AttemptInv, AttemptTypeOK, States, InFlightStates
<1>3. /\ state' \in States /\ (state' \in InFlightStates => InFlight)
      /\ ~InFlight' /\ (state' \in {"unset", "idle"} => state' = state)
      /\ (error' \in Errors \ {"cancelled"} \/ error' = error)
      /\ more \in {<<>>, <<<<"disarm", Nobody>>>>}
  BY <1>1, <1>2 DEF InFlight
<1> HIDE DEF more
<1> QED
  BY <1>1, <1>2, <1>3, MovesKeep

LEMMA CleanUpProgram ==
  ASSUME AttemptTypeOK, InFlight
  PROVE  /\ CleanUp \in Programs
         /\ \A e \in Elements(CleanUp) :
              e[1] \in {"disarm", "remove", "abort", "drop", "check"}
         /\ addr \in RcCameras => <<"remove", addr>> \in Elements(CleanUp)
<1> DEFINE One(op, c) == <<<<op, c>>>>
           dropping == IF conn # Nobody THEN One("drop", conn) ELSE <<>>
           checking == IF state = "provisioning" THEN One("check", addr) ELSE <<>>
           aborting == One("abort", addr) \o dropping
           ble == aborting \o checking
           own == IF addr \in RcCameras THEN One("remove", addr) ELSE ble
<1>1. /\ addr \in Someone /\ conn \in Someone /\ Nobody \in Someone
      /\ {"disarm", "remove", "abort", "drop", "check"} \subseteq Operations
  BY DEF AttemptTypeOK, Someone, Operations
<1>2. \A op \in {"disarm", "remove", "abort", "drop", "check"}, c \in Someone :
        One(op, c) \in Seq(Operations \X Someone) /\ Elements(One(op, c)) = {<<op, c>>}
  BY <1>1, ElementsOf
<1>3. <<>> \in Seq(Operations \X Someone) /\ Elements(<<>>) = {}
  BY ElementsOf
<1>4. CleanUp = One("disarm", Nobody) \o own
  BY DEF CleanUp
<1> HIDE DEF One
<1>5. /\ dropping \in Seq(Operations \X Someone) /\ \A e \in Elements(dropping) : e[1] = "drop"
      /\ checking \in Seq(Operations \X Someone) /\ \A e \in Elements(checking) : e[1] = "check"
  <2>1. /\ One("drop", conn) \in Seq(Operations \X Someone)
        /\ Elements(One("drop", conn)) = {<<"drop", conn>>}
        /\ One("check", addr) \in Seq(Operations \X Someone)
        /\ Elements(One("check", addr)) = {<<"check", addr>>}
    BY <1>1, <1>2
  <2>2. /\ \A e \in Elements(One("drop", conn)) : e[1] = "drop"
        /\ \A e \in Elements(One("check", addr)) : e[1] = "check"
        /\ \A e \in Elements(<<>>) : FALSE
    BY <1>3, <2>1
  <2>3. dropping \in {<<>>, One("drop", conn)} /\ checking \in {<<>>, One("check", addr)}
    OBVIOUS
  <2> HIDE DEF dropping, checking
  <2>4. dropping \in Seq(Operations \X Someone) /\ \A e \in Elements(dropping) : e[1] = "drop"
    <3>1. CASE dropping = <<>>
      BY <1>3, <2>2, <3>1
    <3>2. CASE dropping = One("drop", conn)
      BY <2>1, <2>2, <3>2
    <3> QED
      BY <2>3, <3>1, <3>2
  <2>5. checking \in Seq(Operations \X Someone) /\ \A e \in Elements(checking) : e[1] = "check"
    <3>1. CASE checking = <<>>
      BY <1>3, <2>2, <3>1
    <3>2. CASE checking = One("check", addr)
      BY <2>1, <2>2, <3>2
    <3> QED
      BY <2>3, <3>1, <3>2
  <2> QED
    BY <2>4, <2>5
<1> HIDE DEF dropping, checking
<1>6. /\ One("abort", addr) \in Seq(Operations \X Someone)
      /\ \A e \in Elements(One("abort", addr)) : e[1] = "abort"
  BY <1>1, <1>2
<1>7. /\ aborting \in Seq(Operations \X Someone)
      /\ \A e \in Elements(aborting) : e[1] \in {"abort", "drop"}
  <2>1. Elements(aborting)
          = Elements(One("abort", addr)) \cup Elements(dropping)
    BY <1>5, <1>6, ElementsConcat
  <2> QED
    BY <1>5, <1>6, <2>1, ConcatProperties
<1> HIDE DEF aborting
<1>8. /\ ble \in Seq(Operations \X Someone)
      /\ \A e \in Elements(ble) : e[1] \in {"abort", "drop", "check"}
  <2>1. Elements(ble) = Elements(aborting) \cup Elements(checking)
    BY <1>5, <1>7, ElementsConcat
  <2> QED
    BY <1>5, <1>7, <2>1, ConcatProperties
<1> HIDE DEF ble
<1>9. /\ own \in Seq(Operations \X Someone)
      /\ \A e \in Elements(own) : e[1] \in {"remove", "abort", "drop", "check"}
      /\ addr \in RcCameras => Elements(own) = {<<"remove", addr>>}
  BY <1>1, <1>2, <1>8
<1> HIDE DEF own
<1>10. /\ One("disarm", Nobody) \o own \in Seq(Operations \X Someone)
       /\ Elements(One("disarm", Nobody) \o own)
            = Elements(One("disarm", Nobody)) \cup Elements(own)
  <2>1. One("disarm", Nobody) \in Seq(Operations \X Someone)
    BY <1>1, <1>2
  <2> QED
    BY <1>9, <2>1, ElementsConcat, ConcatProperties
<1>11. Elements(One("disarm", Nobody)) = {<<"disarm", Nobody>>}
  BY <1>1, <1>2
<1> QED
  BY <1>4, <1>9, <1>10, <1>11 DEF Programs

LEMMA CancelKeeps == ASSUME AttemptInv, NEW t \in Tasks, Cancel(t) PROVE Keeps
<1> DEFINE more == IF InFlight THEN CleanUp ELSE <<>>
<1>1. /\ Does(t, "cancel", more)
      /\ state' = IF InFlight THEN "failed" ELSE state
      /\ error' = IF InFlight THEN "cancelled" ELSE error
      /\ UNCHANGED <<addr, conn, watchdog, attempts, world>>
  BY DEF Cancel
<1>2. /\ more \in Programs
      /\ \A e \in Elements(more) : e[1] \in {"disarm", "remove", "abort", "drop", "check"}
      /\ InFlight /\ addr \in RcCameras => <<"remove", addr>> \in Elements(more)
  BY CleanUpProgram, ProgramsOf, ElementsOf DEF AttemptInv
<1> HIDE DEF more
<1>3. <<"cancel", Camera(t)>> \in Todo(t) /\ Goes(t, {<<"cancel", Camera(t)>>}, Elements(more))
  BY <1>1, <1>2, DoesGoes DEF AttemptInv
<1>4. AttemptTypeOK'
  BY <1>1, <1>3 DEF AttemptInv, AttemptTypeOK, Goes, Programs, Someone, InFlight, InFlightStates,
     States, Errors, world
<1>5. ~InFlight' /\ (state' \in {"unset", "idle"} => state' = state)
  BY <1>1 DEF InFlight, InFlightStates
<1>6. \A u \in Tasks : \A e \in Todo(u)' :
        e \in Todo(u) \/ e[1] \in {"disarm", "remove", "abort", "drop", "check"}
  BY <1>2, <1>3 DEF Goes
<1>7. NoneBegun'
  BY <1>5, <1>6 DEF AttemptInv, NoneBegun, WillDo
<1>8. AddingInv => AddingInv'
  <2>1. \A u \in Tasks : WillDo(u, "add")' => WillDo(u, "add")
    BY <1>6 DEF WillDo
  <2>2. WillDo(t, "cancel")
    BY <1>3 DEF WillDo
  <2> QED
    BY <1>1, <2>1, <2>2 DEF AddingInv
<1>9. ForgottenInv => ForgottenInv'
  <2>1. \A u \in Tasks : \A e \in Todo(u) : e[1] = "remove" => e \in Todo(u)'
    BY <1>3 DEF Goes
  <2>2. CASE InFlight
    BY <1>1, <1>2, <1>3, <2>2 DEF ForgottenInv, Goes
  <2>3. CASE ~InFlight
    BY <1>1, <2>1, <2>3 DEF ForgottenInv, world
  <2> QED
    BY <2>2, <2>3
<1> QED
  BY <1>4, <1>5, <1>7, <1>8, <1>9 DEF Keeps, AttemptInv, WatchdogInv

\* The two ways to a cancellation.
LEMMA CancellingKeeps ==
  ASSUME AttemptInv, UserCancels \/ WatchdogFires
  PROVE  Keeps
<1>0. {"http", "timer"} \subseteq Tasks /\ {"cancel", "overwrite"} \subseteq Operations
      /\ Nobody \in Someone
  BY DEF Tasks, Operations, Someone
<1>1. PICK t \in {"http", "timer"} : IF UserCancels THEN t = "http" ELSE t = "timer"
  OBVIOUS
<1>2. PICK program \in {<<>>, <<<<"cancel", Nobody>>>>,
                        <<<<"cancel", Nobody>>, <<"overwrite", Nobody>>>>} :
        /\ Enter(t, program)
        /\ t = "timer" => armed' = FALSE /\ old' = FALSE /\ RunsOut
        /\ t = "http" => armed' = armed /\ old' = old
        /\ created' = created /\ stolen' = stolen
        /\ InFlight => program # <<>>
        /\ UNCHANGED <<attempt, attempts, world>>
  BY <1>1 DEF UserCancels, WatchdogFires
<1>3. /\ program \in Programs
      /\ Elements(program) \subseteq {<<"cancel", Nobody>>, <<"overwrite", Nobody>>}
      /\ program # <<>> => <<"cancel", Nobody>> \in Elements(program)
      /\ \A e \in Elements(program) : e[1] \in {"cancel", "overwrite"}
  <2>1. <<"cancel", Nobody>> \in Operations \X Someone /\ <<"overwrite", Nobody>> \in Operations \X Someone
    BY <1>0
  <2> QED
    <3>1. /\ program \in Programs
          /\ Elements(program) \subseteq {<<"cancel", Nobody>>, <<"overwrite", Nobody>>}
          /\ program # <<>> => <<"cancel", Nobody>> \in Elements(program)
      BY <2>1, ProgramsOf, ElementsOf
    <3> QED
      BY <3>1
<1>4. Todo(t) = {} /\ Goes(t, {}, Elements(program))
  BY <1>0, <1>2, <1>3, <1>1, EnterGoes DEF AttemptInv
<1>5. AttemptTypeOK'
  BY <1>2, <1>4 DEF AttemptInv, AttemptTypeOK, Goes, Programs, Someone, attempt, world
<1>6. \A u \in Tasks : \A e \in Todo(u)' : e \in Todo(u) \/ e[1] \in {"cancel", "overwrite"}
  BY <1>3, <1>4 DEF Goes
<1>7. \A u \in Tasks : \A e \in Todo(u) : e \in Todo(u)'
  BY <1>4 DEF Goes
<1>8. InFlight' = InFlight /\ state' = state /\ error' = error /\ addr' = addr /\ slot' = slot
  BY <1>2 DEF attempt, world, InFlight
<1>9. NoneBegun'
  BY <1>6, <1>8 DEF AttemptInv, NoneBegun, WillDo
<1>10. WatchdogInv => WatchdogInv'
  <2>2. CASE t = "timer"
    <3>1. InFlight => <<"cancel", Nobody>> \in Todo("timer")'
      BY <1>2, <1>3, <1>4, <2>2 DEF Goes
    <3>2. InFlight => WillDo("timer", "cancel")'
      BY <3>1 DEF WillDo
    <3> QED
      BY <1>8, <3>2 DEF WatchdogInv
  <2>3. CASE t = "http"
    BY <1>0, <1>2, <1>1, <1>7, <1>8, <2>3 DEF WatchdogInv, WillDo
  <2> QED
    BY <1>1, <2>2, <2>3
<1>11. AddingInv => AddingInv'
  <2>1. ASSUME AddingInv, ~overlapped PROVE ~WillDo("http", "add") /\ ~old
    <3>1. CASE t = "http"
      BY <1>4, <2>1, <3>1 DEF AddingInv, WillDo
    <3>2. CASE t = "timer"
      <4>1. ~Pending("http", "add")
        BY <1>2, <2>1, <3>2 DEF RunsOut, AddingInv
      <4> QED
        BY <1>0, <2>1, <4>1, PendingIsToDo DEF AttemptInv, AddingInv
    <3> QED
      BY <1>1, <3>1, <3>2
  <2>2. \A u \in Tasks : WillDo(u, "add")' => WillDo(u, "add")
    BY <1>6 DEF WillDo
  <2>3. /\ overlapped' = overlapped
        /\ old => old \/ old'
        /\ old' => old
    BY <1>1, <1>2 DEF AttemptInv, AttemptTypeOK
  <2> QED
    BY <2>1, <2>2, <2>3 DEF AddingInv
<1>12. ForgottenInv => ForgottenInv'
  BY <1>2, <1>7, <1>8 DEF ForgottenInv
<1> QED
  BY <1>5, <1>9, <1>10, <1>11, <1>12 DEF Keeps, AttemptInv

LEMMA AddRcKeeps ==
  ASSUME AttemptInv, NEW t \in Tasks, NEW full \in BOOLEAN, AddRc(t, full)
  PROVE  Keeps
<1> DEFINE c == Camera(t)
           more == IF full /\ Matches(c) THEN <<<<"fail", c>>>> ELSE <<>>
<1>1. /\ Does(t, "add", more)
      /\ slot' = IF full THEN slot ELSE [slot EXCEPT ![c] = "complete"]
      /\ UNCHANGED <<attempt, watchdog, attempts, link, stage>>
  BY DEF AddRc
<1>2. c \in Someone
  <2>1. pc[t] \in Programs /\ pc[t] # <<>>
    BY <1>1 DEF Does, AttemptInv, AttemptTypeOK, Programs, Someone
  <2>2. Head(pc[t]) \in Operations \X Someone
    BY <2>1, HeadTailProperties DEF Programs
  <2> QED
    BY <2>2 DEF Camera
<1>3. /\ more \in Programs /\ \A e \in Elements(more) : e[1] = "fail"
      /\ Elements(more) \in SUBSET (Operations \X Someone)
  <2>1. <<"fail", c>> \in Operations \X Someone
    BY <1>2 DEF Operations
  <2> HIDE DEF c
  <2> QED
    BY <2>1, ProgramsOf, ElementsOf
<1> HIDE DEF more, c
<1>4. <<"add", c>> \in Todo(t) /\ Goes(t, {<<"add", c>>}, Elements(more))
  BY <1>1, <1>3, DoesGoes DEF AttemptInv, c
<1>5. Aside(t, {<<"add", c>>}, Elements(more))
  BY <1>1, <1>3, <1>4 DEF Aside, attempt
<1>6. AttemptTypeOK'
  BY <1>1, <1>4 DEF AttemptInv, AttemptTypeOK, Goes, Programs, Someone, attempt
<1>7. AddingInv /\ ~overlapped' => error' # "cancelled"
  BY <1>1, <1>4 DEF AddingInv, WillDo, attempt
<1> QED
  BY <1>5, <1>6, <1>7, AsideKeeps DEF Keeps, AttemptInv, ForgottenInv

LEMMA RcReplyKeeps == ASSUME AttemptInv, NEW c \in RcCameras, RcReply(c) PROVE Keeps
<1>1. /\ Enter("work", <<<<"success", c>>>>) /\ UNCHANGED <<attempt, watchdog, attempts, world>>
  BY DEF RcReply
<1>2. /\ <<<<"success", c>>>> \in Programs
      /\ Elements(<<<<"success", c>>>>) = {<<"success", c>>}
      /\ "work" \in Tasks
  <2>1. <<"success", c>> \in Operations \X Someone
    BY DEF Operations, Someone, Cameras
  <2> QED
    BY <2>1, ProgramsOf, ElementsOf DEF Tasks
<1>3. \E u \in Tasks, gone, new \in SUBSET (Operations \X Someone) : Aside(u, gone, new)
  <2> DEFINE program == <<<<"success", c>>>>
  <2>1. Enter("work", program) /\ program \in Programs /\ Elements(program) = {<<"success", c>>}
    BY <1>1, <1>2
  <2> HIDE DEF program
  <2>2. UNCHANGED <<state, addr, error, watchdog, attempts>>
    BY <1>1 DEF attempt
  <2>3. \A e \in Elements(program) : e[1] = "success"
    BY <2>1
  <2> QED
    BY <1>2, <2>1, <2>2, <2>3, EnterAside DEF AttemptInv
<1>4. AsideStep
  BY <1>1, <1>3 DEF AsideStep, WorldTypes, world, attempt, AttemptInv, AttemptTypeOK, Someone
<1> QED
  BY <1>4, AsideStepKeeps

LEMMA AttemptStep == ASSUME AttemptInv, [AttemptNext]_attemptVars PROVE Keeps
<1>1. ASSUME NEW t \in Tasks, Run(t) PROVE Keeps
  <2>1. CASE PairAttemptStep(t)
    BY <2>1, CallsAside, AsideStepKeeps, TimerKeeps, CancelKeeps, RemoveCameraKeeps,
       OverwriteKeeps, AdvanceKeeps, FailKeeps DEF PairAttemptStep, AttemptInv
  <2>2. CASE DriverStep(t)
    BY <2>2, CallsAside, AsideStepKeeps, AddRcKeeps DEF DriverStep, AttemptInv
  <2> QED
    BY <1>1, <2>1, <2>2 DEF Run
<1>2. CASE UNCHANGED attemptVars
  <2>1. \A t \in Tasks : Todo(t)' = Todo(t)
    BY <1>2 DEF attemptVars, Todo
  <2>2. AttemptTypeOK'
    BY <1>2 DEF attemptVars, AttemptInv, AttemptTypeOK, Cameras
  <2>3. \A t \in Tasks, op \in Operations : WillDo(t, op)' = WillDo(t, op)
    BY <2>1 DEF WillDo
  <2>4. /\ {"bonding", "provisioning", "disarm", "arm", "cancel", "add"} \subseteq Operations
        /\ {"http", "timer"} \subseteq Tasks
    BY DEF Operations, Tasks
  <2>5. NoneBegun'
    BY <1>2, <2>3, <2>4 DEF attemptVars, AttemptInv, NoneBegun
  <2>6. WatchdogInv => WatchdogInv'
    BY <1>2, <2>3, <2>4 DEF attemptVars, WatchdogInv, InFlight
  <2>7. AddingInv => AddingInv'
    BY <1>2, <2>3, <2>4 DEF attemptVars, AddingInv
  <2>8. ForgottenInv => ForgottenInv'
    BY <1>2, <2>1 DEF attemptVars, ForgottenInv
  <2> QED
    BY <2>2, <2>5, <2>6, <2>7, <2>8 DEF Keeps, AttemptInv
<1>3. ASSUME NEW c \in BleCameras, Event(c) PROVE Keeps
  BY <1>3, EventsAside, AsideStepKeeps DEF AttemptInv
<1> QED
  BY <1>1, <1>2, <1>3, GetKeeps, BeginKeeps, CancellingKeeps, RcReplyKeeps DEF AttemptNext

LEMMA InitAttempt == AttemptInit => AttemptInv /\ WatchdogInv /\ AddingInv /\ ForgottenInv
<1> SUFFICES ASSUME AttemptInit PROVE AttemptInv /\ WatchdogInv /\ AddingInv /\ ForgottenInv
  OBVIOUS
<1>1. \A t \in Tasks : pc[t] = <<>> /\ Todo(t) = {}
  BY ElementsOf DEF AttemptInit, Todo
<1>2. AttemptTypeOK
  <2>1. <<>> \in Programs
    BY ProgramsOf
  <2>2. pc \in [Tasks -> Programs]
    BY <2>1 DEF AttemptInit
  <2>3. begun \in 0..MaxAttempts
    BY PairAttemptAssumption DEF AttemptInit
  <2>4. state \in States /\ state \notin InFlightStates /\ error \in Errors
    BY DEF AttemptInit, States, InFlightStates, Errors
  <2>5. slot \in [Cameras -> {"none", "unfinished", "complete"}]
    BY DEF AttemptInit
  <2> QED
    BY <2>2, <2>3, <2>4, <2>5 DEF AttemptInit, AttemptTypeOK, Programs, Someone
<1> QED
  BY <1>1, <1>2 DEF AttemptInit, AttemptInv, NoneBegun, WatchdogInv, AddingInv, ForgottenInv,
     WillDo, InFlight, InFlightStates

\* The variables of pair_attempt.c and of its drivers keep their ranges.
THEOREM AttemptTyped == AttemptSpec => []AttemptTypeOK
<1>1. AttemptInv /\ [AttemptNext]_attemptVars => AttemptInv'
  BY AttemptStep DEF Keeps
<1> QED
  BY InitAttempt, <1>1, PTL DEF AttemptSpec, AttemptInv

\* A result shown to the web page stays until the next attempt begins.
THEOREM ResultSticks == AttemptSpec => ResultIsSticky
<1>1. AttemptTypeOK /\ [AttemptNext]_attemptVars
        => [Terminal /\ begun' = begun => state' = state]_attemptVars
  <2> SUFFICES ASSUME AttemptTypeOK, AttemptNext, Terminal, begun' = begun PROVE state' = state
    OBVIOUS
  <2>1. ~InFlight /\ state # "unset"
    BY DEF Terminal, InFlight, InFlightStates
  <2>2. ASSUME NEW c \in Cameras, Begin(c) PROVE FALSE
    BY <2>2 DEF Begin, AttemptTypeOK
  <2>3. ASSUME NEW t \in Tasks, Run(t) PROVE state' = state
    BY <2>1, <2>3 DEF Run, PairAttemptStep, DriverStep, ArmWatchdog, DisarmWatchdog, Reset,
       Handle, Cancel, Abort, Drop, Check, RemoveCamera, Overwrite, Advance, Fail,
       StartConnecting, Finish, AddRc, attempt
  <2>4. ASSUME NEW c \in BleCameras, Event(c) PROVE state' = state
    BY <2>4 DEF Event, Reconnect, ConnectFails, Connected, Disconnected, RetriesExhausted,
       Encrypted, HwInfo, Completes, attempt
  <2> QED
    BY <2>1, <2>2, <2>3, <2>4 DEF AttemptNext, Get, UserCancels, WatchdogFires, RcReply, attempt
<1> QED
  BY <1>1, AttemptTyped, PTL DEF AttemptSpec, ResultIsSticky

LEMMA AttemptInvariant ==
  AttemptSpec => [](AttemptInv /\ WatchdogInv /\ AddingInv /\ ForgottenInv)
<1> DEFINE Inv == AttemptInv /\ WatchdogInv /\ AddingInv /\ ForgottenInv
<1>1. Inv /\ [AttemptNext]_attemptVars => Inv'
  BY AttemptStep DEF Keeps
<1> QED
  BY InitAttempt, <1>1, PTL DEF AttemptSpec

\* pair_attempt.c: in no order of the five tasks is an attempt in flight without its
\* watchdog, except where no timer could be created or the end of an earlier attempt has
\* stopped it.
THEOREM AttemptCovered == AttemptSpec => []WatchdogCovers
<1>1. AttemptInv /\ WatchdogInv => WatchdogCovers
  BY PendingIsToDo DEF AttemptInv, WatchdogInv, WatchdogCovers, Tasks
<1> QED
  BY <1>1, AttemptInvariant, PTL

\* The camera of a cancelled Wi-Fi attempt is removed, or about to be, if the attempt
\* began when the one before it was cleaned up.
THEOREM CancelledForgotten == AttemptSpec => []CancelledRcForgotten
<1>1. AttemptInv /\ ForgottenInv => CancelledRcForgotten
  <2>1. \A t \in Tasks : <<"remove", addr>> \in Todo(t) => WillDo(t, "remove")
    BY DEF WillDo
  <2> QED
    BY <2>1, PendingIsToDo DEF AttemptInv, ForgottenInv, CancelledRcForgotten
<1> QED
  BY <1>1, AttemptInvariant, PTL
=============================================================================

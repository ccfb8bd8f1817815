--------------------------- MODULE CanManagerProofs ---------------------------
(***************************************************************************)
(* What can_manager.c keeps true: of CanBus for queues of every depth, of  *)
(* CanStore for every set of channels and every bound.                     *)
(***************************************************************************)
EXTENDS CanBus, CanStore, TLAPS

(***************************************************************************)
(* CanBus: the receive, recovery and timer tasks.                          *)
(***************************************************************************)

\* Each part is preserved given the types; no further strengthening is needed.
BusInv == TypeOK /\ KnownIsWatched /\ OffIsRemembered

\* An event put into the state queue leaves a well-typed queue that holds all
\* it held before, and a dropped bus-off event leaves its trace.
LEMMA QueueKeeps ==
    ASSUME TypeOK, NEW e \in Events, Queue(e)
    PROVE  /\ stateq' \in Seq(Events) /\ Len(stateq') <= StateDepth
           /\ lost' \in BOOLEAN /\ (lost => lost')
           /\ \A i \in 1..Len(stateq) :
                 i \in 1..Len(stateq') /\ stateq'[i] = stateq[i]
           /\ e = "off" =>
                 lost' \/ \E i \in 1..Len(stateq') : stateq'[i] = "off"
<1>1. CASE Len(stateq) < StateDepth
  <2>1. stateq' = Append(stateq, e) /\ lost' = lost
    BY <1>1 DEF Queue
  <2>2. /\ stateq' \in Seq(Events) /\ Len(stateq') = Len(stateq) + 1
        /\ \A i \in 1..Len(stateq) : stateq'[i] = stateq[i]
        /\ stateq'[Len(stateq) + 1] = e
    BY <2>1 DEF TypeOK
  <2>3. Len(stateq) \in Nat /\ Len(stateq') <= StateDepth
    BY <1>1, <2>2, DepthsAssumption DEF TypeOK
  <2> QED
    BY <2>1, <2>2, <2>3 DEF TypeOK
<1>2. CASE ~(Len(stateq) < StateDepth)
  BY <1>2 DEF Queue, TypeOK
<1> QED
  BY <1>1, <1>2

\* Taking the first event leaves the others queued.
LEMMA TakeKeeps ==
    ASSUME TypeOK, stateq # << >>, stateq' = Tail(stateq)
    PROVE  /\ stateq' \in Seq(Events) /\ Len(stateq') <= StateDepth
           /\ \A i \in 1..Len(stateq) : i = 1 \/
                 (i - 1 \in 1..Len(stateq') /\ stateq'[i - 1] = stateq[i])
           /\ Head(stateq) = stateq[1]
<1>1. stateq \in Seq(Events) /\ Len(stateq) \in Nat \ {0}
  BY DEF TypeOK
<1>2. Tail(stateq) \in Seq(Events) /\ Len(Tail(stateq)) = Len(stateq) - 1
  BY <1>1
<1>3. \A i \in 1..Len(stateq) - 1 : Tail(stateq)[i] = stateq[i + 1]
  BY <1>1
<1>4. Len(stateq') <= StateDepth
  BY <1>1, <1>2, DepthsAssumption DEF TypeOK
<1> QED
  BY <1>1, <1>2, <1>3, <1>4

LEMMA InitBusInv == Init => BusInv
<1> SUFFICES ASSUME Init PROVE BusInv
  OBVIOUS
<1>1. stateq \in Seq(Events) /\ rxq \in Seq(Frames)
      /\ Len(stateq) <= StateDepth /\ Len(rxq) <= RxDepth
  BY DepthsAssumption DEF Init
<1>2. rx \in [at : {"idle", "request", "gate", "set", "rearm", "drive"},
             frame : Frames] /\ rx.at = "idle"
  BY DEF Init, Idle, Frames
<1> QED
  BY <1>1, <1>2 DEF Init, BusInv, TypeOK, KnownIsWatched, OffIsRemembered, Known

\* Types.
LEMMA TypeStep == TypeOK /\ [Next]_vars => TypeOK'
<1> SUFFICES ASSUME TypeOK, [Next]_vars PROVE TypeOK'
  OBVIOUS
<1>a. ASSUME NEW e \in Events, Queue(e)
      PROVE  stateq' \in Seq(Events) /\ Len(stateq') <= StateDepth
             /\ lost' \in BOOLEAN
  BY <1>a, QueueKeeps
<1>b. {"off", "other"} \subseteq Events
  BY DEF Events
<1> USE DEF TypeOK, Frames, Known, rec, bus
<1>1. CASE BusOff
  <2>1. txEnabled' \in BOOLEAN
    BY <1>1, Zenon DEF BusOff
  <2> QED
    BY <2>1, <1>1, <1>a, <1>b DEF BusOff
<1>2. CASE ErrorState
  BY <1>2, <1>a, <1>b DEF ErrorState
<1>3. CASE BusRecovers
  BY <1>3, <1>a, <1>b DEF BusRecovers
<1>4. CASE RecoveryTakes
  BY <1>4, TakeKeeps DEF RecoveryTakes
<1>5. CASE Recover
  BY <1>5 DEF Recover
<1>6. ASSUME NEW f \in Frames, Receive(f) PROVE TypeOK'
  <2>1. rxq' \in Seq(Frames)
    BY <1>6 DEF Receive
  <2>2. Len(rxq') <= RxDepth
    <3>1. CASE Len(rxq) < RxDepth
      <4>1. Len(rxq') = Len(rxq) + 1 /\ Len(rxq) \in Nat
        BY <1>6, <3>1 DEF Receive
      <4> QED
        BY <3>1, <4>1, DepthsAssumption
    <3>2. CASE ~(Len(rxq) < RxDepth)
      BY <1>6, <3>2 DEF Receive
    <3> QED
      BY <3>1, <3>2
  <2> QED
    BY <1>6, <2>1, <2>2 DEF Receive
<1>7. CASE FallsSilent
  <2>1. talking' \in BOOLEAN
    BY <1>7, Zenon DEF FallsSilent
  <2> QED
    BY <2>1, <1>7 DEF FallsSilent
<1>8. CASE RxTakes
  <2>1. Head(rxq) \in Frames /\ Tail(rxq) \in Seq(Frames)
        /\ Len(Tail(rxq)) <= RxDepth
    <3>1. Len(rxq) \in Nat \ {0} /\ Len(Tail(rxq)) = Len(rxq) - 1
      BY <1>8 DEF RxTakes
    <3> QED
      BY <1>8, <3>1, DepthsAssumption DEF RxTakes
  <2>2. rx' \in [at : {"idle", "request", "gate", "set", "rearm", "drive"},
                frame : Frames]
        /\ (rx'.at # "request" => rx'.frame \in Known)
    BY <1>8, <2>1 DEF RxTakes
  <2> QED
    BY <1>8, <2>1, <2>2 DEF RxTakes
<1>9. CASE RequestShutdown
  BY <1>9 DEF RequestShutdown, Idle
<1>10. CASE Gate
  BY <1>10 DEF Gate, Idle
<1>11. CASE SetState
  BY <1>11 DEF SetState
<1>12. CASE Rearm
  <2>1. armed' \in BOOLEAN
    BY <1>12, Zenon DEF Rearm
  <2> QED
    BY <2>1, <1>12 DEF Rearm, Idle
<1>13. CASE Drive
  <2>1. left' \in BOOLEAN
    BY <1>13, Zenon DEF Drive
  <2> QED
    BY <2>1, <1>13 DEF Drive, Idle
<1>14. CASE WatchdogDue
  <2>1. armed' \in BOOLEAN
    BY <1>14, Zenon DEF WatchdogDue
  <2> QED
    BY <2>1, <1>14 DEF WatchdogDue
<1>15. CASE WatchdogForgets
  BY <1>15 DEF WatchdogForgets
<1>16. CASE WatchdogReleases
  <2>1. left' \in BOOLEAN
    BY <1>16, Zenon DEF WatchdogReleases
  <2> QED
    BY <2>1, <1>16 DEF WatchdogReleases
<1>21. ASSUME NEW enabled \in BOOLEAN, SetAuto(enabled) PROVE TypeOK'
  BY <1>21 DEF SetAuto
<1>22. CASE Shutter
  <2>1. left' \in BOOLEAN
    BY <1>22, Zenon DEF Shutter
  <2> QED
    BY <2>1, <1>22 DEF Shutter
<1>17. CASE TxGate
  BY <1>17 DEF TxGate
<1>18. CASE TxSend
  BY <1>18 DEF TxSend
<1>19. CASE ShutdownCompletes
  BY <1>19 DEF ShutdownCompletes
<1>20. CASE UNCHANGED vars
  BY <1>20 DEF vars
<1> QED
  BY <1>1, <1>2, <1>3, <1>4, <1>5, <1>6, <1>7, <1>8, <1>9, <1>10, <1>11,
     <1>12, <1>13, <1>14, <1>15, <1>16, <1>17, <1>18, <1>19, <1>20, <1>21,
     <1>22 DEF Next, Handle, Watchdog, Web

\* The watchdog: only the handler's and the timer task's steps touch what the
\* invariant speaks of.
LEMMA WatchedStep ==
    TypeOK /\ KnownIsWatched /\ [Next]_vars => KnownIsWatched'
<1> SUFFICES ASSUME TypeOK, KnownIsWatched, [Next]_vars PROVE KnownIsWatched'
  OBVIOUS
<1> USE DEF KnownIsWatched, rec
<1>1. CASE RxTakes \/ RequestShutdown \/ Gate \/ Drive
  BY <1>1 DEF RxTakes, RequestShutdown, Gate, Drive
<1>2. CASE SetState \/ Rearm
  BY <1>2 DEF SetState, Rearm, TypeOK
<1>3. CASE WatchdogDue \/ WatchdogReleases \/ TxGate \/ TxSend
  BY <1>3 DEF WatchdogDue, WatchdogReleases, TxGate, TxSend
<1>4. CASE WatchdogForgets
  BY <1>4 DEF WatchdogForgets, Known
<1>5. CASE UNCHANGED <<logging, armed, timer, rx>>
  BY <1>5
<1>6. ASSUME NEW f \in Frames, Receive(f) PROVE KnownIsWatched'
  BY <1>6 DEF Receive
<1>7. CASE BusOff \/ ErrorState \/ BusRecovers \/ RecoveryTakes \/ Recover
  BY <1>7 DEF BusOff, ErrorState, BusRecovers, RecoveryTakes, Recover
<1>8. CASE FallsSilent \/ ShutdownCompletes
  BY <1>8 DEF FallsSilent, ShutdownCompletes
<1>9. CASE Web
  BY <1>9 DEF Web, SetAuto, Shutter
<1> QED
  BY <1>1, <1>2, <1>3, <1>4, <1>5, <1>6, <1>7, <1>8, <1>9
     DEF Next, Handle, Watchdog, vars

\* The bus-off event: queued events are only lost to the recovery task.
LEMMA RememberedStep ==
    TypeOK /\ OffIsRemembered /\ [Next]_vars => OffIsRemembered'
<1> SUFFICES ASSUME TypeOK, OffIsRemembered, [Next]_vars, node' = "off"
             PROVE  \/ recovery' = "recover" \/ lost'
                    \/ \E i \in 1..Len(stateq') : stateq'[i] = "off"
  BY DEF OffIsRemembered
<1> USE DEF OffIsRemembered
<1>1. CASE BusOff
  BY <1>1, QueueKeeps DEF BusOff, Events
<1>2. CASE ErrorState \/ BusRecovers \/ Recover
  BY <1>2 DEF ErrorState, BusRecovers, Recover
<1>3. CASE RecoveryTakes
  <2>1. node = "off" /\ recovery = "idle" /\ lost' = lost
    BY <1>3 DEF RecoveryTakes
  <2>2. CASE lost
    BY <2>1, <2>2
  <2>3. CASE \E i \in 1..Len(stateq) : stateq[i] = "off"
    <3>1. PICK i \in 1..Len(stateq) : stateq[i] = "off"
      BY <2>3
    <3>2. stateq # << >> /\ stateq' = Tail(stateq)
      BY <1>3 DEF RecoveryTakes
    <3>3. CASE i = 1
      BY <1>3, <3>1, <3>2, <3>3, TakeKeeps DEF RecoveryTakes
    <3>4. CASE i # 1
      BY <3>1, <3>2, <3>4, TakeKeeps
    <3> QED
      BY <3>3, <3>4
  <2> QED
    BY <2>1, <2>2, <2>3
<1>4. CASE UNCHANGED bus
  BY <1>4 DEF bus
<1> QED
  BY <1>1, <1>2, <1>3, <1>4 DEF Next, Handle, Watchdog, vars, Receive,
     FallsSilent, RxTakes, RequestShutdown, Gate, SetState, Rearm, Drive,
     WatchdogDue, WatchdogForgets, WatchdogReleases, TxGate, TxSend,
     ShutdownCompletes, Web, SetAuto, Shutter

LEMMA BusInvariant == Spec => []BusInv
<1>1. BusInv /\ [Next]_vars => BusInv'
  BY TypeStep, WatchedStep, RememberedStep DEF BusInv
<1> QED
  BY InitBusInv, <1>1, PTL DEF Spec

\* The variables of can_manager.c keep their ranges, its queues their depths.
THEOREM TypeCorrect == Spec => []TypeOK
BY BusInvariant, PTL DEF BusInv

\* A known logging state is watched, however watchdog_cb and
\* handle_logging_cmd interleave.
THEOREM LoggingStateWatched == Spec => []KnownIsWatched
BY BusInvariant, PTL DEF BusInv

\* The recovery task always knows of a bus-off node, unless the interrupt
\* found the state queue full.
THEOREM BusOffRemembered == Spec => []OffIsRemembered
BY BusInvariant, PTL DEF BusInv

-----------------------------------------------------------------------------
(***************************************************************************)
(* The time of CanStore: the receive and web tasks announce one live time  *)
(* per session between them.                                               *)
(***************************************************************************)

\* Where the tasks are, without the variables of the channels.
TimeOK ==
    /\ pc \in [Savers -> {"idle", "clock", "read", "write", "start", "fire"}]
    /\ pc["timer"] \in {"idle", "read", "write"}
    /\ first \in [Setters -> BOOLEAN]
    /\ \A s \in Setters : pc[s] \notin {"idle", "clock"} => first[s]
    /\ fired \in Nat

\* Once a task has set the first live time, no other is the first, and it is
\* somewhere between setting it and announcing it.
OneFirst ==
    /\ first["rx"] => ~first["web"]
    /\ \A s \in Setters : first[s] => pc[s] # "idle"
    /\ session_synced => fired = 1 \/ \E s \in Setters : first[s]
    /\ \A s \in Setters : first[s] => fired = 0 /\ session_synced
    /\ fired # 0 => fired = 1 /\ session_synced

TimeInv == TimeOK /\ OneFirst

LEMMA InitTimeInv == StoreInit => TimeInv
BY DEF StoreInit, TimeInv, TimeOK, OneFirst, Setters, Savers, session_synced

LEMMA TimeInvImplies == TimeInv => AnnouncedOnce
BY DEF TimeInv, TimeOK, OneFirst, AnnouncedOnce, Setters

LEMMA TimeStep == TimeInv /\ [StoreNext]_storeVars => TimeInv'
<1> SUFFICES ASSUME TimeInv, [StoreNext]_storeVars PROVE TimeInv'
  OBVIOUS
<1> USE DEF TimeInv, TimeOK, OneFirst, Setters, Savers, session_synced
<1>1. CASE GpsSets
  BY <1>1 DEF GpsSets, Go
<1>2. CASE ManualSets
  BY <1>2 DEF ManualSets, Go
<1>3. ASSUME NEW s \in Setters, SetClock(s) PROVE TimeInv'
  BY <1>3 DEF SetClock, Go
<1>4. ASSUME NEW s \in Setters, StartSaving(s) PROVE TimeInv'
  BY <1>4 DEF StartSaving, Go
<1>5. ASSUME NEW s \in Setters, Fire(s) PROVE TimeInv'
  BY <1>5 DEF Fire, Go
<1>6. CASE TimerDue
  BY <1>6 DEF TimerDue, Go
<1>7. ASSUME NEW s \in Savers, SaveReads(s) PROVE TimeInv'
  BY <1>7 DEF SaveReads, Go
<1>8. ASSUME NEW s \in Savers, SaveWrites(s) \/ SaveFails(s) PROVE TimeInv'
  BY <1>8 DEF SaveWrites, SaveFails, Saved, Go
<1>9. CASE Restart
  BY <1>9 DEF Restart, Restored
<1>10. CASE UNCHANGED time
  BY <1>10 DEF time
<1> QED
  BY <1>1, <1>2, <1>3, <1>4, <1>5, <1>6, <1>7, <1>8, <1>9, <1>10
     DEF StoreNext, storeVars, PostCan, WriteChannel, WriteLost, Written, WriteFails

\* on_utc_acquired is called once per session, for the first live time.
THEOREM AnnouncementUnique == StoreSpec => []AnnouncedOnce
<1>1. StoreSpec => []TimeInv
  BY InitTimeInv, TimeStep, PTL DEF StoreSpec
<1> QED
  BY <1>1, TimeInvImplies, PTL

\* can_manager_set_manual_utc_ms never displaces a live time, of GPS or the web.
THEOREM LiveSourceKept == StoreSpec => LiveSourceWins
<1>1. [StoreNext]_storeVars =>
        [session_synced => anchor' # "manual" \/ UNCHANGED anchor]_storeVars
  <2> SUFFICES ASSUME StoreNext, session_synced
               PROVE  anchor' # "manual" \/ UNCHANGED anchor
    OBVIOUS
  <2> QED
    BY DEF StoreNext, GpsSets, ManualSets, SetClock, StartSaving, Fire, TimerDue,
       SaveReads, SaveWrites, SaveFails, Saved, PostCan, WriteChannel,
       WriteLost, Written, WriteFails, Restart, Restored, time
<1> QED
  BY <1>1, PTL DEF StoreSpec, LiveSourceWins

-----------------------------------------------------------------------------
(***************************************************************************)
(* The types of CanStore, for requests of any size.                        *)
(***************************************************************************)

\* The time and where it comes from.
SourceTypes ==
    /\ anchor \in {"none", "nvs", "gps", "manual"}
    /\ clock \in {"none", "nvs", "gps", "manual"}
    /\ saved \in {"none", "old", "live"} /\ saving \in BOOLEAN
    /\ read \in [Savers -> {"none", "old", "live"}]

\* The channels, and how often they were posted and loaded.
ChannelTypes ==
    /\ running \in [Chs -> Ids] /\ stored \in [Chs -> Ids]
    /\ writes \in UNION {[S -> Ids] : S \in SUBSET Chs} /\ mixed \in BOOLEAN
    /\ posts \in 0..MaxPosts /\ restarts \in 0..MaxRestarts

LEMMA SourcesStep == SourceTypes /\ [StoreNext]_storeVars => SourceTypes'
<1> SUFFICES ASSUME SourceTypes, [StoreNext]_storeVars PROVE SourceTypes'
  OBVIOUS
<1> USE DEF SourceTypes
<1>1. CASE GpsSets \/ ManualSets \/ TimerDue
  BY <1>1 DEF GpsSets, ManualSets, TimerDue
<1>2. ASSUME NEW s \in Setters, SetClock(s) \/ StartSaving(s) \/ Fire(s) PROVE SourceTypes'
  BY <1>2 DEF SetClock, StartSaving, Fire
<1>3. ASSUME NEW s \in Savers, SaveReads(s) PROVE SourceTypes'
  BY <1>3 DEF SaveReads
<1>4. ASSUME NEW s \in Savers, SaveWrites(s) \/ SaveFails(s) PROVE SourceTypes'
  <2>1. read[s] \in {"none", "old", "live"}
    OBVIOUS
  <2> QED
    BY <1>4, <2>1 DEF SaveWrites, SaveFails, Saved
<1>5. CASE Restart
  BY <1>5 DEF Restart, Restored
<1>6. CASE UNCHANGED time
  BY <1>6 DEF time
<1> QED
  BY <1>1, <1>2, <1>3, <1>4, <1>5, <1>6
     DEF StoreNext, storeVars, PostCan, WriteChannel, WriteLost, Written, WriteFails

LEMMA NothingToWrite == << >> \in UNION {[S -> Ids] : S \in SUBSET Chs}
<1>1. << >> \in [{} -> Ids] /\ {} \in SUBSET Chs
  OBVIOUS
<1> QED
  BY <1>1

LEMMA ChannelTypesStep == ChannelTypes /\ [StoreNext]_storeVars => ChannelTypes'
<1> SUFFICES ASSUME ChannelTypes, [StoreNext]_storeVars PROVE ChannelTypes'
  OBVIOUS
<1> DEFINE Partial == UNION {[S -> Ids] : S \in SUBSET Chs}
<1>1. ASSUME NEW p \in Posted, PostCan(p) PROVE ChannelTypes'
  <2>1. p \in Partial
    BY DEF Posted
  <2>2. posts' \in 0..MaxPosts
    <3>1. posts \in 0..MaxPosts /\ posts < MaxPosts /\ posts' = posts + 1
      BY <1>1 DEF PostCan, ChannelTypes
    <3> QED
      BY <3>1, ChannelsAssumption
  <2>3. writes' = p /\ UNCHANGED <<running, stored, restarts>>
    BY <1>1 DEF PostCan
  <2>4. mixed' \in BOOLEAN
    BY <1>1, Zenon DEF PostCan, ChannelTypes
  <2> QED
    BY <2>1, <2>2, <2>3, <2>4 DEF ChannelTypes
<1>2. ASSUME NEW c \in Chs, WriteChannel(c) \/ WriteLost(c) PROVE ChannelTypes'
  <2>1. PICK S \in SUBSET Chs : writes \in [S -> Ids]
    BY DEF ChannelTypes
  <2>2. /\ c \in S /\ writes' = [d \in S \ {c} |-> writes[d]]
        /\ UNCHANGED <<running, posts, restarts>>
    BY <1>2, <2>1 DEF WriteChannel, WriteLost, Written, NextToWrite
  <2>3. writes' \in Partial
    <3>1. writes' \in [S \ {c} -> Ids] /\ S \ {c} \in SUBSET Chs
      BY <2>1, <2>2
    <3> QED
      BY <3>1
  <2>4. stored' \in [Chs -> Ids]
    BY <1>2, <2>1, <2>2 DEF WriteChannel, WriteLost, ChannelTypes
  <2>5. mixed' \in BOOLEAN
    BY <1>2, Zenon DEF WriteChannel, WriteLost, ChannelTypes
  <2> QED
    BY <2>2, <2>3, <2>4, <2>5 DEF ChannelTypes
<1>3. CASE WriteFails
  <2>1. mixed' \in BOOLEAN
    BY <1>3, Zenon DEF WriteFails, CutShort
  <2> QED
    BY <1>3, <2>1, NothingToWrite DEF WriteFails, ChannelTypes
<1>4. CASE Restart
  <2>1. /\ running' = stored /\ stored' = stored /\ writes' = << >> /\ posts' = 0
        /\ restarts < MaxRestarts /\ restarts' = restarts + 1
    BY <1>4 DEF Restart
  <2>2. posts' \in 0..MaxPosts /\ restarts' \in 0..MaxRestarts
    <3>1. restarts \in 0..MaxRestarts
      BY DEF ChannelTypes
    <3> QED
      BY <2>1, <3>1, ChannelsAssumption
  <2>3. mixed' \in BOOLEAN
    BY <1>4, Zenon DEF Restart, CutShort
  <2> QED
    BY <2>1, <2>2, <2>3, NothingToWrite DEF ChannelTypes
<1>5. CASE UNCHANGED <<channels, restarts>>
  BY <1>5 DEF channels, ChannelTypes
<1> QED
  BY <1>1, <1>2, <1>3, <1>4, <1>5
     DEF StoreNext, GpsSets, ManualSets, SetClock, StartSaving, Fire, TimerDue,
         SaveReads, SaveWrites, SaveFails, Saved, storeVars

LEMMA InitTypes == StoreInit => SourceTypes /\ ChannelTypes
<1>1. StoreInit => SourceTypes
  BY DEF StoreInit, SourceTypes
<1>2. StoreInit => ChannelTypes
  <2> SUFFICES ASSUME StoreInit PROVE ChannelTypes
    OBVIOUS
  <2>1. 0 \in 0..MaxPosts /\ 0 \in 0..MaxRestarts
    BY ChannelsAssumption
  <2>2. running \in [Chs -> Ids] /\ stored \in [Chs -> Ids]
    BY ChannelsAssumption DEF StoreInit
  <2>3. posts = 0 /\ restarts = 0 /\ writes = << >> /\ mixed = FALSE
    BY DEF StoreInit
  <2> QED
    BY <2>1, <2>2, <2>3, NothingToWrite DEF ChannelTypes
<1> QED
  BY <1>1, <1>2

\* can_manager.c, api_settings.c: the sources of the time, and the identifiers of
\* the session, of the NVS and of a request under way stay within their types,
\* however many channels a request touches and wherever a reset cuts it short.
THEOREM StoreTyped == StoreSpec => []StoreTypeOK
<1>1. TimeInv /\ SourceTypes /\ ChannelTypes => StoreTypeOK
  BY DEF TimeInv, TimeOK, SourceTypes, ChannelTypes, StoreTypeOK
<1> QED
  BY <1>1, InitTypes, InitTimeInv, TimeStep, SourcesStep, ChannelTypesStep, PTL DEF StoreSpec

-----------------------------------------------------------------------------
(***************************************************************************)
(* The identifiers of CanStore, for requests of any number and size.       *)
(***************************************************************************)

\* What the NVS holds once the request under way is written.
Target == [c \in Chs |-> IF c \in DOMAIN writes THEN writes[c] ELSE stored[c]]

\* Unless requests or parts of them were mixed, what the session runs with and what
\* the NVS is about to hold have been checked as one set each.
ChannelsInv == ~mixed => ~Collides(running) /\ ~Collides(Target)

LEMMA InitChannels == StoreInit => ChannelsInv
<1> SUFFICES ASSUME StoreInit PROVE ChannelsInv
  OBVIOUS
<1>1. running = Default /\ Target = Default
  BY ChannelsAssumption DEF StoreInit, Target
<1> QED
  BY <1>1, ChannelsAssumption DEF ChannelsInv, Collides

LEMMA ChannelsStep ==
    ASSUME ChannelTypes, ChannelsInv, [StoreNext]_storeVars
    PROVE  ChannelsInv'
<1> SUFFICES ASSUME ~mixed' PROVE ~Collides(running') /\ ~Collides(Target')
  BY DEF ChannelsInv, Collides
<1>1. ASSUME NEW p \in Posted, PostCan(p)
      PROVE  ~Collides(running') /\ ~Collides(Target')
  <2>1. ~mixed /\ stored = running /\ writes' = p /\ UNCHANGED <<running, stored>>
    BY <1>1 DEF PostCan
  <2>2. Target' = Merged(p)
    BY <2>1 DEF Target, Merged
  <2> QED
    BY <1>1, <2>1, <2>2 DEF PostCan, ChannelsInv, Collides
<1>2. ASSUME NEW c \in Chs, WriteChannel(c)
      PROVE  ~Collides(running') /\ ~Collides(Target')
  <2>1. /\ ~mixed /\ running' = running /\ c \in DOMAIN writes
        /\ stored' = [stored EXCEPT ![c] = writes[c]]
        /\ writes' = [d \in DOMAIN writes \ {c} |-> writes[d]]
    BY <1>2 DEF WriteChannel, Written, NextToWrite
  <2>2. Target' = Target
    BY <2>1 DEF Target, ChannelTypes
  <2> QED
    BY <2>1, <2>2 DEF ChannelsInv, Collides
<1>3. ASSUME NEW c \in Chs, WriteLost(c)
      PROVE  ~Collides(running') /\ ~Collides(Target')
  <2>1. /\ ~mixed /\ stored = running /\ DOMAIN writes = {c}
        /\ UNCHANGED <<running, stored>> /\ DOMAIN writes' = {}
    BY <1>3 DEF WriteLost, Written
  <2>2. Target' = running
    BY <2>1 DEF Target, ChannelTypes
  <2> QED
    BY <2>1, <2>2 DEF ChannelsInv, Collides
<1>4. CASE WriteFails \/ Restart
  <2>1. /\ ~mixed /\ (writes = << >> \/ stored = running)
        /\ writes' = << >> /\ stored' = stored
        /\ running' = running \/ running' = stored
    BY <1>4 DEF WriteFails, Restart, CutShort
  <2>2. Target' = stored
    BY <2>1 DEF Target, ChannelTypes
  <2>3. writes = << >> => Target = stored
    BY DEF Target, ChannelTypes
  <2> QED
    BY <2>1, <2>2, <2>3 DEF ChannelsInv, Collides
<1>5. CASE UNCHANGED channels
  <2>1. mixed' = mixed /\ running' = running /\ Target' = Target
    BY <1>5 DEF channels, Target
  <2> QED
    BY <2>1 DEF ChannelsInv, Collides
<1> QED
  BY <1>1, <1>2, <1>3, <1>4, <1>5
     DEF StoreNext, GpsSets, ManualSets, SetClock, StartSaving, Fire, TimerDue,
         SaveReads, SaveWrites, SaveFails, Saved, storeVars

\* handler_post_can, can_manager_set_channel, load_channels: the identifiers a boot
\* runs with are distinct, whatever the requests touch and wherever they fail, until
\* two requests of one boot, or a part of one, are mixed in the NVS.
THEOREM ChannelsStayDistinct == StoreSpec => []ChannelsDistinct
<1>1. ChannelTypes /\ ChannelsInv /\ [StoreNext]_storeVars => ChannelsInv'
  BY ChannelsStep
<1>2. ChannelsInv => ChannelsDistinct
  BY DEF ChannelsInv, ChannelsDistinct
<1> QED
  BY InitTypes, InitChannels, ChannelTypesStep, <1>1, <1>2, PTL DEF StoreSpec
=============================================================================

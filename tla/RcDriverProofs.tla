--------------------------- MODULE RcDriverProofs ---------------------------
(***************************************************************************)
(* What the work task keeps true of a camera for work queues of every      *)
(* depth.                                                                  *)
(***************************************************************************)
EXTENDS RcDriver, TLAPS

\* Watching a camera needs no more than itself: arming the keepalive timer and
\* learning an address, and forgetting both, are one handler each.
IInv == TypeOK /\ ReadyIsWatched

\* A command posted without waiting leaves a queue within its depth.
LEMMA PostKeeps ==
    ASSUME TypeOK, NEW c \in Commands
    PROVE  Posted(c) \in Seq(Commands) /\ Len(Posted(c)) <= QueueDepth
<1>1. CASE HasRoom
  <2>1. Posted(c) = Append(q, c)
    BY <1>1 DEF Posted
  <2> QED
    BY <2>1, <1>1, DepthAssumption DEF TypeOK, HasRoom
<1>2. CASE ~HasRoom
  BY <1>2 DEF Posted, TypeOK
<1> QED
  BY <1>1, <1>2

\* Taking the first command leaves a queue within its depth.
LEMMA TakeKeeps ==
    ASSUME TypeOK, NEW c \in Commands, Takes(c)
    PROVE  q' \in Seq(Commands) /\ Len(q') <= QueueDepth
<1>1. q \in Seq(Commands) /\ q # << >> /\ q' = Tail(q)
  BY DEF TypeOK, Takes
<1>2. q' \in Seq(Commands) /\ Len(q') = Len(q) - 1
  BY <1>1
<1>3. Len(q) \in Nat /\ Len(q) <= QueueDepth
  BY <1>1 DEF TypeOK
<1> QED
  BY <1>2, <1>3, DepthAssumption

\* What is asked for is an answer.
LEMMA AsksKeeps ==
    ASSUME TypeOK, NEW answers \in SUBSET Answers, NEW to, Asks(answers, to)
    PROVE  air' \subseteq Answers
  BY DEF TypeOK, Asks

LEMMA InitIInv == Init => IInv
<1> SUFFICES ASSUME Init PROVE IInv
  OBVIOUS
<1>1. q \in Seq(Commands) /\ Len(q) <= QueueDepth
  BY DepthAssumption DEF Init
<1>2. air \subseteq Answers
  BY DEF Init, Answers
<1> QED
  BY <1>1, <1>2 DEF Init, IInv, TypeOK, ReadyIsWatched

\* Types.
LEMMA TypeStep == TypeOK /\ [Next]_vars => TypeOK'
<1> SUFFICES ASSUME TypeOK, [Next]_vars PROVE TypeOK'
  OBVIOUS
<1>a. ASSUME NEW c \in Commands, q' = Posted(c) 
      PROVE  q' \in Seq(Commands) /\ Len(q') <= QueueDepth
  BY <1>a, PostKeeps
<1>b. ASSUME NEW c \in Commands, Takes(c) 
      PROVE  q' \in Seq(Commands) /\ Len(q') <= QueueDepth
  BY <1>b, TakeKeeps
<1>c. ASSUME NEW answers \in SUBSET Answers, NEW to, Asks(answers, to)
      PROVE  air' \subseteq Answers
  BY <1>c, AsksKeeps
<1>d. {"ack"} \in SUBSET Answers /\ {"cv"} \in SUBSET Answers
      /\ Wanted \in SUBSET Answers
  BY DEF Answers, Wanted
<1>e. {"associated", "dhcp", "disconnected", "tick", "nudge", "promote",
       "apply_cv"} = Commands
  BY DEF Commands
<1> USE DEF TypeOK, ctx, world
<1>1. CASE Join
  <2>1. q' \in Seq(Commands) /\ Len(q') <= QueueDepth
    BY <1>1, <1>a, <1>e DEF Join
  <2>2. missed' \in BOOLEAN
    BY <1>1, Zenon DEF Join
  <2> QED
    BY <1>1, <2>1, <2>2 DEF Join
<1>2. CASE IpAssigned
  <2>1. q' \in Seq(Commands) /\ Len(q') <= QueueDepth
    BY <1>2, <1>a, <1>e DEF IpAssigned
  <2>2. missed' \in BOOLEAN
    BY <1>2, Zenon DEF IpAssigned
  <2> QED
    BY <1>2, <2>1, <2>2 DEF IpAssigned
<1>3. CASE Leave
  <2>1. q' \in Seq(Commands) /\ Len(q') <= QueueDepth
    BY <1>3, <1>a, <1>e DEF Leave
  <2> QED
    BY <1>3, <2>1 DEF Leave
<1>4. CASE Bounce
  BY <1>4 DEF Bounce
<1>5. CASE FallsAsleep
  <2>1. awake' \in BOOLEAN
    BY <1>5 DEF FallsAsleep
  <2>2. UNCHANGED <<station, cached, air, q, rx, ctx, heard, stale, missed>>
    BY <1>5 DEF FallsAsleep
  <2> QED
    BY <2>1, <2>2
<1>6. CASE Wakes
  BY <1>6 DEF Wakes
<1>7. CASE SilenceElapses
  BY <1>7 DEF SilenceElapses
<1>8. CASE RxStamps
  BY <1>8 DEF RxStamps
<1>9. CASE RxPosts
  <2>1. q' \in Seq(Commands) /\ Len(q') <= QueueDepth
    BY <1>9, <1>a, <1>e DEF RxPosts
  <2> QED
    BY <1>9, <2>1 DEF RxPosts
<1>10. CASE Associated
  <2>1. q' \in Seq(Commands) /\ Len(q') <= QueueDepth
    BY <1>10, <1>b, <1>e DEF Associated
  <2>2. air' \subseteq Answers
    BY <1>10, <1>c, <1>d DEF Associated
  <2> QED
    <3>1. CASE cached
      BY <1>10, <2>1, <2>2, <3>1 DEF Associated
    <3>2. CASE ~cached
      BY <1>10, <2>1, <2>2, <3>2 DEF Associated
    <3> QED
      BY <3>1, <3>2
<1>11. CASE Dhcp
  <2>1. q' \in Seq(Commands) /\ Len(q') <= QueueDepth
    BY <1>11, <1>b, <1>e DEF Dhcp
  <2>2. air' \subseteq Answers
    BY <1>11, <1>c, <1>d DEF Dhcp
  <2> QED
    BY <1>11, <2>1, <2>2 DEF Dhcp
<1>12. CASE Disconnected
  <2>1. q' \in Seq(Commands) /\ Len(q') <= QueueDepth
    BY <1>12, <1>b, <1>e DEF Disconnected
  <2> QED
    BY <1>12, <2>1 DEF Disconnected
<1>13. CASE Tick
  <2>1. q' \in Seq(Commands) /\ Len(q') <= QueueDepth
    BY <1>13, <1>b, <1>e DEF Tick
  <2>2. air' \subseteq Answers
    BY <1>13, <1>c, <1>d DEF Tick
  <2> QED
    BY <1>13, <2>1, <2>2 DEF Tick
<1>14. CASE Nudge
  <2>1. q' \in Seq(Commands) /\ Len(q') <= QueueDepth
    BY <1>14, <1>b, <1>e DEF Nudge
  <2>2. air' \subseteq Answers
    BY <1>14, <1>c, <1>d DEF Nudge
  <2> QED
    BY <1>14, <2>1, <2>2 DEF Nudge
<1>15. CASE ApplyCv
  <2>1. q' \in Seq(Commands) /\ Len(q') <= QueueDepth
    BY <1>15, <1>b, <1>e DEF ApplyCv
  <2> QED
    BY <1>15, <2>1 DEF ApplyCv
<1>16. ASSUME NEW c \in {"tick", "nudge"}, TimerFires(c) PROVE TypeOK'
  <2>1. q' \in Seq(Commands) /\ Len(q') <= QueueDepth
    BY <1>16, <1>a, <1>e DEF TimerFires
  <2> QED
    BY <1>16, <2>1 DEF TimerFires
<1>17. ASSUME NEW a \in Answers, RxTakes(a) PROVE TypeOK'
  <2>1. q' \in Seq(Commands) /\ Len(q') <= QueueDepth
    BY <1>17, <1>a, <1>e DEF RxTakes
  <2>2. air' \subseteq Answers /\ rx' \in {"idle", "stamp", "promote"}
        /\ parsed' \in BOOLEAN
    BY <1>17 DEF RxTakes
  <2> QED
    BY <1>17, <2>1, <2>2 DEF RxTakes
<1>18. CASE Promote
  <2>1. q' \in Seq(Commands) /\ Len(q') <= QueueDepth
    BY <1>18, <1>b, <1>e DEF Promote
  <2>2. air' \subseteq Answers
    BY <1>18, <1>c, <1>d DEF Promote
  <2> QED
    <3>1. CASE ready
      BY <1>18, <2>1, <2>2, <3>1 DEF Promote
    <3>2. CASE ~ready
      BY <1>18, <2>1, <2>2, <3>2 DEF Promote
    <3> QED
      BY <3>1, <3>2
<1>19. CASE UNCHANGED vars
  BY <1>19 DEF vars
<1> QED
  BY <1>1, <1>2, <1>3, <1>4, <1>5, <1>6, <1>7, <1>8, <1>9, <1>10, <1>11, <1>12, <1>13, <1>14, <1>15, <1>16, <1>17, <1>18, <1>19 DEF Next, Work

\* The keepalive timer runs while an address is known, and as long as no stale
\* entry was handled only a camera that is kept alive is ready or woken.
LEMMA WatchedStep ==
    TypeOK /\ ReadyIsWatched /\ [Next]_vars => ReadyIsWatched'
<1> SUFFICES ASSUME TypeOK, ReadyIsWatched, [Next]_vars
             PROVE  ReadyIsWatched'
  OBVIOUS
<1> USE DEF ReadyIsWatched, ctx
<1>1. CASE Join \/ IpAssigned \/ Leave \/ Bounce \/ FallsAsleep \/ Wakes
           \/ SilenceElapses \/ RxStamps \/ RxPosts
           \/ \E c \in {"tick", "nudge"} : TimerFires(c)
  BY <1>1 DEF Join, IpAssigned, Leave, Bounce, FallsAsleep, Wakes,
              SilenceElapses, RxStamps, RxPosts, TimerFires
<1>2. ASSUME NEW a \in Answers, RxTakes(a) PROVE ReadyIsWatched'
  BY <1>2 DEF RxTakes
<1>3. CASE Associated
  <2>1. CASE cached
    BY <1>3, <2>1, Zenon DEF Associated
  <2>2. CASE ~cached
    BY <1>3, <2>2, Zenon DEF Associated
  <2> QED
    BY <2>1, <2>2
<1>8. CASE Dhcp \/ Disconnected
  BY <1>8, Zenon DEF Dhcp, Disconnected
<1>4. CASE Tick
  BY <1>4 DEF Tick, TypeOK
<1>5. CASE Nudge \/ ApplyCv
  BY <1>5 DEF Nudge, ApplyCv
<1>6. CASE Promote
  BY <1>6 DEF Promote, TypeOK
<1>7. CASE UNCHANGED vars
  BY <1>7 DEF vars
<1> QED
  BY <1>1, <1>2, <1>3, <1>4, <1>5, <1>6, <1>7, <1>8 DEF Next, Work

LEMMA IInvAlways == Spec => []IInv
<1>1. IInv /\ [Next]_vars => IInv'
  BY TypeStep, WatchedStep DEF IInv
<1> QED
  BY InitIInv, <1>1, PTL DEF Spec

\* The context of every camera, and the work queue, stay within their types.
THEOREM TypeCorrect == Spec => []TypeOK
<1>1. IInv => TypeOK
  BY DEF IInv
<1> QED
  BY IInvAlways, <1>1, PTL

\* Whatever is dropped, reordered or late, a camera with an address is kept
\* alive, and one that is ready or being woken is watched for silence unless
\* an entry queued before it left was handled afterwards.
THEOREM CameraWatched == Spec => []ReadyIsWatched
<1>1. IInv => ReadyIsWatched
  BY DEF IInv
<1> QED
  BY IInvAlways, <1>1, PTL
=============================================================================

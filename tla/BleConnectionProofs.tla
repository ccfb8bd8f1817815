------------------------ MODULE BleConnectionProofs ------------------------
(***************************************************************************)
(* For every camera, retry limit and number of connections: a connection   *)
(* completes its sequence at most once, leaves nothing behind, and if the  *)
(* camera's table is well formed subscribes exactly what it should.        *)
(*                                                                         *)
(* The right to go on with the sequence is a token: it is in the discovery,*)
(* in one of the three pending flags, with the task that has claimed it,   *)
(* or spent.  The atomic exchanges never let there be two.                 *)
(***************************************************************************)
EXTENDS BleConnection, FiniteSetTheorems, SequenceTheorems, TLAPS

Discovering == proc # "none" \/ at["host"] \in {"chrs", "dscs", "cccds"}

Tokens == pending \cup {t \in Tasks : at[t] \in {"third", "proceed", "complete"}}
                  \cup (IF completed # 0 THEN {"done"} ELSE {})
                  \cup (IF Discovering THEN {"discovery"} ELSE {})

OneToken == \A x, y \in Tokens : x = y

Stages == {"idle", "chrs", "dscs", "cccds", "third", "retry", "proceed", "arm",
           "complete", "poll"}

SequenceTypes ==
    /\ at \in [Tasks -> Stages]
    /\ pending \subseteq {"ready", "third", "ctrl"}
    /\ completed \in Nat /\ completed <= 1

\* Without a context there is nothing but a timer's callback; a link that is
\* not yet encrypted has no token.
Quiet == /\ link => conn
         /\ ~conn => pending = {} /\ at["host"] = "idle" /\ proc = "none"
         /\ conn /\ ~secured => Tokens = {}
         /\ at["host"] # "idle" => proc = "none"

IInv == SequenceTypes /\ OneToken /\ Quiet

\* After a disconnect the only callback still under way is one that has yet to
\* look at the context again.
Gone == ~conn /\ ~raced => armed = {} /\ ~ready /\ at["timer"] \in {"idle", "retry"}

LEMMA InitIInv == Init => IInv
  BY DEF Init, IInv, SequenceTypes, OneToken, Quiet, Tokens, Discovering, Tasks, Stages

\* A step that moves no token, or loses it.
LEMMA Kept == ASSUME IInv, Tokens' \subseteq Tokens PROVE OneToken'
  BY DEF IInv, OneToken

LEMMA Holder == ASSUME IInv, NEW a \in Tokens PROVE Tokens = {a}
  BY DEF IInv, OneToken

-----------------------------------------------------------------------------

LEMMA LinkKeeps == ASSUME IInv, Connect \/ Drops \/ Disconnected PROVE IInv'
<1>1. CASE Connect
  <2>1. Tokens' = {}
    BY <1>1 DEF Connect, Tokens, Discovering, Tasks, IInv, Quiet, SequenceTypes, discVars, seqVars
  <2> QED
    BY <1>1, <2>1 DEF Connect, IInv, Quiet, SequenceTypes, OneToken, discVars, seqVars
<1>2. CASE Drops
  <2>1. UNCHANGED <<conn, secured, proc, pending, at, completed>> /\ link' = FALSE
    BY <1>2 DEF Drops, discVars, seqVars, endVars
  <2>2. Tokens' = Tokens
    BY <2>1 DEF Tokens, Discovering
  <2> QED
    BY <2>1, <2>2, Kept DEF IInv, SequenceTypes, Quiet
<1>3. CASE Disconnected
  <2>1. /\ UNCHANGED <<link, proc, at, completed>> /\ pending' = {} /\ conn' = FALSE
        /\ ~link /\ at["host"] = "idle" /\ proc = "none"
    BY <1>3 DEF Disconnected
  <2>2. Tokens' \subseteq Tokens
    BY <2>1 DEF Tokens, Discovering
  <2>3. OneToken'
    BY <2>2, Kept
  <2>4. Quiet'
    BY <2>1 DEF IInv, SequenceTypes, Quiet
  <2> QED
    BY <2>1, <2>3, <2>4 DEF IInv, SequenceTypes
<1> QED
  BY <1>1, <1>2, <1>3

\* Discovery holds the token until it hands it to the readiness poll.
LEMMA DiscoveryKeeps == ASSUME IInv, Encrypted \/ Discovers PROVE IInv'
<1>1. CASE Encrypted
  <2>1. /\ Tokens = {} /\ UNCHANGED <<link, conn, pending, at, completed>>
        /\ secured' /\ conn /\ at["host"] = "idle"
    BY <1>1 DEF Encrypted, seqVars, endVars, IInv, Quiet
  <2>2. Tokens' \subseteq {"discovery"}
    BY <2>1 DEF Tokens, Discovering
  <2> QED
    BY <2>1, <2>2 DEF IInv, SequenceTypes, OneToken, Quiet
<1>2. CASE Discovers /\ ~NextSubscription
  <2>1. UNCHANGED <<link, conn, secured, pending, completed>>
    BY <1>2 DEF Discovers, MtuExchanged, ServiceFound, ServicesDone, ServicesFail,
       NextCharacteristics, CharacteristicFound, CharacteristicsEnd, NextDescriptors,
       DescriptorFound, DescriptorsEnd, SubscriptionEnds, Callback, linkVars, seqVars, endVars
  <2>2. \/ at' = at
        \/ \E s \in {"chrs", "dscs", "cccds", "idle"} : at' = [at EXCEPT !["host"] = s]
    BY <1>2 DEF Discovers, MtuExchanged, ServiceFound, ServicesDone, ServicesFail,
       NextCharacteristics, CharacteristicFound, CharacteristicsEnd, NextDescriptors,
       DescriptorFound, DescriptorsEnd, SubscriptionEnds, Callback, Goes
  <2>3. Discovering
    BY <1>2 DEF Discovers, MtuExchanged, ServiceFound, ServicesDone, ServicesFail,
       NextCharacteristics, CharacteristicFound, CharacteristicsEnd, NextDescriptors,
       DescriptorFound, DescriptorsEnd, SubscriptionEnds, Callback, Discovering
  <2>4. at' \in [Tasks -> Stages]
    BY <2>2 DEF IInv, SequenceTypes, Stages
  <2>5. {t \in Tasks : at'[t] \in {"third", "proceed", "complete"}}
           \subseteq {t \in Tasks : at[t] \in {"third", "proceed", "complete"}}
    BY <2>2 DEF IInv, SequenceTypes, Tasks
  <2>6. Tokens' \subseteq Tokens
    BY <2>1, <2>3, <2>5 DEF Tokens
  <2>7. conn /\ secured
    BY <2>3 DEF IInv, Quiet, Tokens, Discovering
  <2>8. at'["host"] # "idle" => proc' = "none"
    BY <1>2 DEF Discovers, MtuExchanged, ServiceFound, ServicesDone, ServicesFail,
       NextCharacteristics, CharacteristicFound, CharacteristicsEnd, NextDescriptors,
       DescriptorFound, DescriptorsEnd, SubscriptionEnds, Callback, Goes, IInv,
       SequenceTypes, Quiet, Tasks
  <2> QED
    BY <2>1, <2>4, <2>6, <2>7, <2>8, Kept DEF IInv, SequenceTypes, Quiet
<1>3. CASE NextSubscription
  <2>1. at["host"] = "cccds" /\ UNCHANGED <<link, conn, secured, completed>>
    BY <1>3 DEF NextSubscription, linkVars, endVars
  <2>2. Tokens = {"discovery"} /\ proc = "none"
    BY <2>1, Holder DEF Tokens, Discovering, IInv, Quiet
  <2>3. conn /\ secured
    BY <2>2, <2>1 DEF IInv, Quiet
  <2>4. completed = 0 /\ pending = {} /\ \A t \in Tasks : at[t] \notin {"third", "proceed", "complete"}
    BY <2>2 DEF Tokens, IInv, SequenceTypes, Tasks
  <2>5. CASE subscrCur > Len(notify)
    <3>1. pending' = {"ready"} /\ at' = [at EXCEPT !["host"] = "idle"] /\ proc' = proc
      BY <1>3, <2>4, <2>5 DEF NextSubscription, Goes
    <3>2. Tokens' \subseteq {"ready"} /\ at' \in [Tasks -> Stages] /\ at'["host"] = "idle"
      BY <2>1, <2>2, <2>4, <3>1 DEF Tokens, Discovering, IInv, SequenceTypes, Tasks, Stages
    <3> QED
      BY <2>1, <2>2, <2>3, <3>1, <3>2 DEF IInv, SequenceTypes, OneToken, Quiet
  <2>6. CASE ~(subscrCur > Len(notify))
    <3>1. /\ UNCHANGED pending
          /\ \/ at' = [at EXCEPT !["host"] = "idle"]
             \/ at' = at /\ proc' = proc
      BY <1>3, <2>6 DEF NextSubscription, Goes, seqVars
    <3>2. at' \in [Tasks -> Stages] /\ (at'["host"] # "idle" => proc' = "none")
      BY <2>2, <3>1 DEF IInv, SequenceTypes, Tasks, Stages
    <3>3. \A t \in Tasks : at'[t] \notin {"third", "proceed", "complete"}
      BY <2>4, <3>1 DEF IInv, SequenceTypes, Tasks
    <3>4. Tokens' \subseteq {"discovery"}
      BY <2>1, <2>4, <3>1, <3>3 DEF Tokens
    <3> QED
      BY <2>1, <2>3, <3>1, <3>2, <3>4, <2>4 DEF IInv, SequenceTypes, OneToken, Quiet
  <2> QED
    BY <2>5, <2>6
<1> QED
  BY <1>1, <1>2, <1>3 DEF Discovers

\* What a notification or a time-out claims goes to the task that claimed it.
LEMMA ClaimKeeps ==
    ASSUME IInv, NEW what \in {"ready", "third", "ctrl"}, NEW t \in Tasks,
           NEW stage \in {"idle", "third", "proceed", "complete"},
           what \in pending, pending' = pending \ {what},
           at' = [at EXCEPT ![t] = stage],
           UNCHANGED <<link, conn, secured, proc, completed>>
    PROVE  IInv'
<1>1. Tokens = {what}
  BY Holder DEF Tokens
<1>2. completed = 0 /\ pending = {what} /\ ~Discovering
      /\ \A u \in Tasks : at[u] \notin {"third", "proceed", "complete"}
  BY <1>1 DEF Tokens, IInv, SequenceTypes, Tasks
<1>3. proc = "none" /\ conn /\ secured
  BY <1>1, <1>2 DEF Discovering, IInv, Quiet
<1>4. pending' = {} /\ at' \in [Tasks -> Stages]
  BY <1>2 DEF IInv, SequenceTypes, Stages
<1>5. ~Discovering'
  BY <1>2, <1>3 DEF Discovering, IInv, SequenceTypes, Tasks
<1>6. Tokens' \subseteq {t}
  BY <1>2, <1>4, <1>5 DEF Tokens, IInv, SequenceTypes
<1> QED
  BY <1>2, <1>3, <1>4, <1>6 DEF IInv, SequenceTypes, OneToken, Quiet

\* A step that claims and completes nothing.
LEMMA StageKeeps ==
    ASSUME IInv, NEW t \in Tasks, NEW stage \in {"idle", "retry"},
           at' = at \/ (at' = [at EXCEPT ![t] = stage] /\ (t = "host" => stage = "idle")),
           UNCHANGED <<link, conn, secured, proc, pending, completed>>
    PROVE  IInv'
<1>1. at' \in [Tasks -> Stages]
  BY DEF IInv, SequenceTypes, Stages
<1>2. Tokens' \subseteq Tokens
  BY DEF Tokens, Discovering, IInv, SequenceTypes, Tasks
<1>3. Quiet'
  BY <1>2 DEF IInv, SequenceTypes, Quiet, Tasks
<1> QED
  BY <1>1, <1>2, <1>3, Kept DEF IInv, SequenceTypes

\* An acknowledgement on the host task, or its time-out on the timer task.
LEMMA WaitsKeep ==
    ASSUME IInv, NEW what \in {"third", "ctrl"}, Acked(what) \/ TimesOut(what)
    PROVE  IInv'
<1> DEFINE stage == IF what = "third" THEN "proceed" ELSE "complete"
<1>1. UNCHANGED <<link, conn, secured, proc, completed>>
  BY DEF Acked, TimesOut, linkVars, discVars, endVars
<1>2. \/ UNCHANGED <<pending, at>>
      \/ /\ what \in pending /\ pending' = pending \ {what}
         /\ \E t \in Tasks : at' = [at EXCEPT ![t] = stage]
  BY DEF Acked, TimesOut, Goes, Tasks
<1>3. CASE UNCHANGED <<pending, at>>
  BY <1>1, <1>3, StageKeeps DEF Tasks
<1>4. CASE /\ what \in pending /\ pending' = pending \ {what}
           /\ \E t \in Tasks : at' = [at EXCEPT ![t] = stage]
  <2>1. stage \in {"idle", "third", "proceed", "complete"} /\ what \in {"ready", "third", "ctrl"}
    OBVIOUS
  <2> HIDE DEF stage
  <2> QED
    BY <1>1, <1>4, <2>1, ClaimKeeps
<1> QED
  BY <1>2, <1>3, <1>4

LEMMA AnswersKeep ==
    ASSUME IInv, HwInfo \/ \E what \in {"third", "ctrl"} : Acked(what) \/ TimesOut(what)
    PROVE  IInv'
<1> USE DEF Tasks
<1>1. CASE HwInfo
  <2>1. UNCHANGED <<link, conn, secured, proc, completed>>
    BY <1>1 DEF HwInfo, discVars, endVars
  <2>2. \/ UNCHANGED <<pending, at>>
        \/ /\ "ready" \in pending /\ pending' = pending \ {"ready"}
           /\ at' = at \/ at' = [at EXCEPT !["host"] = "third"]
    BY <1>1 DEF HwInfo, Goes
  <2>3. at["host"] = "idle" /\ at = [at EXCEPT !["host"] = "idle"]
    BY <1>1 DEF HwInfo, Hears, IInv, SequenceTypes
  <2>4. CASE UNCHANGED <<pending, at>>
    BY <2>1, <2>4, StageKeeps
  <2>5. CASE /\ "ready" \in pending /\ pending' = pending \ {"ready"}
             /\ at' = at \/ at' = [at EXCEPT !["host"] = "third"]
    BY <2>1, <2>3, <2>5, ClaimKeeps
  <2> QED
    BY <2>2, <2>4, <2>5
<1>2. CASE \E what \in {"third", "ctrl"} : Acked(what) \/ TimesOut(what)
  BY <1>2, WaitsKeep
<1> QED
  BY <1>1, <1>2

LEMMA RetryKeeps == ASSUME IInv, RetryFires \/ Retries PROVE IInv'
<1>1. CASE RetryFires
  <2>1. /\ UNCHANGED <<link, conn, secured, proc, pending, completed>>
        /\ at' = at \/ at' = [at EXCEPT !["timer"] = "retry"]
    BY <1>1 DEF RetryFires, Goes, linkVars, discVars, endVars
  <2> QED
    BY <2>1, StageKeeps DEF Tasks
<1>2. CASE Retries
  <2>1. /\ UNCHANGED <<link, conn, secured, proc, completed>>
        /\ at' = [at EXCEPT !["timer"] = "idle"]
        /\ pending' = pending \/ pending' = pending \ {"ready"}
    BY <1>2 DEF Retries, Goes, discVars, endVars
  <2>2. CASE pending' = pending
    BY <2>1, <2>2, StageKeeps DEF Tasks
  <2>3. CASE "ready" \in pending /\ pending' = pending \ {"ready"}
    BY <2>1, <2>3, ClaimKeeps DEF Tasks
  <2> QED
    BY <2>1, <2>2, <2>3
<1> QED
  BY <1>1, <1>2

\* The task that has the token passes it on: to a flag, or to the end.
LEMMA HolderKeeps ==
    ASSUME IInv, NEW t \in Tasks,
           (SendsThird /\ t = "host") \/ Proceeds(t) \/ Completes(t)
    PROVE  IInv'
<1>1. at[t] \in {"third", "proceed", "complete"}
  BY DEF SendsThird, Proceeds, Completes
<1>2. Tokens = {t}
  BY <1>1, Holder DEF Tokens
<1>3. /\ completed = 0 /\ pending = {} /\ ~Discovering
      /\ \A u \in Tasks : u # t => at[u] \notin {"third", "proceed", "complete"}
  BY <1>2 DEF Tokens, IInv, SequenceTypes, Tasks
<1>4. UNCHANGED <<link, conn, secured, proc>> /\ proc = "none"
  BY <1>3 DEF SendsThird, Proceeds, Completes, linkVars, discVars, Discovering
<1>5. \/ /\ conn /\ completed' = 0
         /\ \/ pending' = {"third"} /\ at' = [at EXCEPT ![t] = "idle"]
            \/ pending' = {"ctrl"} /\ at' = [at EXCEPT ![t] = "arm"]
      \/ /\ completed' = 0 /\ pending' = {}
         /\ \E stage \in {"proceed", "complete"} : at' = [at EXCEPT ![t] = stage]
      \/ completed' = 1 /\ pending' = {} /\ at' = [at EXCEPT ![t] = "poll"]
  BY <1>3 DEF SendsThird, Proceeds, Completes, Goes, endVars, seqVars
<1>6. at' \in [Tasks -> Stages] /\ ~Discovering'
  BY <1>3, <1>4, <1>5 DEF Discovering, IInv, SequenceTypes, Stages, Tasks
<1>7. \E b \in {"third", "ctrl", "done", t} : Tokens' \subseteq {b}
  <2>1. CASE pending' = {"third"} /\ completed' = 0 /\ at' = [at EXCEPT ![t] = "idle"]
    <3>1. Tokens' \subseteq {"third"}
      BY <1>3, <1>6, <2>1 DEF Tokens, IInv, SequenceTypes
    <3> QED
      BY <3>1
  <2>2. CASE pending' = {"ctrl"} /\ completed' = 0 /\ at' = [at EXCEPT ![t] = "arm"]
    <3>1. Tokens' \subseteq {"ctrl"}
      BY <1>3, <1>6, <2>2 DEF Tokens, IInv, SequenceTypes
    <3> QED
      BY <3>1
  <2>3. CASE /\ completed' = 0 /\ pending' = {}
             /\ \E stage \in {"proceed", "complete"} : at' = [at EXCEPT ![t] = stage]
    <3>1. Tokens' \subseteq {t}
      BY <1>3, <1>6, <2>3 DEF Tokens, IInv, SequenceTypes
    <3> QED
      BY <3>1
  <2>4. CASE completed' = 1 /\ pending' = {} /\ at' = [at EXCEPT ![t] = "poll"]
    <3>1. Tokens' \subseteq {"done"}
      BY <1>3, <1>6, <2>4 DEF Tokens, IInv, SequenceTypes
    <3> QED
      BY <3>1
  <2> QED
    BY <1>5, <2>1, <2>2, <2>3, <2>4
<1>8. OneToken'
  BY <1>7 DEF OneToken
<1>9. Quiet'
  <2>1. conn /\ ~secured => FALSE
    BY <1>2 DEF IInv, Quiet
  <2>2. ~conn => t = "timer" /\ ~link
    BY <1>1 DEF IInv, Quiet, Tasks
  <2>3. ~conn => pending' = {} /\ at'["host"] = "idle"
    BY <1>5, <2>2 DEF IInv, Quiet, SequenceTypes, Tasks
  <2> QED
    BY <1>4, <2>1, <2>3 DEF IInv, Quiet
<1> QED
  BY <1>5, <1>6, <1>8, <1>9 DEF IInv, SequenceTypes

LEMMA AfterKeeps == ASSUME IInv, NEW t \in Tasks, ArmsCtrl(t) \/ StartsPoll(t) PROVE IInv'
<1>1. /\ UNCHANGED <<link, conn, secured, proc, pending, completed>>
      /\ at' = [at EXCEPT ![t] = "idle"]
  BY DEF ArmsCtrl, StartsPoll, Goes, linkVars, discVars, endVars
<1> QED
  BY <1>1, StageKeeps

LEMMA NextKeeps == IInv /\ [Next]_vars => IInv'
<1> SUFFICES ASSUME IInv, [Next]_vars PROVE IInv'
  OBVIOUS
<1>1. CASE Connect \/ Drops \/ Disconnected
  BY <1>1, LinkKeeps
<1>2. CASE Encrypted \/ Discovers
  BY <1>2, DiscoveryKeeps
<1>3. CASE HwInfo \/ \E what \in {"third", "ctrl"} : Acked(what) \/ TimesOut(what)
  BY <1>3, AnswersKeep
<1>4. CASE RetryFires \/ Retries
  BY <1>4, RetryKeeps
<1>5. ASSUME NEW t \in Tasks, (SendsThird /\ t = "host") \/ Finishes(t) PROVE IInv'
  BY <1>5, HolderKeeps, AfterKeeps DEF Finishes
<1>6. CASE UNCHANGED vars
  <2>1. UNCHANGED <<link, conn, secured, proc, pending, completed, at>>
    BY <1>6 DEF vars, linkVars, discVars, seqVars, endVars
  <2> QED
    BY <2>1, StageKeeps DEF Tasks
<1> QED
  BY <1>1, <1>2, <1>3, <1>4, <1>5, <1>6 DEF Next, HostSteps, TimerSteps, Tasks

-----------------------------------------------------------------------------

\* readiness.c: however an answer, its time-out, the retry limit and the loss
\* of the link interleave on the two tasks, a connection completes its
\* sequence at most once.
THEOREM CompletedOnce == Spec => []CompletesOnce
<1>1. IInv => CompletesOnce
  BY DEF IInv, SequenceTypes, CompletesOnce
<1> QED
  BY <1>1, InitIInv, NextKeeps, PTL DEF Spec

\* With the link gone, the host task has nothing to do, no timer runs, and a retry
\* that was past its check arms none again.
LEMMA GoneKeeps == IInv /\ Gone /\ [Next]_vars => Gone'
<1> SUFFICES ASSUME IInv, Gone, [Next]_vars, ~conn', ~raced'
             PROVE  armed' = {} /\ ~ready' /\ at'["timer"] \in {"idle", "retry"}
  BY DEF Gone
<1>1. CASE Disconnected
  BY <1>1 DEF Disconnected
<1>2. CASE Connect
  BY <1>2 DEF Connect
<1>3. ASSUME ~conn, ~raced, armed = {}, ~ready, at["timer"] \in {"idle", "retry"},
             ~Disconnected, ~Connect
      PROVE  armed' = {} /\ ~ready' /\ at'["timer"] \in {"idle", "retry"}
  <2>1. ~link /\ pending = {} /\ at["host"] = "idle" /\ proc = "none"
    BY <1>3 DEF IInv, Quiet
  <2>2. ~Encrypted /\ ~Drops /\ ~HwInfo /\ \A what \in {"third", "ctrl"} : ~Acked(what)
    BY <2>1 DEF Encrypted, Drops, HwInfo, Acked, Hears
  <2>3. ~Discovers
    BY <2>1 DEF Discovers, MtuExchanged, ServiceFound, ServicesDone, ServicesFail,
       NextCharacteristics, CharacteristicFound, CharacteristicsEnd, NextDescriptors,
       DescriptorFound, DescriptorsEnd, NextSubscription, SubscriptionEnds, Callback
  <2>4. ~RetryFires /\ \A what \in {"third", "ctrl"} : ~TimesOut(what)
    BY <1>3 DEF RetryFires, TimesOut
  <2>5. ~SendsThird /\ \A t \in Tasks : ~Finishes(t)
    BY <1>3, <2>1 DEF SendsThird, Finishes, Proceeds, ArmsCtrl, Completes, StartsPoll, Tasks
  <2>6. CASE Retries
    BY <1>3, <2>6 DEF Retries, Goes, endVars, IInv, SequenceTypes, Tasks
  <2>7. CASE UNCHANGED vars
    BY <1>3, <2>7 DEF vars, seqVars, endVars
  <2> QED
    BY <1>3, <2>2, <2>3, <2>4, <2>5, <2>6, <2>7 DEF Next, HostSteps, TimerSteps, Tasks
<1>4. ~Disconnected /\ ~Connect => conn' = conn /\ raced' = raced
  <2>1. Encrypted \/ Drops \/ HwInfo \/ SendsThird \/ RetryFires \/ Retries
          => conn' = conn /\ raced' = raced
    BY DEF Encrypted, Drops, HwInfo, SendsThird, RetryFires, Retries, linkVars
  <2>2. Discovers => conn' = conn /\ raced' = raced
    BY DEF Discovers, MtuExchanged, ServiceFound, ServicesDone, ServicesFail,
       NextCharacteristics, CharacteristicFound, CharacteristicsEnd, NextDescriptors,
       DescriptorFound, DescriptorsEnd, NextSubscription, SubscriptionEnds, Callback, linkVars
  <2>3. \A what \in {"third", "ctrl"} : Acked(what) \/ TimesOut(what)
          => conn' = conn /\ raced' = raced
    BY DEF Acked, TimesOut, linkVars
  <2>4. \A t \in Tasks : Finishes(t) => conn' = conn /\ raced' = raced
    BY DEF Finishes, Proceeds, ArmsCtrl, Completes, StartsPoll, linkVars
  <2>5. UNCHANGED vars => conn' = conn /\ raced' = raced
    BY DEF vars, linkVars
  <2> QED
    BY <2>1, <2>2, <2>3, <2>4, <2>5 DEF Next, HostSteps, TimerSteps, Tasks
<1> QED
  BY <1>1, <1>2, <1>3, <1>4 DEF Gone

\* pairing.c:gopro_on_disconnected: whatever the connection was in the middle of,
\* up to a retry that has yet to look at its flag, nothing of it outlives the
\* link: no flag, no timer, no slot that is still ready.  A time-out that has
\* claimed its flag and not yet acted on it is excepted (raced): it goes on.
THEOREM LeavesQuiet == Spec => []QuietWhenGone
<1>1. Init => Gone
  BY DEF Init, Gone, Tasks
<1>2. IInv /\ Gone => QuietWhenGone
  BY DEF IInv, Quiet, Gone, QuietWhenGone
<1> QED
  BY <1>1, <1>2, InitIInv, NextKeeps, GoneKeeps, PTL DEF Spec

-----------------------------------------------------------------------------
(***************************************************************************)
(* The discovery: what its lists have at each of its stages.               *)
(***************************************************************************)

Entries == [val: Handles, end: 0..Len(Attributes), cccd: 0..Len(Attributes)]

\* What notifies in the first n services, or in service n up to handle t.
Seen(n) == {h \in Notifying : \E i \in 1..n : h \in Services[i].start..Services[i].end}
SeenIn(n, t) == {h \in Notifying : h \in Services[n].start..Services[n].end /\ h <= t}

\* s_notify_list has every one of S, once.
Lists(S) ==
    /\ notify \in Seq(Entries)
    /\ {notify[i].val : i \in 1..Len(notify)} = S /\ Cardinality(S) = Len(notify)

\* The range of an entry has all CCCDs of its characteristic, and no other.
Reaches(e) == OwnCccds(e.val) \subseteq (e.val + 1)..e.end
Clean(e)   == \A k \in (e.val + 1)..e.end : Attributes[k] \in {"cccd", "descriptor"}

\* Its CCCD was not yet looked for; what was found is its own; nothing is left to find.
Blank(e)    == Reaches(e) /\ e.cccd = 0
Sound(e)    == Reaches(e) /\ Clean(e) /\ (e.cccd # 0 => e.cccd \in OwnCccds(e.val))
Resolved(e) == e.cccd = 0 => OwnCccds(e.val) = {}

TellingServices ==
    proc = "services" => told \in 0..Len(Services) /\ services = told /\ notify = << >>

BetweenServices ==
    at["host"] = "chrs" =>
        /\ services = Len(Services) /\ svcCur \in 0..Len(Services)
        /\ Lists(Seen(svcCur))
        /\ \A i \in 1..Len(notify) : Blank(notify[i]) /\ Clean(notify[i])

\* The bound of the last entry is its service's, as long as no other has followed.
InService ==
    proc = "chrs" =>
        /\ services = Len(Services) /\ svcCur \in 1..Len(Services)
        /\ told \in Nat /\ told >= Services[svcCur].start - 1
        /\ Lists(Seen(svcCur - 1) \cup SeenIn(svcCur, told))
        /\ last \in 0..Len(notify)
        /\ \A i \in 1..Len(notify) : Blank(notify[i]) /\ (i # last => Clean(notify[i]))
        /\ last # 0 => notify[last].val = told /\ notify[last].end = Services[svcCur].end

BetweenEntries ==
    at["host"] = "dscs" =>
        /\ Lists(Notifying) /\ dscCur \in 1..(Len(notify) + 1)
        /\ \A i \in 1..Len(notify) :
              Sound(notify[i]) /\ (i < dscCur => Resolved(notify[i]))

InEntry ==
    proc = "dscs" =>
        /\ Lists(Notifying) /\ dscCur \in 1..Len(notify) /\ told \in Nat
        /\ \A i \in 1..Len(notify) :
              Sound(notify[i]) /\ (i < dscCur => Resolved(notify[i]))
        /\ notify[dscCur].val <= told /\ told <= notify[dscCur].end
        /\ notify[dscCur].cccd = 0 => \A c \in OwnCccds(notify[dscCur].val) : told < c

Subscribing ==
    at["host"] = "cccds" \/ proc = "cccd" =>
        /\ Lists(Notifying) /\ subscrCur \in 1..(Len(notify) + 1)
        /\ \A i \in 1..Len(notify) : Sound(notify[i]) /\ Resolved(notify[i])
        /\ proc = "cccd" => subscrCur <= Len(notify) /\ notify[subscrCur].cccd # 0
        /\ subscribed = {notify[i].cccd : i \in 1..(subscrCur - 1)} \ {0}

Subscribed == "ready" \in pending => subscribed = UNION {OwnCccds(h) : h \in Notifying}

\* Nothing is subscribed before the discovery is over.
Fresh ==
    \/ ~secured
    \/ proc \in {"mtu", "services", "chrs", "dscs"}
    \/ at["host"] \in {"chrs", "dscs"}
    => subscribed = {}

Phases == /\ TellingServices /\ BetweenServices /\ InService
          /\ BetweenEntries /\ InEntry /\ Subscribing /\ Subscribed

DiscInv == Fresh /\ (~errored => Phases)

LEMMA Sizes ==
    /\ Len(Attributes) \in Nat /\ Len(Services) \in Nat /\ MaxNotify \in Nat
    /\ \A h \in Handles : Attributes[h] \in Kinds
    /\ \A i \in 1..Len(Services) :
          Services[i].start \in Nat \ {0} /\ Services[i].end \in 0..Len(Attributes)
<1>1. \A i \in 1..Len(Services) : Services[i] \in [start: Nat \ {0}, end: 0..Len(Attributes)]
  BY AttributesAssumption, ElementOfSeq
<1>2. \A i \in 1..Len(Attributes) : Attributes[i] \in Kinds
  BY AttributesAssumption
<1> QED
  BY <1>1, <1>2, AttributesAssumption, LimitsAssumption DEF Handles

\* The list has room for what it does not have yet.
LEMMA Room ==
    ASSUME WellFormed, NEW S, S \subseteq Notifying, NEW h \in Notifying, h \notin S,
           NEW n \in Nat, Cardinality(S) = n
    PROVE  n < MaxNotify /\ Cardinality(S \cup {h}) = n + 1
<1>1. IsFiniteSet(Notifying)
  <2>1. IsFiniteSet(Handles)
    BY Sizes, FS_Interval DEF Handles
  <2> QED
    BY <2>1, FS_Subset DEF Notifying
<1>2. IsFiniteSet(S) /\ IsFiniteSet(S \cup {h}) /\ S \cup {h} \subseteq Notifying
  BY <1>1, FS_Subset
<1>3. Cardinality(S \cup {h}) = n + 1
  BY <1>2, FS_AddElement
<1>4. Cardinality(S \cup {h}) <= Cardinality(Notifying) /\ Cardinality(Notifying) \in Nat
  BY <1>1, <1>2, FS_Subset, FS_CardinalityType
<1> QED
  BY <1>3, <1>4, Sizes DEF WellFormed

\* A step of the rest of the sequence leaves the discovery's state alone.
LEMMA SequenceKeepsDisc ==
    ASSUME DiscInv, UNCHANGED discVars, ~secured' => ~secured,
           "ready" \in pending' => "ready" \in pending,
           at'["host"] \in {"chrs", "dscs", "cccds"} => at'["host"] = at["host"]
    PROVE  DiscInv'
<1>1. /\ UNCHANGED <<proc, told, services, svcCur, notify, last, dscCur, subscrCur>>
      /\ UNCHANGED <<found, subscribed, errored>>
  BY DEF discVars
<1>2. Fresh'
  BY <1>1 DEF DiscInv, Fresh
<1>3. ASSUME ~errored PROVE Phases'
  <2>1. Phases
    BY <1>3 DEF DiscInv
  <2>2. TellingServices' /\ Subscribed'
    BY <1>1, <2>1 DEF Phases, TellingServices, Subscribed
  <2>3. BetweenServices'
    BY <1>1, <2>1 DEF Phases, BetweenServices, Lists, Blank, Clean, Reaches
  <2>4. InService'
    BY <1>1, <2>1 DEF Phases, InService, Lists, Blank, Clean, Reaches
  <2>5. BetweenEntries'
    BY <1>1, <2>1 DEF Phases, BetweenEntries, Lists, Sound, Clean, Resolved, Reaches
  <2>6. InEntry'
    BY <1>1, <2>1 DEF Phases, InEntry, Lists, Sound, Clean, Resolved, Reaches
  <2>7. Subscribing'
    BY <1>1, <2>1 DEF Phases, Subscribing, Lists, Sound, Clean, Resolved, Reaches
  <2> QED
    BY <2>2, <2>3, <2>4, <2>5, <2>6, <2>7 DEF Phases
<1> QED
  BY <1>1, <1>2, <1>3 DEF DiscInv

\* Nothing is in the course of being discovered, or is being polled.
LEMMA IdleIsDisc ==
    ASSUME proc \in {"none", "mtu"}, at["host"] \notin {"chrs", "dscs", "cccds"},
           "ready" \notin pending
    PROVE  Phases
  BY DEF Phases, TellingServices, BetweenServices, InService, BetweenEntries, InEntry,
     Subscribing, Subscribed

LEMMA LinkKeepsDisc ==
    ASSUME IInv, DiscInv, Connect \/ Drops \/ Disconnected PROVE DiscInv'
<1>1. CASE Connect
  <2>1. UNCHANGED discVars /\ UNCHANGED <<secured, pending, at>>
    BY <1>1 DEF Connect, seqVars
  <2> QED
    BY <2>1, SequenceKeepsDisc
<1>2. CASE Drops
  <2>1. UNCHANGED discVars /\ UNCHANGED <<secured, pending, at>>
    BY <1>2 DEF Drops, seqVars
  <2> QED
    BY <2>1, SequenceKeepsDisc
<1>3. CASE Disconnected
  <2>1. /\ proc' = "none" /\ at'["host"] = "idle" /\ pending' = {} /\ subscribed' = {}
    BY <1>3 DEF Disconnected
  <2>2. Phases'
    BY <2>1, IdleIsDisc DEF Phases, TellingServices, BetweenServices, InService,
       BetweenEntries, InEntry, Subscribing, Subscribed
  <2> QED
    BY <2>1, <2>2 DEF DiscInv, Fresh
<1> QED
  BY <1>1, <1>2, <1>3

\* While the discovery has the token nothing polls.
LEMMA DiscoveryAlone ==
    ASSUME IInv, Discovering PROVE pending = {} /\ conn /\ secured
<1>1. Tokens = {"discovery"}
  BY Holder DEF Tokens
<1> QED
  BY <1>1 DEF Tokens, IInv, Quiet, SequenceTypes, Discovering

LEMMA StartKeepsDisc ==
    ASSUME IInv, DiscInv, Encrypted \/ MtuExchanged PROVE DiscInv'
<1>1. /\ pending' = {} /\ subscribed' = {} /\ at'["host"] = "idle"
      /\ proc' = "mtu" \/ StartsDiscovery
  <2>1. CASE Encrypted
    <3>1. Tokens = {} /\ subscribed = {}
      BY <2>1 DEF Encrypted, IInv, Quiet, DiscInv, Fresh
    <3> QED
      BY <2>1, <3>1 DEF Encrypted, StartsDiscovery, seqVars, Tokens
  <2>2. CASE MtuExchanged
    <3>1. pending = {} /\ subscribed = {}
      BY <2>2, DiscoveryAlone DEF MtuExchanged, Callback, Discovering, DiscInv, Fresh
    <3> QED
      BY <2>2, <3>1 DEF MtuExchanged, Callback, StartsDiscovery, seqVars
  <2> QED
    BY <2>1, <2>2
<1>2. Fresh'
  BY <1>1 DEF Fresh
<1>3. Phases'
  <2>1. CASE proc' = "mtu"
    BY <1>1, <2>1 DEF Phases, TellingServices, BetweenServices, InService, BetweenEntries,
       InEntry, Subscribing, Subscribed
  <2>2. CASE StartsDiscovery
    <3>1. /\ proc' \in {"services", "none"} /\ told' = 0 /\ services' = 0 /\ notify' = << >>
          /\ 0 \in 0..Len(Services)
      BY <2>2, Sizes DEF StartsDiscovery
    <3> QED
      BY <1>1, <3>1 DEF Phases, TellingServices, BetweenServices, InService, BetweenEntries,
         InEntry, Subscribing, Subscribed
  <2> QED
    BY <1>1, <2>1, <2>2
<1> QED
  BY <1>2, <1>3 DEF DiscInv

LEMMA ServicesKeepDisc ==
    ASSUME WellFormed, IInv, DiscInv, ServiceFound \/ ServicesDone \/ ServicesFail
    PROVE  DiscInv'
<1>1. proc = "services" /\ at["host"] = "idle" /\ pending' = {} /\ subscribed' = {}
  <2>1. /\ proc = "services" /\ at["host"] = "idle"
        /\ UNCHANGED <<pending, subscribed>>
    BY DEF ServiceFound, ServicesDone, ServicesFail, Callback, seqVars
  <2>2. pending = {} /\ subscribed = {}
    BY <2>1, DiscoveryAlone DEF Discovering, DiscInv, Fresh
  <2> QED
    BY <2>1, <2>2
<1>2. Fresh'
  BY <1>1 DEF Fresh
<1>3. ASSUME ~errored' PROVE Phases'
  <2>1. ~errored /\ told \in 0..Len(Services) /\ services = told /\ notify = << >>
    BY <1>1, <1>3 DEF ServiceFound, ServicesDone, ServicesFail, DiscInv, Phases, TellingServices
  <2>2. CASE ServiceFound
    <3>1. /\ proc' = "services" /\ at'["host"] = "idle" /\ notify' = << >>
          /\ told < Len(Services) /\ told' = told + 1
          /\ services' = IF services < MaxServices THEN services + 1 ELSE services
      BY <1>1, <2>1, <2>2 DEF ServiceFound
    <3>2. Len(Services) <= MaxServices /\ MaxServices \in Nat
      BY LimitsAssumption DEF WellFormed
    <3>3. services' = told' /\ told' \in 0..Len(Services)
      BY <2>1, <3>1, <3>2, Sizes
    <3> QED
      BY <1>1, <3>1, <3>3 DEF Phases, TellingServices, BetweenServices, InService,
         BetweenEntries, InEntry, Subscribing, Subscribed
  <2>3. CASE ServicesDone
    <3>1. /\ proc' = "none" /\ at'["host"] = "chrs" /\ notify' = << >> /\ svcCur' = 0
          /\ services' = Len(Services)
      BY <2>1, <2>3 DEF ServicesDone, Goes, IInv, SequenceTypes, Tasks
    <3>2. Seen(0) = {}
      BY DEF Seen
    <3>3. (notify \in Seq(Entries) /\ {notify[i].val : i \in 1..Len(notify)} = {}
              /\ Cardinality({}) = Len(notify))'
      BY <3>1, FS_EmptySet
    <3>4. BetweenServices'
      BY <3>1, <3>2, <3>3, Sizes DEF BetweenServices, Lists
    <3> QED
      BY <1>1, <3>1, <3>4 DEF Phases, TellingServices, InService, BetweenEntries, InEntry,
         Subscribing, Subscribed
  <2>4. ~ServicesFail
    BY <1>3 DEF ServicesFail
  <2> QED
    BY <2>2, <2>3, <2>4
<1> QED
  BY <1>2, <1>3 DEF DiscInv

\* All that notifies is in some service.
LEMMA AllSeen == WellFormed => Seen(Len(Services)) = Notifying
  BY DEF WellFormed, Seen

LEMMA NextCharacteristicsKeeps ==
    ASSUME WellFormed, IInv, DiscInv, NextCharacteristics PROVE DiscInv'
<1>1. /\ at["host"] = "chrs" /\ proc = "none" /\ pending' = {} /\ subscribed' = {}
      /\ svcCur' = svcCur + 1 /\ services' = services /\ notify' = notify
  <2>1. /\ at["host"] = "chrs" /\ UNCHANGED <<pending, subscribed, services, notify>>
        /\ svcCur' = svcCur + 1
    BY DEF NextCharacteristics, seqVars
  <2>2. pending = {} /\ subscribed = {} /\ proc = "none"
    BY <2>1, DiscoveryAlone DEF Discovering, DiscInv, Fresh, IInv, Quiet
  <2> QED
    BY <2>1, <2>2
<1>2. Fresh'
  BY <1>1 DEF Fresh
<1>3. ASSUME ~errored' PROVE Phases'
  <2>1. ~errored
    BY <1>3 DEF NextCharacteristics
  <2>2. /\ services = Len(Services) /\ svcCur \in 0..Len(Services)
        /\ Lists(Seen(svcCur))
        /\ \A i \in 1..Len(notify) : Blank(notify[i]) /\ Clean(notify[i])
    BY <1>1, <2>1 DEF DiscInv, Phases, BetweenServices
  <2>3. notify \in Seq(Entries) /\ Len(notify) \in Nat
    BY <2>2 DEF Lists
  <2>4. CASE svcCur + 1 > services
    <3>1. /\ proc' = "none" /\ at'["host"] = "dscs" /\ dscCur' = 1
      BY <1>1, <2>4 DEF NextCharacteristics, Goes, IInv, SequenceTypes, Tasks
    <3>2. svcCur = Len(Services)
      BY <2>2, <2>4, Sizes
    <3>3. Lists(Notifying)
      BY <2>2, <3>2, AllSeen
    <3>4. Lists(Notifying)'
      BY <1>1, <3>3 DEF Lists
    <3>5. \A i \in 1..Len(notify) : Sound(notify[i])
      BY <2>2 DEF Blank, Sound
    <3>6. 1 \in 1..(Len(notify) + 1) /\ \A i \in 1..Len(notify) : ~(i < 1)
      BY <2>3
    <3>7. BetweenEntries'
      BY <1>1, <3>1, <3>4, <3>5, <3>6 DEF BetweenEntries, Sound, Reaches, Clean
    <3> QED
      BY <1>1, <3>1, <3>7 DEF Phases, TellingServices, BetweenServices, InService, InEntry,
         Subscribing, Subscribed
  <2>5. CASE ~(svcCur + 1 > services)
    <3>1. /\ proc' = "chrs" /\ at'["host"] = "idle" /\ last' = 0
          /\ told' = Services[svcCur + 1].start - 1
      BY <1>1, <1>3, <2>5 DEF NextCharacteristics, Goes, IInv, SequenceTypes, Tasks
    <3>2. svcCur + 1 \in 1..Len(Services) /\ (svcCur + 1) - 1 = svcCur
      BY <2>2, <2>5, Sizes
    <3>3. told' \in Nat /\ told' >= Services[svcCur + 1].start - 1
      BY <3>1, <3>2, Sizes
    <3>4. SeenIn(svcCur + 1, told') = {}
      BY <3>1, <3>2, Sizes DEF SeenIn, Notifying, Handles
    <3>5. Lists(Seen(svcCur) \cup SeenIn(svcCur + 1, told'))
      BY <2>2, <3>4
    <3>6. Lists(Seen(svcCur - 1) \cup SeenIn(svcCur, told))'
      <4>1. svcCur' - 1 = svcCur
        BY <1>1, <3>2
      <4>2. Seen(svcCur' - 1) \cup SeenIn(svcCur', told')
              = Seen(svcCur) \cup SeenIn(svcCur + 1, told')
        BY <1>1, <4>1
      <4> QED
        BY <1>1, <3>5, <4>2 DEF Lists
    <3>7. InService'
      <4>1. (last \in 0..Len(notify))'
        BY <1>1, <2>3, <3>1
      <4>2. (\A i \in 1..Len(notify) : Blank(notify[i]) /\ Clean(notify[i]))'
        BY <1>1, <2>2 DEF Blank, Clean, Reaches
      <4> QED
        BY <1>1, <2>2, <3>1, <3>2, <3>3, <3>6, <4>1, <4>2 DEF InService
    <3> QED
      BY <1>1, <3>1, <3>7 DEF Phases, TellingServices, BetweenServices, BetweenEntries, InEntry,
         Subscribing, Subscribed
  <2> QED
    BY <2>4, <2>5
<1> QED
  BY <1>2, <1>3 DEF DiscInv

\* The next characteristic of a service: what notifies is that one, if it does.
LEMMA NextOne ==
    ASSUME WellFormed, svcCur \in 1..Len(Services), told \in Nat,
           told >= Services[svcCur].start - 1,
           NEW h \in Characteristics, \A k \in Characteristics : h <= k
    PROVE  /\ h \in Handles /\ told < h /\ h <= Services[svcCur].end
           /\ Attributes[h] \notin {"cccd", "descriptor"}
           /\ \A k \in (told + 1)..(h - 1) : Attributes[k] \in {"cccd", "descriptor"}
           /\ h \notin Seen(svcCur - 1) \cup SeenIn(svcCur, told)
           /\ SeenIn(svcCur, h) = SeenIn(svcCur, told) \cup {k \in {h} : Notifies(k)}
<1> USE Sizes
<1>1. /\ h \in Nat /\ told < h /\ h <= Services[svcCur].end /\ h \in Handles
      /\ Attributes[h] \notin {"cccd", "descriptor"}
  BY DEF Characteristics, Handles
<1>2. ASSUME NEW k \in (told + 1)..(h - 1) PROVE Attributes[k] \in {"cccd", "descriptor"}
  <2>1. k \in Handles /\ k \in (told + 1)..Services[svcCur].end /\ ~(h <= k)
    BY <1>1 DEF Handles
  <2> QED
    BY <2>1 DEF Characteristics, Kinds
<1>3. h \notin Seen(svcCur - 1)
  <2> SUFFICES ASSUME NEW i \in 1..(svcCur - 1), h \in Services[i].start..Services[i].end
               PROVE  FALSE
    BY DEF Seen
  <2>1. i \in 1..Len(Services) /\ i < svcCur
    OBVIOUS
  <2>2. Services[i].end < Services[svcCur].start
    BY <2>1 DEF WellFormed
  <2> QED
    BY <1>1, <2>1, <2>2
<1>4. h \notin SeenIn(svcCur, told)
  BY <1>1 DEF SeenIn
<1>5. ASSUME NEW k PROVE k \in SeenIn(svcCur, h) <=>
                          k \in SeenIn(svcCur, told) \/ (k = h /\ Notifies(h))
  <2>1. CASE k \in Handles
    <3>1. k = h => k \in Services[svcCur].start..Services[svcCur].end
      BY <1>1
    <3>2. k <= h <=> k <= told \/ k \in (told + 1)..(h - 1) \/ k = h
      BY <1>1, <2>1 DEF Handles
    <3>3. k \in (told + 1)..(h - 1) => ~Notifies(k)
      BY <1>2 DEF Notifies
    <3>4. k <= told => k <= h
      BY <1>1, <2>1 DEF Handles
    <3> QED
      BY <2>1, <3>1, <3>2, <3>3, <3>4 DEF SeenIn, Notifying
  <2>2. CASE k \notin Handles
    BY <1>1, <2>2 DEF SeenIn, Notifying
  <2> QED
    BY <2>1, <2>2
<1> QED
  BY <1>1, <1>2, <1>3, <1>4, <1>5

\* The last entry's range now ends before h, and still reaches its CCCDs.
LEMMA PatchKeeps ==
    ASSUME notify \in Seq(Entries), last \in 0..Len(notify), told \in Nat,
           \A i \in 1..Len(notify) : Blank(notify[i]) /\ (i # last => Clean(notify[i])),
           last # 0 => notify[last].val = told,
           NEW h \in Handles, told < h, Attributes[h] \notin {"cccd", "descriptor"},
           \A k \in (told + 1)..(h - 1) : Attributes[k] \in {"cccd", "descriptor"}
    PROVE  /\ Patched(h) \in Seq(Entries) /\ Len(Patched(h)) = Len(notify)
           /\ \A i \in 1..Len(notify) :
                 /\ Patched(h)[i].val = notify[i].val
                 /\ Blank(Patched(h)[i]) /\ Clean(Patched(h)[i])
<1>1. CASE last = 0
  BY <1>1 DEF Patched
<1>2. CASE last # 0
  <2>1. /\ last \in 1..Len(notify) /\ notify[last] \in Entries /\ notify[last].val = told
        /\ Blank(notify[last]) /\ h - 1 \in 0..Len(Attributes) /\ told \in Handles
    <3>1. last \in 1..Len(notify)
      BY <1>2
    <3>2. notify[last] \in Entries
      BY <3>1, ElementOfSeq
    <3> QED
      BY <1>2, <3>1, <3>2, Sizes DEF Handles, Entries
  <2> DEFINE e == [notify[last] EXCEPT !.end = h - 1]
  <2>2. e \in Entries /\ e.val = told /\ e.end = h - 1 /\ e.cccd = 0
    BY <2>1 DEF Entries, Blank
  <2>3. Patched(h) = [notify EXCEPT ![last] = e]
    BY <1>2, <2>1 DEF Patched
  <2> HIDE DEF e
  <2>4. /\ Patched(h) \in Seq(Entries) /\ Len(Patched(h)) = Len(notify)
        /\ \A i \in 1..Len(notify) : Patched(h)[i] = IF i = last THEN e ELSE notify[i]
    BY <2>1, <2>2, <2>3
  <2>5. OwnCccds(told) \subseteq (told + 1)..(h - 1)
    <3> SUFFICES ASSUME NEW c \in OwnCccds(told) PROVE c \in (told + 1)..(h - 1)
      OBVIOUS
    <3>1. c \in Nat /\ told < c /\ h \notin (told + 1)..c
      BY Sizes DEF OwnCccds, Handles
    <3> QED
      BY <3>1 DEF Handles
  <2>6. Blank(e) /\ Clean(e)
    BY <2>2, <2>5 DEF Blank, Clean, Reaches
  <2> QED
    BY <2>1, <2>2, <2>4, <2>6
<1> QED
  BY <1>1, <1>2

LEMMA CharacteristicKeeps ==
    ASSUME WellFormed, IInv, DiscInv, CharacteristicFound PROVE DiscInv'
<1>1. /\ at' = at /\ at["host"] = "idle" /\ proc = "chrs" /\ proc' = "chrs"
      /\ pending' = {} /\ subscribed' = {}
      /\ UNCHANGED <<svcCur, services, errored>>
  <2>1. /\ UNCHANGED <<at, proc, svcCur, services, errored, subscribed, pending>>
        /\ proc = "chrs" /\ at["host"] = "idle"
    BY DEF CharacteristicFound, Callback, seqVars
  <2>2. pending = {} /\ subscribed = {}
    BY <2>1, DiscoveryAlone DEF Discovering, DiscInv, Fresh
  <2> QED
    BY <2>1, <2>2
<1>2. Fresh'
  BY <1>1 DEF Fresh
<1>3. ASSUME ~errored' PROVE Phases'
  <2>1. InService
    BY <1>1, <1>3 DEF DiscInv, Phases
  <2>2. PICK h \in Characteristics :
          /\ \A k \in Characteristics : h <= k
          /\ told' = h
          /\ IF Notifies(h) /\ Len(notify) < MaxNotify
             THEN notify' = Append(Patched(h), Queued(h)) /\ last' = Len(notify) + 1
             ELSE notify' = Patched(h) /\ last' = 0
    BY DEF CharacteristicFound
  <2> DEFINE S == Seen(svcCur - 1) \cup SeenIn(svcCur, told)
  <2>3. /\ services = Len(Services) /\ svcCur \in 1..Len(Services)
        /\ told \in Nat /\ told >= Services[svcCur].start - 1
        /\ Lists(S) /\ last \in 0..Len(notify)
        /\ \A i \in 1..Len(notify) : Blank(notify[i]) /\ (i # last => Clean(notify[i]))
        /\ last # 0 => notify[last].val = told /\ notify[last].end = Services[svcCur].end
    BY <1>1, <2>1 DEF InService
  <2>4. /\ h \in Handles /\ told < h /\ h <= Services[svcCur].end
        /\ Attributes[h] \notin {"cccd", "descriptor"}
        /\ \A k \in (told + 1)..(h - 1) : Attributes[k] \in {"cccd", "descriptor"}
        /\ h \notin S
        /\ SeenIn(svcCur, h) = SeenIn(svcCur, told) \cup {k \in {h} : Notifies(k)}
    BY <2>2, <2>3, NextOne
  <2>5. S \subseteq Notifying /\ notify \in Seq(Entries) /\ Len(notify) \in Nat
        /\ {notify[i].val : i \in 1..Len(notify)} = S /\ Cardinality(S) = Len(notify)
    <3>1. S \subseteq Notifying
      BY DEF Seen, SeenIn
    <3>2. Lists(S)
      BY <2>3
    <3> HIDE DEF S
    <3> QED
      BY <3>1, <3>2 DEF Lists
  <2> HIDE DEF S
  <2>6. /\ Patched(h) \in Seq(Entries) /\ Len(Patched(h)) = Len(notify)
        /\ \A i \in 1..Len(notify) :
              /\ Patched(h)[i].val = notify[i].val
              /\ Blank(Patched(h)[i]) /\ Clean(Patched(h)[i])
    BY <2>3, <2>4, <2>5, PatchKeeps
  <2>7. told' \in Nat /\ told' >= Services[svcCur].start - 1
    BY <2>2, <2>3, <2>4, Sizes DEF Handles
  <2>8. Seen(svcCur' - 1) \cup SeenIn(svcCur', told') = S \cup {k \in {h} : Notifies(k)}
    BY <1>1, <2>2, <2>4 DEF S
  <2>9. CASE Notifies(h)
    <3>1. h \in Notifying
      BY <2>4, <2>9 DEF Notifying
    <3>2. Len(notify) < MaxNotify /\ Cardinality(S \cup {h}) = Len(notify) + 1
      BY <2>4, <2>5, <3>1, Room
    <3>3. notify' = Append(Patched(h), Queued(h)) /\ last' = Len(notify) + 1
      BY <2>2, <2>9, <3>2
    <3>4. Queued(h) \in Entries /\ Queued(h).val = h /\ Queued(h).end = Services[svcCur].end
          /\ Queued(h).cccd = 0
      BY <2>3, <2>4, Sizes DEF Queued, Entries
    <3>5. Blank(Queued(h))
      <4>1. h \in Services[svcCur].start..Services[svcCur].end
        BY <2>3, <2>4, Sizes DEF Handles
      <4>2. OwnCccds(h) \subseteq (h + 1)..Services[svcCur].end
        BY <2>3, <3>1, <4>1 DEF WellFormed
      <4> QED
        BY <3>4, <4>2 DEF Blank, Reaches
    <3>6. /\ notify' \in Seq(Entries) /\ Len(notify') = Len(notify) + 1
          /\ \A i \in 1..Len(notify) : notify'[i] = Patched(h)[i]
          /\ notify'[Len(notify) + 1] = Queued(h)
      BY <2>5, <2>6, <3>3, <3>4
    <3>7. {notify'[i].val : i \in 1..Len(notify')} = S \cup {h}
      <4>1. \A i \in 1..Len(notify) : notify'[i].val = notify[i].val
        BY <2>6, <3>6
      <4>2. \A i \in 1..Len(notify') : i \in 1..Len(notify) \/ i = Len(notify) + 1
        BY <2>5, <3>6
      <4>3. \A i \in 1..Len(notify) : i \in 1..Len(notify')
        BY <2>5, <3>6
      <4>4. Len(notify) + 1 \in 1..Len(notify')
        BY <2>5, <3>6
      <4> QED
        BY <2>5, <3>4, <3>6, <4>1, <4>2, <4>3, <4>4
    <3>8. Lists(Seen(svcCur - 1) \cup SeenIn(svcCur, told))'
      <4>1. Seen(svcCur' - 1) \cup SeenIn(svcCur', told') = S \cup {h}
        BY <2>8, <2>9
      <4> QED
        BY <3>2, <3>6, <3>7, <4>1 DEF Lists
    <3>9. (\A i \in 1..Len(notify) : Blank(notify[i]) /\ (i # last => Clean(notify[i])))'
      <4> SUFFICES ASSUME NEW i \in 1..Len(notify')
                   PROVE  Blank(notify'[i]) /\ (i # last' => Clean(notify'[i]))
        BY DEF Blank, Clean, Reaches
      <4>1. i \in 1..Len(notify) \/ i = Len(notify) + 1
        BY <2>5, <3>6
      <4> QED
        BY <2>6, <3>3, <3>5, <3>6, <4>1
    <3>10. (/\ last \in 0..Len(notify)
            /\ last # 0 => notify[last].val = told /\ notify[last].end = Services[svcCur].end)'
      BY <1>1, <2>2, <2>5, <3>3, <3>4, <3>6
    <3>11. InService'
      BY <1>1, <2>3, <2>7, <3>8, <3>9, <3>10 DEF InService
    <3> QED
      BY <1>1, <3>11 DEF Phases, TellingServices, BetweenServices, BetweenEntries, InEntry,
         Subscribing, Subscribed
  <2>10. CASE ~Notifies(h)
    <3>1. notify' = Patched(h) /\ last' = 0
      BY <2>2, <2>10
    <3>2. {notify'[i].val : i \in 1..Len(notify')} = S
      BY <2>5, <2>6, <3>1
    <3>3. Lists(Seen(svcCur - 1) \cup SeenIn(svcCur, told))'
      <4>1. Seen(svcCur' - 1) \cup SeenIn(svcCur', told') = S
        BY <2>8, <2>10
      <4> QED
        BY <2>5, <2>6, <3>1, <3>2, <4>1 DEF Lists
    <3>4. (\A i \in 1..Len(notify) : Blank(notify[i]) /\ (i # last => Clean(notify[i])))'
      BY <2>6, <3>1 DEF Blank, Clean, Reaches
    <3>5. (last \in 0..Len(notify))'
      BY <2>5, <2>6, <3>1
    <3>6. InService'
      BY <1>1, <2>3, <2>7, <3>1, <3>3, <3>4, <3>5 DEF InService
    <3> QED
      BY <1>1, <3>6 DEF Phases, TellingServices, BetweenServices, BetweenEntries, InEntry,
         Subscribing, Subscribed
  <2> QED
    BY <2>9, <2>10
<1> QED
  BY <1>2, <1>3 DEF DiscInv

LEMMA CharacteristicsEndKeeps ==
    ASSUME WellFormed, IInv, DiscInv, CharacteristicsEnd PROVE DiscInv'
<1>1. /\ at'["host"] = "chrs" /\ proc = "chrs" /\ proc' = "none"
      /\ pending' = {} /\ subscribed' = {}
      /\ UNCHANGED <<svcCur, services, notify>>
  <2>1. /\ UNCHANGED <<svcCur, services, notify, subscribed, pending>>
        /\ proc = "chrs" /\ proc' = "none" /\ at' = [at EXCEPT !["host"] = "chrs"]
    BY DEF CharacteristicsEnd, Callback, seqVars, Goes
  <2>2. pending = {} /\ subscribed = {}
    BY <2>1, DiscoveryAlone DEF Discovering, DiscInv, Fresh
  <2> QED
    BY <2>1, <2>2 DEF IInv, SequenceTypes, Tasks
<1>2. Fresh'
  BY <1>1 DEF Fresh
<1>3. ASSUME ~errored' PROVE Phases'
  <2>1. ~errored /\ Characteristics = {}
    BY <1>3 DEF CharacteristicsEnd
  <2>2. /\ services = Len(Services) /\ svcCur \in 1..Len(Services)
        /\ told \in Nat /\ told >= Services[svcCur].start - 1
        /\ Lists(Seen(svcCur - 1) \cup SeenIn(svcCur, told))
        /\ last \in 0..Len(notify)
        /\ \A i \in 1..Len(notify) : Blank(notify[i]) /\ (i # last => Clean(notify[i]))
        /\ last # 0 => notify[last].val = told /\ notify[last].end = Services[svcCur].end
    BY <1>1, <2>1 DEF DiscInv, Phases, InService
  <2>3. \A k \in (told + 1)..Services[svcCur].end : Attributes[k] \in {"cccd", "descriptor"}
    <3> SUFFICES ASSUME NEW k \in (told + 1)..Services[svcCur].end
                 PROVE  Attributes[k] \in {"cccd", "descriptor"}
      OBVIOUS
    <3>1. k \in Handles
      BY <2>2, Sizes DEF Handles
    <3> QED
      BY <2>1, <3>1, Sizes DEF Characteristics, Kinds
  <2>4. Seen(svcCur - 1) \cup SeenIn(svcCur, told) = Seen(svcCur)
    <3>1. ASSUME NEW k \in Notifying, k \in Services[svcCur].start..Services[svcCur].end
          PROVE  k <= told
      BY <2>2, <2>3, <3>1, Sizes DEF Notifying, Notifies, Handles
    <3>2. \A i : i \in 1..svcCur <=> i \in 1..(svcCur - 1) \/ i = svcCur
      BY <2>2, Sizes
    <3> QED
      BY <3>1, <3>2 DEF Seen, SeenIn
  <2>5. \A i \in 1..Len(notify) : Clean(notify[i])
    BY <2>2, <2>3 DEF Clean
  <2>6. BetweenServices'
    <3>1. Lists(Seen(svcCur))'
      BY <1>1, <2>2, <2>4 DEF Lists
    <3>2. svcCur \in 0..Len(Services)
      BY <2>2, Sizes
    <3> QED
      BY <1>1, <2>2, <2>5, <3>1, <3>2 DEF BetweenServices, Blank, Clean, Reaches
  <2> QED
    BY <1>1, <2>6 DEF Phases, TellingServices, InService, BetweenEntries, InEntry,
       Subscribing, Subscribed
<1> QED
  BY <1>2, <1>3 DEF DiscInv

LEMMA NextDescriptorsKeeps ==
    ASSUME WellFormed, IInv, DiscInv, NextDescriptors PROVE DiscInv'
<1>1. /\ at["host"] = "dscs" /\ proc = "none" /\ pending' = {} /\ subscribed' = {}
      /\ notify' = notify
  <2>1. at["host"] = "dscs" /\ UNCHANGED <<pending, subscribed, notify>>
    BY DEF NextDescriptors, seqVars
  <2>2. pending = {} /\ subscribed = {} /\ proc = "none"
    BY <2>1, DiscoveryAlone DEF Discovering, DiscInv, Fresh, IInv, Quiet
  <2> QED
    BY <2>1, <2>2
<1>2. Fresh'
  BY <1>1 DEF Fresh
<1>3. ASSUME ~errored' PROVE Phases'
  <2>1. ~errored
    BY <1>3 DEF NextDescriptors
  <2>2. /\ Lists(Notifying) /\ dscCur \in 1..(Len(notify) + 1)
        /\ \A i \in 1..Len(notify) :
              Sound(notify[i]) /\ (i < dscCur => Resolved(notify[i]))
    BY <1>1, <2>1 DEF DiscInv, Phases, BetweenEntries
  <2>3. Lists(Notifying)' /\ Len(notify) \in Nat /\ notify \in Seq(Entries)
    BY <1>1, <2>2 DEF Lists
  <2>4. CASE dscCur > Len(notify)
    <3>1. proc' = "none" /\ at'["host"] = "cccds" /\ subscrCur' = 1
      BY <1>1, <2>4 DEF NextDescriptors, Goes, IInv, SequenceTypes, Tasks
    <3>2. \A i \in 1..Len(notify) : Resolved(notify[i])
      BY <2>2, <2>3, <2>4
    <3>3. 1 \in 1..(Len(notify) + 1) /\ 1..(1 - 1) = {}
      BY <2>3
    <3>4. Subscribing'
      BY <1>1, <2>2, <2>3, <3>1, <3>2, <3>3
         DEF Subscribing, Sound, Reaches, Clean, Resolved
    <3> QED
      BY <1>1, <3>1, <3>4 DEF Phases, TellingServices, BetweenServices, InService,
         BetweenEntries, InEntry, Subscribed
  <2>5. CASE ~(dscCur > Len(notify))
    <3>1. dscCur \in 1..Len(notify)
      BY <2>2, <2>3, <2>5
    <3>2. notify[dscCur] \in Entries
      BY <2>3, <3>1, ElementOfSeq
    <3>3. CASE /\ notify[dscCur].end > notify[dscCur].val
               /\ proc' = "dscs" /\ told' = notify[dscCur].val /\ dscCur' = dscCur
               /\ at' = [at EXCEPT !["host"] = "idle"]
      <4>1. at'["host"] = "idle"
        BY <3>3 DEF IInv, SequenceTypes, Tasks
      <4>2. told' \in Nat /\ told' <= notify[dscCur].end
        BY <3>2, <3>3, Sizes DEF Entries, Handles
      <4>3. \A c \in OwnCccds(notify[dscCur].val) : told' < c
        BY <3>3 DEF OwnCccds
      <4>4. (\A i \in 1..Len(notify) :
                Sound(notify[i]) /\ (i < dscCur => Resolved(notify[i])))'
        BY <1>1, <2>2, <3>3 DEF Sound, Reaches, Clean, Resolved
      <4>5. notify'[dscCur'].val <= told' /\ told' <= notify'[dscCur'].end
        BY <1>1, <3>2, <3>3, <4>2, Sizes DEF Entries, Handles
      <4>6. InEntry'
        BY <1>1, <2>3, <3>1, <3>3, <4>2, <4>3, <4>4, <4>5 DEF InEntry
      <4> QED
        BY <1>1, <3>3, <4>1, <4>6 DEF Phases, TellingServices, BetweenServices, InService,
           BetweenEntries, Subscribing, Subscribed
    <3>4. CASE /\ ~(notify[dscCur].end > notify[dscCur].val)
               /\ dscCur' = dscCur + 1 /\ proc' = proc /\ at' = at
      <4>1. OwnCccds(notify[dscCur].val) = {}
        <5>1. (notify[dscCur].val + 1)..notify[dscCur].end = {}
          BY <3>2, <3>4, Sizes DEF Entries, Handles
        <5> QED
          BY <2>2, <3>1, <5>1 DEF Sound, Reaches
      <4>2. \A i \in 1..Len(notify) : i < dscCur + 1 => Resolved(notify[i])
        <5>1. Resolved(notify[dscCur])
          BY <4>1 DEF Resolved
        <5>2. \A i \in 1..Len(notify) : i < dscCur + 1 => i < dscCur \/ i = dscCur
          BY <2>3, <3>1
        <5> QED
          BY <2>2, <5>1, <5>2
      <4>3. dscCur + 1 \in 1..(Len(notify) + 1)
        BY <2>3, <3>1
      <4>4. BetweenEntries'
        BY <1>1, <2>2, <2>3, <3>4, <4>2, <4>3
           DEF BetweenEntries, Sound, Reaches, Clean, Resolved
      <4> QED
        BY <1>1, <3>4, <4>4 DEF Phases, TellingServices, BetweenServices, InService,
           InEntry, Subscribing, Subscribed
    <3> QED
      BY <1>3, <2>5, <3>3, <3>4 DEF NextDescriptors, Goes
  <2> QED
    BY <2>4, <2>5
<1> QED
  BY <1>2, <1>3 DEF DiscInv

\* The first CCCD behind a characteristic, if the entry has none yet.
LEMMA DescriptorKeeps ==
    ASSUME WellFormed, IInv, DiscInv, DescriptorFound PROVE DiscInv'
<1>1. /\ at' = at /\ at["host"] = "idle" /\ proc = "dscs" /\ proc' = "dscs"
      /\ pending' = {} /\ subscribed' = {}
      /\ told < notify[dscCur].end /\ told' = told + 1
      /\ UNCHANGED <<dscCur, errored>>
  <2>1. /\ UNCHANGED <<at, proc, dscCur, errored, subscribed, pending>>
        /\ proc = "dscs" /\ at["host"] = "idle"
        /\ told < notify[dscCur].end /\ told' = told + 1
    BY DEF DescriptorFound, Callback, seqVars
  <2>2. pending = {} /\ subscribed = {}
    BY <2>1, DiscoveryAlone DEF Discovering, DiscInv, Fresh
  <2> QED
    BY <2>1, <2>2
<1>2. Fresh'
  BY <1>1 DEF Fresh
<1>3. ASSUME ~errored' PROVE Phases'
  <2>1. /\ Lists(Notifying) /\ dscCur \in 1..Len(notify) /\ told \in Nat
        /\ \A i \in 1..Len(notify) :
              Sound(notify[i]) /\ (i < dscCur => Resolved(notify[i]))
        /\ notify[dscCur].val <= told /\ told <= notify[dscCur].end
        /\ notify[dscCur].cccd = 0 => \A c \in OwnCccds(notify[dscCur].val) : told < c
    BY <1>1, <1>3 DEF DiscInv, Phases, InEntry
  <2>2. /\ notify \in Seq(Entries) /\ Len(notify) \in Nat
        /\ {notify[i].val : i \in 1..Len(notify)} = Notifying
        /\ Cardinality(Notifying) = Len(notify)
    BY <2>1 DEF Lists
  <2>3. notify[dscCur] \in Entries
    BY <2>1, <2>2, ElementOfSeq
  <2>4. told + 1 \in (notify[dscCur].val + 1)..notify[dscCur].end /\ told + 1 \in Handles
    BY <1>1, <2>1, <2>3, Sizes DEF Entries, Handles
  <2>5. CASE Attributes[told + 1] = "cccd" /\ notify[dscCur].cccd = 0
    <3>1. told + 1 \in OwnCccds(notify[dscCur].val)
      <4>1. \A k \in (notify[dscCur].val + 1)..(told + 1) :
               k \in (notify[dscCur].val + 1)..notify[dscCur].end
        BY <2>1, <2>3, <2>4, Sizes DEF Entries, Handles
      <4>2. \A k \in (notify[dscCur].val + 1)..(told + 1) : Attributes[k] \in {"cccd", "descriptor"}
        BY <2>1, <4>1 DEF Sound, Clean
      <4> QED
        BY <2>1, <2>3, <2>4, <2>5, <4>2, Sizes DEF OwnCccds, Entries, Handles
    <3>2. PICK e : e = [notify[dscCur] EXCEPT !.cccd = told + 1]
      OBVIOUS
    <3>3. /\ e \in Entries /\ e.val = notify[dscCur].val /\ e.end = notify[dscCur].end
          /\ e.cccd = told + 1
      BY <2>3, <2>4, <3>2 DEF Entries, Handles
    <3>4. notify' = [notify EXCEPT ![dscCur] = e]
      BY <2>1, <2>3, <2>5, <3>2 DEF DescriptorFound
    <3>5. /\ notify' \in Seq(Entries) /\ Len(notify') = Len(notify)
          /\ \A i \in 1..Len(notify) : notify'[i] = IF i = dscCur THEN e ELSE notify[i]
      BY <2>1, <2>2, <3>3, <3>4
    <3>6. Lists(Notifying)'
      <4>1. \A i \in 1..Len(notify) : notify'[i].val = notify[i].val
        BY <3>3, <3>5
      <4>2. {notify'[i].val : i \in 1..Len(notify')} = Notifying
        BY <2>2, <3>5, <4>1
      <4> QED
        BY <2>2, <3>5, <4>2 DEF Lists
    <3>7. Sound(e)
      BY <2>1, <3>1, <3>3 DEF Sound, Reaches, Clean
    <3>8. (\A i \in 1..Len(notify) : Sound(notify[i]) /\ (i < dscCur => Resolved(notify[i])))'
      <4>1. \A i \in 1..Len(notify) : i < dscCur => i # dscCur
        BY <2>1, <2>2
      <4> SUFFICES ASSUME NEW i \in 1..Len(notify')
                   PROVE  Sound(notify'[i]) /\ (i < dscCur' => Resolved(notify'[i]))
        BY DEF Sound, Reaches, Clean, Resolved
      <4> QED
        BY <1>1, <2>1, <3>5, <3>7, <4>1
    <3>9. (notify[dscCur].val <= told /\ told <= notify[dscCur].end)'
      <4>1. notify'[dscCur'] = e
        BY <1>1, <2>1, <3>5
      <4>2. notify[dscCur].val <= told + 1 /\ told + 1 <= notify[dscCur].end
        BY <2>3, <2>4 DEF Entries, Handles
      <4> QED
        BY <1>1, <3>3, <4>1, <4>2
    <3>10. notify'[dscCur'].cccd # 0
      BY <1>1, <2>1, <3>3, <3>5
    <3>11. InEntry'
      BY <1>1, <2>1, <3>5, <3>6, <3>8, <3>9, <3>10 DEF InEntry
    <3> QED
      BY <1>1, <3>11 DEF Phases, TellingServices, BetweenServices, InService, BetweenEntries,
         Subscribing, Subscribed
  <2>6. CASE ~(Attributes[told + 1] = "cccd" /\ notify[dscCur].cccd = 0)
    <3>1. notify' = notify
      BY <2>6 DEF DescriptorFound
    <3>2. notify[dscCur].cccd = 0 => \A c \in OwnCccds(notify[dscCur].val) : told + 1 < c
      <4>1. notify[dscCur].cccd = 0 => \A c \in OwnCccds(notify[dscCur].val) : told < c /\ c # told + 1
        BY <2>1, <2>6 DEF OwnCccds
      <4> QED
        BY <2>1, <4>1 DEF OwnCccds, Handles
    <3>3. notify[dscCur].val <= told + 1 /\ told + 1 <= notify[dscCur].end
      BY <2>4, <2>3 DEF Entries, Handles
    <3>4. (\A i \in 1..Len(notify) : Sound(notify[i]) /\ (i < dscCur => Resolved(notify[i])))'
      BY <1>1, <2>1, <3>1 DEF Sound, Reaches, Clean, Resolved
    <3>5. InEntry'
      BY <1>1, <2>1, <3>1, <3>2, <3>3, <3>4 DEF InEntry, Lists
    <3> QED
      BY <1>1, <3>5 DEF Phases, TellingServices, BetweenServices, InService, BetweenEntries,
         Subscribing, Subscribed
  <2> QED
    BY <2>5, <2>6
<1> QED
  BY <1>2, <1>3 DEF DiscInv

LEMMA DescriptorsEndKeeps ==
    ASSUME WellFormed, IInv, DiscInv, DescriptorsEnd PROVE DiscInv'
<1>1. /\ at'["host"] = "dscs" /\ proc = "dscs" /\ proc' = "none"
      /\ pending' = {} /\ subscribed' = {}
      /\ dscCur' = dscCur + 1 /\ notify' = notify
  <2>1. /\ UNCHANGED <<notify, subscribed, pending>> /\ dscCur' = dscCur + 1
        /\ proc = "dscs" /\ proc' = "none" /\ at' = [at EXCEPT !["host"] = "dscs"]
    BY DEF DescriptorsEnd, Callback, seqVars, Goes
  <2>2. pending = {} /\ subscribed = {}
    BY <2>1, DiscoveryAlone DEF Discovering, DiscInv, Fresh
  <2> QED
    BY <2>1, <2>2 DEF IInv, SequenceTypes, Tasks
<1>2. Fresh'
  BY <1>1 DEF Fresh
<1>3. ASSUME ~errored' PROVE Phases'
  <2>1. ~errored /\ told = notify[dscCur].end
    BY <1>3 DEF DescriptorsEnd
  <2>2. /\ Lists(Notifying) /\ dscCur \in 1..Len(notify) /\ told \in Nat
        /\ \A i \in 1..Len(notify) :
              Sound(notify[i]) /\ (i < dscCur => Resolved(notify[i]))
        /\ notify[dscCur].cccd = 0 => \A c \in OwnCccds(notify[dscCur].val) : told < c
    BY <1>1, <2>1 DEF DiscInv, Phases, InEntry
  <2>3. Len(notify) \in Nat
    BY <2>2 DEF Lists
  <2>4. Resolved(notify[dscCur])
    <3> SUFFICES ASSUME notify[dscCur].cccd = 0, NEW c \in OwnCccds(notify[dscCur].val)
                 PROVE  FALSE
      BY DEF Resolved
    <3>1. told < c
      BY <2>2
    <3>2. c \in (notify[dscCur].val + 1)..told
      BY <2>1, <2>2 DEF Sound, Reaches
    <3> QED
      BY <2>2, <3>1, <3>2
  <2>5. \A i \in 1..Len(notify) : i < dscCur + 1 => i < dscCur \/ i = dscCur
    BY <2>2, <2>3
  <2>6. \A i \in 1..Len(notify) : i < dscCur + 1 => Resolved(notify[i])
    BY <2>2, <2>4, <2>5
  <2>7. dscCur + 1 \in 1..(Len(notify) + 1)
    BY <2>2, <2>3
  <2>8. BetweenEntries'
    BY <1>1, <2>2, <2>6, <2>7 DEF BetweenEntries, Lists, Sound, Reaches, Clean, Resolved
  <2> QED
    BY <1>1, <2>8 DEF Phases, TellingServices, BetweenServices, InService, InEntry,
       Subscribing, Subscribed
<1> QED
  BY <1>2, <1>3 DEF DiscInv

\* Every entry that has a CCCD has been gone through.
LEMMA AllSubscribed ==
    ASSUME WellFormed, Lists(Notifying),
           \A i \in 1..Len(notify) : Sound(notify[i]) /\ Resolved(notify[i])
    PROVE  {notify[i].cccd : i \in 1..Len(notify)} \ {0}
             = UNION {OwnCccds(h) : h \in Notifying}
<1>1. /\ Notifying = {notify[i].val : i \in 1..Len(notify)}
      /\ 0 \notin Handles
  BY DEF Lists, Handles
<1>2. ASSUME NEW i \in 1..Len(notify), notify[i].cccd # 0
      PROVE  notify[i].cccd \in UNION {OwnCccds(h) : h \in Notifying}
  BY <1>1, <1>2 DEF Sound
<1>3. ASSUME NEW h \in Notifying, NEW c \in OwnCccds(h)
      PROVE  \E i \in 1..Len(notify) : c = notify[i].cccd /\ c # 0
  <2>1. PICK i \in 1..Len(notify) : notify[i].val = h
    BY <1>1
  <2>2. notify[i].cccd # 0 /\ notify[i].cccd \in OwnCccds(h)
    BY <2>1, <1>3 DEF Resolved, Sound
  <2>3. notify[i].cccd = c
    BY <2>2 DEF WellFormed
  <2> QED
    BY <2>2, <2>3
<1> QED
  BY <1>2, <1>3

LEMMA NextSubscriptionKeeps ==
    ASSUME WellFormed, IInv, DiscInv, NextSubscription PROVE DiscInv'
<1>1. /\ at["host"] = "cccds" /\ proc = "none" /\ pending = {} /\ secured'
      /\ UNCHANGED <<notify, subscribed>>
  <2>1. at["host"] = "cccds" /\ UNCHANGED <<secured, subscribed, notify>>
    BY DEF NextSubscription, linkVars
  <2>2. pending = {} /\ proc = "none" /\ secured
    BY <2>1, DiscoveryAlone DEF Discovering, IInv, Quiet
  <2> QED
    BY <2>1, <2>2
<1>2. Fresh' /\ (~errored' => ~errored) /\ proc' \in {"none", "cccd"}
      /\ at'["host"] \in {"idle", "cccds"}
  BY <1>1 DEF NextSubscription, Goes, Fresh, IInv, SequenceTypes, Tasks
<1>3. ASSUME ~errored' PROVE Phases'
  <2>1. /\ Lists(Notifying) /\ subscrCur \in 1..(Len(notify) + 1)
        /\ \A i \in 1..Len(notify) : Sound(notify[i]) /\ Resolved(notify[i])
        /\ subscribed = {notify[i].cccd : i \in 1..(subscrCur - 1)} \ {0}
    BY <1>1, <1>2, <1>3 DEF DiscInv, Phases, Subscribing
  <2>2. Len(notify) \in Nat
    BY <2>1 DEF Lists
  <2>3. CASE subscrCur > Len(notify)
    <3>1. proc' = "none" /\ at'["host"] = "idle"
      BY <1>1, <2>3 DEF NextSubscription, Goes, IInv, SequenceTypes, Tasks
    <3>2. subscrCur - 1 = Len(notify)
      BY <2>1, <2>2, <2>3
    <3>3. Subscribed'
      BY <1>1, <2>1, <3>2, AllSubscribed DEF Subscribed
    <3> QED
      BY <1>2, <3>1, <3>3 DEF Phases, TellingServices, BetweenServices, InService,
         BetweenEntries, InEntry, Subscribing
  <2>4. CASE ~(subscrCur > Len(notify))
    <3>1. subscrCur \in 1..Len(notify) /\ pending' = {}
      BY <1>1, <2>1, <2>2, <2>4 DEF NextSubscription, seqVars
    <3>2. \/ proc' = "cccd" /\ subscrCur' = subscrCur /\ notify[subscrCur].cccd # 0
             /\ at'["host"] = "idle"
          \/ proc' = "none" /\ subscrCur' = subscrCur + 1 /\ notify[subscrCur].cccd = 0
             /\ at'["host"] = "cccds"
      BY <1>1, <1>3, <2>4 DEF NextSubscription, Goes, IInv, SequenceTypes, Tasks
    <3>3. subscribed' = {notify[i].cccd : i \in 1..(subscrCur' - 1)} \ {0}
      <4>1. CASE subscrCur' = subscrCur
        BY <1>1, <2>1, <4>1
      <4>2. CASE subscrCur' = subscrCur + 1 /\ notify[subscrCur].cccd = 0
        <5>1. \A i : i \in 1..(subscrCur' - 1) <=> i \in 1..(subscrCur - 1) \/ i = subscrCur
          BY <2>2, <3>1, <4>2
        <5> QED
          BY <1>1, <2>1, <4>2, <5>1
      <4> QED
        BY <3>2, <4>1, <4>2
    <3>4. subscrCur' \in 1..(Len(notify) + 1) /\ (proc' = "cccd" => subscrCur' <= Len(notify))
      BY <2>2, <3>1, <3>2
    <3>5. Subscribing'
      BY <1>1, <2>1, <3>2, <3>3, <3>4 DEF Subscribing, Lists, Sound, Reaches, Clean, Resolved
    <3> QED
      BY <1>2, <3>1, <3>5 DEF Phases, TellingServices, BetweenServices, InService,
         BetweenEntries, InEntry, Subscribed
  <2> QED
    BY <2>3, <2>4
<1> QED
  BY <1>2, <1>3 DEF DiscInv

LEMMA SubscriptionKeeps ==
    ASSUME WellFormed, IInv, DiscInv, SubscriptionEnds PROVE DiscInv'
<1>1. /\ at'["host"] = "cccds" /\ proc = "cccd" /\ proc' = "none"
      /\ pending' = {} /\ secured' /\ subscrCur' = subscrCur + 1 /\ notify' = notify
  <2>1. /\ UNCHANGED <<notify, secured, pending>> /\ subscrCur' = subscrCur + 1
        /\ proc = "cccd" /\ proc' = "none" /\ at' = [at EXCEPT !["host"] = "cccds"]
    BY DEF SubscriptionEnds, Callback, seqVars, Goes
  <2>2. pending = {} /\ secured
    BY <2>1, DiscoveryAlone DEF Discovering
  <2> QED
    BY <2>1, <2>2 DEF IInv, SequenceTypes, Tasks
<1>2. Fresh'
  BY <1>1 DEF Fresh
<1>3. ASSUME ~errored' PROVE Phases'
  <2>1. ~errored /\ subscribed' = subscribed \cup {notify[subscrCur].cccd}
    BY <1>3 DEF SubscriptionEnds
  <2>2. /\ Lists(Notifying) /\ subscrCur \in 1..(Len(notify) + 1)
        /\ \A i \in 1..Len(notify) : Sound(notify[i]) /\ Resolved(notify[i])
        /\ subscrCur <= Len(notify) /\ notify[subscrCur].cccd # 0
        /\ subscribed = {notify[i].cccd : i \in 1..(subscrCur - 1)} \ {0}
    BY <1>1, <2>1 DEF DiscInv, Phases, Subscribing
  <2>3. Len(notify) \in Nat
    BY <2>2 DEF Lists
  <2>4. \A i : i \in 1..(subscrCur' - 1) <=> i \in 1..(subscrCur - 1) \/ i = subscrCur
    BY <1>1, <2>2, <2>3
  <2>5. subscribed' = {notify[i].cccd : i \in 1..(subscrCur' - 1)} \ {0}
    BY <2>1, <2>2, <2>4
  <2>6. subscrCur' \in 1..(Len(notify) + 1)
    BY <1>1, <2>2, <2>3
  <2>7. Subscribing'
    BY <1>1, <2>2, <2>5, <2>6 DEF Subscribing, Lists, Sound, Reaches, Clean, Resolved
  <2> QED
    BY <1>1, <2>7 DEF Phases, TellingServices, BetweenServices, InService, BetweenEntries,
       InEntry, Subscribed
<1> QED
  BY <1>2, <1>3 DEF DiscInv

\* Answers, time-outs and the rest of the sequence.
LEMMA RestKeepsDisc ==
    ASSUME IInv, DiscInv,
           \/ HwInfo \/ SendsThird \/ RetryFires \/ Retries
           \/ \E what \in {"third", "ctrl"} : Acked(what) \/ TimesOut(what)
           \/ \E t \in Tasks : Finishes(t)
           \/ UNCHANGED vars
    PROVE  DiscInv'
<1> USE DEF Goes, IInv, SequenceTypes, Tasks
<1>1. CASE HwInfo \/ SendsThird \/ RetryFires \/ Retries
  <2>1. UNCHANGED discVars /\ secured' = secured
    BY <1>1 DEF HwInfo, SendsThird, RetryFires, Retries, linkVars
  <2>2. "ready" \in pending' => "ready" \in pending
    BY <1>1 DEF HwInfo, SendsThird, RetryFires, Retries
  <2>3. at'["host"] \in {"chrs", "dscs", "cccds"} => at'["host"] = at["host"]
    BY <1>1 DEF HwInfo, SendsThird, RetryFires, Retries
  <2> QED
    BY <2>1, <2>2, <2>3, SequenceKeepsDisc
<1>2. ASSUME NEW what \in {"third", "ctrl"}, Acked(what) \/ TimesOut(what) PROVE DiscInv'
  <2>1. UNCHANGED discVars /\ secured' = secured
    BY <1>2 DEF Acked, TimesOut, linkVars
  <2>2. "ready" \in pending' => "ready" \in pending
    BY <1>2 DEF Acked, TimesOut
  <2>3. at'["host"] \in {"chrs", "dscs", "cccds"} => at'["host"] = at["host"]
    BY <1>2 DEF Acked, TimesOut
  <2> QED
    BY <2>1, <2>2, <2>3, SequenceKeepsDisc
<1>3. ASSUME NEW t \in Tasks, Finishes(t) PROVE DiscInv'
  <2>1. UNCHANGED discVars /\ secured' = secured
    BY <1>3 DEF Finishes, Proceeds, ArmsCtrl, Completes, StartsPoll, linkVars
  <2>2. "ready" \in pending' => "ready" \in pending
    BY <1>3 DEF Finishes, Proceeds, ArmsCtrl, Completes, StartsPoll, seqVars
  <2>3. at'["host"] \in {"chrs", "dscs", "cccds"} => at'["host"] = at["host"]
    BY <1>3 DEF Finishes, Proceeds, ArmsCtrl, Completes, StartsPoll
  <2> QED
    BY <2>1, <2>2, <2>3, SequenceKeepsDisc
<1>4. CASE UNCHANGED vars
  <2>1. UNCHANGED discVars /\ UNCHANGED <<secured, pending, at>>
    BY <1>4 DEF vars, linkVars, seqVars
  <2> QED
    BY <2>1, SequenceKeepsDisc
<1> QED
  BY <1>1, <1>2, <1>3, <1>4

LEMMA DiscKeeps == WellFormed => (IInv /\ DiscInv /\ [Next]_vars => DiscInv')
<1> SUFFICES ASSUME WellFormed, IInv, DiscInv, [Next]_vars PROVE DiscInv'
  OBVIOUS
<1>1. CASE Connect \/ Drops \/ Disconnected
  BY <1>1, LinkKeepsDisc
<1>2. CASE Encrypted
  BY <1>2, StartKeepsDisc
<1>3. CASE Discovers
  BY <1>3, StartKeepsDisc, ServicesKeepDisc, NextCharacteristicsKeeps, CharacteristicKeeps,
     CharacteristicsEndKeeps, NextDescriptorsKeeps, DescriptorKeeps, DescriptorsEndKeeps,
     NextSubscriptionKeeps, SubscriptionKeeps DEF Discovers
<1>4. CASE \/ HwInfo \/ SendsThird \/ RetryFires \/ Retries
           \/ \E what \in {"third", "ctrl"} : Acked(what) \/ TimesOut(what)
           \/ \E t \in Tasks : Finishes(t)
           \/ UNCHANGED vars
  BY <1>4, RestKeepsDisc
<1> QED
  BY <1>1, <1>2, <1>3, <1>4 DEF Next, HostSteps, TimerSteps, Tasks

\* gatt.c: whatever the table of the camera, as long as the firmware has room for
\* its services and its notifying characteristics, a discovery in which nothing
\* failed has subscribed exactly their CCCDs when the polling begins: the bound
\* of an entry always reaches its own descriptor and never the next one's.
THEOREM SubscribedExactly == ASSUME WellFormed PROVE Spec => []SubscribesExactly
<1>1. Init => DiscInv
  BY DEF Init, DiscInv, Fresh, Phases, TellingServices, BetweenServices, InService,
     BetweenEntries, InEntry, Subscribing, Subscribed, Tasks
<1>2. DiscInv => SubscribesExactly
  BY DEF DiscInv, Phases, Subscribed, SubscribesExactly
<1> QED
  BY <1>1, <1>2, InitIInv, NextKeeps, DiscKeeps, PTL DEF Spec

-----------------------------------------------------------------------------
(***************************************************************************)
(* The arrays of gatt.c.                                                   *)
(***************************************************************************)

\* What is listed, and where each pass over it may be.
ListsInv ==
    /\ services \in 0..MaxServices /\ services <= Len(Services)
    /\ proc = "services" => told \in Nat /\ services <= told /\ told <= Len(Services)
    /\ svcCur \in Nat /\ (proc = "chrs" => told \in Nat /\ svcCur \in 1..services)
    /\ notify \in Seq(Entries) /\ Len(notify) <= MaxNotify /\ last \in 0..Len(notify)
    /\ dscCur \in Nat /\ (at["host"] = "dscs" => dscCur # 0)
    /\ proc = "dscs" => told \in Nat /\ dscCur \in 1..Len(notify)
    /\ subscrCur \in Nat /\ (at["host"] = "cccds" => subscrCur # 0)
    /\ proc = "cccd" => subscrCur \in 1..Len(notify) /\ notify[subscrCur].cccd # 0
    /\ found \subseteq Handles /\ subscribed \subseteq Handles

\* A step that leaves the lists alone.
LEMMA ListsStay ==
    ASSUME IInv, ListsInv, UNCHANGED <<services, svcCur, notify, last, dscCur, subscrCur>>,
           UNCHANGED told, proc' = proc \/ proc' \in {"none", "mtu"},
           at'["host"] \in {"dscs", "cccds"} => at'["host"] = at["host"],
           found' \subseteq found, subscribed' \subseteq subscribed
    PROVE  ListsInv'
  BY DEF ListsInv

LEMMA StartKeepsLists ==
    ASSUME IInv, ListsInv, Encrypted \/ MtuExchanged PROVE ListsInv'
<1>1. at' = at /\ at["host"] = "idle" /\ subscribed' = subscribed
  BY DEF Encrypted, MtuExchanged, Callback, StartsDiscovery
<1>2. CASE StartsDiscovery
  <2>1. << >> \in Seq(Entries) /\ Len(<< >>) = 0
    OBVIOUS
  <2>2. /\ told' = 0 /\ services' = 0 /\ svcCur' = 0 /\ notify' = << >> /\ last' = 0
        /\ dscCur' = 0 /\ subscrCur' = 0 /\ found' = {} /\ proc' \in {"services", "none"}
    BY <1>2 DEF StartsDiscovery
  <2> QED
    BY <1>1, <2>1, <2>2, Sizes, LimitsAssumption DEF ListsInv
<1>3. CASE ~StartsDiscovery
  BY <1>1, <1>3, ListsStay DEF Encrypted, MtuExchanged
<1> QED
  BY <1>2, <1>3

LEMMA ServicesKeepLists ==
    ASSUME IInv, ListsInv, ServiceFound \/ ServicesDone \/ ServicesFail PROVE ListsInv'
<1>1. /\ proc = "services" /\ at["host"] = "idle" /\ UNCHANGED <<found, subscribed>>
      /\ UNCHANGED <<notify, last, dscCur, subscrCur>>
  BY DEF ServiceFound, ServicesDone, ServicesFail, Callback
<1>2. CASE ServiceFound
  <2>1. /\ proc' = "services" /\ at' = at /\ svcCur' = svcCur
        /\ told < Len(Services) /\ told' = told + 1
        /\ services' = IF services < MaxServices THEN services + 1 ELSE services
    BY <1>1, <1>2 DEF ServiceFound
  <2>2. /\ services' \in 0..MaxServices /\ services' <= Len(Services)
        /\ told' \in Nat /\ services' <= told' /\ told' <= Len(Services)
    BY <1>1, <2>1, Sizes, LimitsAssumption DEF ListsInv
  <2> QED
    BY <1>1, <2>1, <2>2 DEF ListsInv
<1>3. CASE ServicesDone \/ ServicesFail
  <2>1. /\ proc' = "none" /\ UNCHANGED <<told, services>> /\ svcCur' \in {0, svcCur}
        /\ at'["host"] \in {"idle", "chrs"}
    BY <1>1, <1>3 DEF ServicesDone, ServicesFail, Goes, IInv, SequenceTypes, Tasks
  <2> QED
    BY <1>1, <2>1 DEF ListsInv
<1> QED
  BY <1>2, <1>3

LEMMA NextCharacteristicsKeepLists ==
    ASSUME IInv, ListsInv, NextCharacteristics PROVE ListsInv'
<1>1. /\ at["host"] = "chrs" /\ proc = "none" /\ svcCur' = svcCur + 1
      /\ UNCHANGED <<services, notify, subscrCur, found, subscribed>>
  BY DEF NextCharacteristics, IInv, Quiet
<1>2. CASE svcCur + 1 > services
  <2>1. dscCur' = 1 /\ at'["host"] = "dscs" /\ UNCHANGED <<proc, told, last>>
    BY <1>1, <1>2 DEF NextCharacteristics, Goes, IInv, SequenceTypes, Tasks
  <2> QED
    BY <1>1, <2>1 DEF ListsInv
<1>3. CASE ~(svcCur + 1 > services)
  <2>1. /\ last' = 0 /\ dscCur' = dscCur
        /\ \/ proc' = "chrs" /\ told' = Services[svcCur + 1].start - 1 /\ at'["host"] = "idle"
           \/ UNCHANGED <<proc, told, at>>
    BY <1>1, <1>3 DEF NextCharacteristics, Goes, IInv, SequenceTypes, Tasks
  <2>2. svcCur + 1 \in 1..services /\ svcCur + 1 \in 1..Len(Services) /\ Len(notify) \in Nat
    BY <1>3, Sizes, LimitsAssumption DEF ListsInv
  <2>3. Services[svcCur + 1].start - 1 \in Nat
    BY <2>2, Sizes
  <2> QED
    BY <1>1, <2>1, <2>2, <2>3 DEF ListsInv
<1> QED
  BY <1>2, <1>3

LEMMA PatchedFits ==
    ASSUME ListsInv, NEW h \in Handles
    PROVE  Patched(h) \in Seq(Entries) /\ Len(Patched(h)) = Len(notify)
<1>1. CASE last = 0
  BY <1>1 DEF Patched, ListsInv
<1>2. CASE last # 0
  <2>1. /\ notify \in Seq(Entries) /\ last \in 1..Len(notify)
        /\ h - 1 \in 0..Len(Attributes)
    BY <1>2, Sizes DEF ListsInv, Handles
  <2>2. notify[last] \in Entries
    BY <2>1, ElementOfSeq
  <2>3. PICK e \in Entries : e = [notify[last] EXCEPT !.end = h - 1]
    BY <2>1, <2>2 DEF Entries
  <2>4. Patched(h) = [notify EXCEPT ![last] = e]
    BY <1>2, <2>1, <2>3 DEF Patched
  <2> QED
    BY <2>1, <2>4
<1> QED
  BY <1>1, <1>2

LEMMA CharacteristicsKeepLists ==
    ASSUME IInv, ListsInv, CharacteristicFound \/ CharacteristicsEnd PROVE ListsInv'
<1>1. /\ proc = "chrs" /\ at["host"] = "idle"
      /\ UNCHANGED <<services, svcCur, dscCur, subscrCur, subscribed>>
  BY DEF CharacteristicFound, CharacteristicsEnd, Callback
<1>2. CASE CharacteristicFound
  <2>1. PICK h \in Characteristics :
          /\ told' = h
          /\ found' = found \cup ({h} \cap {k \in Handles : Attributes[k] \in {"write", "response"}})
          /\ \/ /\ Len(notify) < MaxNotify
                /\ notify' = Append(Patched(h), Queued(h)) /\ last' = Len(notify) + 1
             \/ notify' = Patched(h) /\ last' = 0
    BY <1>2 DEF CharacteristicFound
  <2>2. proc' = "chrs" /\ at' = at
    BY <1>1, <1>2 DEF CharacteristicFound
  <2>3. svcCur \in 1..Len(Services)
    BY <1>1, Sizes, LimitsAssumption DEF ListsInv
  <2>4. h \in Handles
    BY <1>1, <2>3, Sizes DEF Characteristics, Handles, ListsInv
  <2>5. Queued(h) \in Entries
    BY <2>3, <2>4, Sizes DEF Queued, Entries
  <2>6. /\ Patched(h) \in Seq(Entries) /\ Len(Patched(h)) = Len(notify)
        /\ Len(notify) \in Nat /\ Len(notify) <= MaxNotify
    BY <2>4, PatchedFits DEF ListsInv
  <2>7. notify' \in Seq(Entries) /\ Len(notify') <= MaxNotify /\ last' \in 0..Len(notify')
    <3>1. CASE /\ Len(notify) < MaxNotify
               /\ notify' = Append(Patched(h), Queued(h)) /\ last' = Len(notify) + 1
      <4>1. notify' \in Seq(Entries) /\ Len(notify') = Len(notify) + 1
        BY <2>5, <2>6, <3>1
      <4> QED
        BY <2>6, <3>1, <4>1, Sizes
    <3>2. CASE notify' = Patched(h) /\ last' = 0
      BY <2>6, <3>2
    <3> QED
      BY <2>1, <3>1, <3>2
  <2>8. told' \in Nat /\ found' \subseteq Handles
    <3>1. told' \in Nat
      BY <2>1, <2>4 DEF Handles
    <3>2. found' \subseteq found \cup {h} /\ found \subseteq Handles
      BY <2>1 DEF ListsInv
    <3> QED
      BY <2>4, <3>1, <3>2
  <2> QED
    BY <1>1, <2>2, <2>7, <2>8 DEF ListsInv
<1>3. CASE CharacteristicsEnd
  <2>1. /\ proc' = "none" /\ UNCHANGED <<told, notify, last, found>> /\ at'["host"] = "chrs"
    BY <1>3 DEF CharacteristicsEnd, Goes, IInv, SequenceTypes, Tasks
  <2> QED
    BY <1>1, <2>1 DEF ListsInv
<1> QED
  BY <1>2, <1>3

LEMMA DescriptorsKeepLists ==
    ASSUME IInv, ListsInv, NextDescriptors \/ DescriptorFound \/ DescriptorsEnd
    PROVE  ListsInv'
<1>0. notify \in Seq(Entries) /\ Len(notify) \in Nat /\ dscCur \in Nat
  BY DEF ListsInv
<1>1. CASE NextDescriptors
  <2>1. /\ at["host"] = "dscs" /\ proc = "none"
        /\ UNCHANGED <<services, svcCur, notify, last, found, subscribed>>
    BY <1>1 DEF NextDescriptors, IInv, Quiet
  <2>2. CASE dscCur > Len(notify)
    <3>1. subscrCur' = 1 /\ at'["host"] = "cccds" /\ UNCHANGED <<proc, told, dscCur>>
      BY <1>1, <2>1, <2>2 DEF NextDescriptors, Goes, IInv, SequenceTypes, Tasks
    <3> QED
      BY <2>1, <3>1 DEF ListsInv
  <2>3. CASE ~(dscCur > Len(notify))
    <3>1. dscCur \in 1..Len(notify)
      BY <1>0, <2>1, <2>3 DEF ListsInv
    <3>2. notify[dscCur] \in Entries
      BY <1>0, <3>1, ElementOfSeq
    <3>3. /\ subscrCur' = subscrCur
          /\ \/ /\ proc' = "dscs" /\ told' = notify[dscCur].val /\ dscCur' = dscCur
                /\ at'["host"] = "idle"
             \/ dscCur' = dscCur + 1 /\ UNCHANGED <<proc, told, at>>
      BY <1>1, <2>3 DEF NextDescriptors, Goes, IInv, SequenceTypes, Tasks
    <3>4. notify[dscCur].val \in Nat
      BY <3>2 DEF Entries, Handles
    <3> QED
      BY <2>1, <3>1, <3>3, <3>4 DEF ListsInv
  <2> QED
    BY <2>2, <2>3
<1>2. CASE DescriptorFound
  <2>1. /\ proc = "dscs" /\ proc' = "dscs" /\ at' = at /\ at["host"] = "idle"
        /\ told < notify[dscCur].end /\ told' = told + 1
        /\ notify' = IF Attributes[told + 1] = "cccd" /\ notify[dscCur].cccd = 0
                     THEN [notify EXCEPT ![dscCur].cccd = told + 1] ELSE notify
        /\ UNCHANGED <<services, svcCur, last, dscCur, subscrCur, found, subscribed>>
    BY <1>2 DEF DescriptorFound, Callback
  <2>2. dscCur \in 1..Len(notify) /\ told \in Nat
    BY <2>1 DEF ListsInv
  <2>3. notify[dscCur] \in Entries
    BY <1>0, <2>2, ElementOfSeq
  <2>4. told + 1 \in 0..Len(Attributes)
    BY <2>1, <2>2, <2>3, Sizes DEF Entries
  <2>5. PICK e \in Entries : e = [notify[dscCur] EXCEPT !.cccd = told + 1]
    BY <2>3, <2>4 DEF Entries
  <2>6. notify' = notify \/ notify' = [notify EXCEPT ![dscCur] = e]
    BY <2>1, <2>2, <2>3, <2>5
  <2>7. notify' \in Seq(Entries) /\ Len(notify') = Len(notify)
    BY <1>0, <2>2, <2>6
  <2> QED
    BY <2>1, <2>2, <2>7 DEF ListsInv
<1>3. CASE DescriptorsEnd
  <2>1. /\ proc' = "none" /\ dscCur' = dscCur + 1 /\ at'["host"] = "dscs"
        /\ UNCHANGED <<told, services, svcCur, notify, last, subscrCur, found, subscribed>>
    BY <1>3 DEF DescriptorsEnd, Callback, Goes, IInv, SequenceTypes, Tasks
  <2> QED
    BY <1>0, <2>1 DEF ListsInv
<1> QED
  BY <1>1, <1>2, <1>3

LEMMA SubscriptionsKeepLists ==
    ASSUME IInv, ListsInv, NextSubscription \/ SubscriptionEnds PROVE ListsInv'
<1>0. notify \in Seq(Entries) /\ Len(notify) \in Nat /\ subscrCur \in Nat
  BY DEF ListsInv
<1>1. CASE NextSubscription
  <2>1. /\ at["host"] = "cccds" /\ proc = "none"
        /\ UNCHANGED <<told, services, svcCur, notify, last, dscCur, found, subscribed>>
    BY <1>1 DEF NextSubscription, IInv, Quiet
  <2>2. \/ UNCHANGED <<proc, subscrCur>> /\ at'["host"] = "idle"
        \/ /\ ~(subscrCur > Len(notify)) /\ proc' = "cccd" /\ subscrCur' = subscrCur
           /\ notify[subscrCur].cccd # 0 /\ at'["host"] = "idle"
        \/ subscrCur' = subscrCur + 1 /\ UNCHANGED <<proc, at>>
    BY <1>1 DEF NextSubscription, Goes, IInv, SequenceTypes, Tasks
  <2>3. subscrCur # 0
    BY <2>1 DEF ListsInv
  <2> QED
    BY <1>0, <2>1, <2>2, <2>3 DEF ListsInv
<1>2. CASE SubscriptionEnds
  <2>1. /\ proc = "cccd" /\ proc' = "none" /\ subscrCur' = subscrCur + 1
        /\ at'["host"] = "cccds"
        /\ subscribed' \in {subscribed, subscribed \cup {notify[subscrCur].cccd}}
        /\ UNCHANGED <<told, services, svcCur, notify, last, dscCur, found>>
    BY <1>2 DEF SubscriptionEnds, Callback, Goes, IInv, SequenceTypes, Tasks
  <2>2. subscrCur \in 1..Len(notify) /\ notify[subscrCur].cccd # 0
    BY <2>1 DEF ListsInv
  <2>3. notify[subscrCur] \in Entries
    BY <1>0, <2>2, ElementOfSeq
  <2>4. notify[subscrCur].cccd \in Handles
    BY <2>2, <2>3, Sizes DEF Entries, Handles
  <2> QED
    BY <1>0, <2>1, <2>4 DEF ListsInv
<1> QED
  BY <1>1, <1>2

\* The rest of the sequence and of the link is not about the lists.
LEMMA RestKeepsLists ==
    ASSUME IInv, ListsInv,
           \/ Connect \/ Drops \/ Disconnected
           \/ HwInfo \/ SendsThird \/ RetryFires \/ Retries
           \/ \E what \in {"third", "ctrl"} : Acked(what) \/ TimesOut(what)
           \/ \E t \in Tasks : Finishes(t)
           \/ UNCHANGED vars
    PROVE  ListsInv'
<1>1. /\ UNCHANGED <<proc, told, services, svcCur, notify, last, dscCur, subscrCur>>
      /\ found' \subseteq found /\ subscribed' \subseteq subscribed
  BY DEF Connect, Drops, Disconnected, HwInfo, SendsThird, RetryFires, Retries, Acked,
     TimesOut, Finishes, Proceeds, ArmsCtrl, Completes, StartsPoll, vars, discVars
<1>2. at'["host"] \in {"dscs", "cccds"} => at'["host"] = at["host"]
  BY DEF Connect, Drops, Disconnected, HwInfo, SendsThird, RetryFires, Retries, Acked,
     TimesOut, Finishes, Proceeds, ArmsCtrl, Completes, StartsPoll, vars, Goes, IInv,
     SequenceTypes, Tasks
<1> QED
  BY <1>1, <1>2, ListsStay

LEMMA ListsKeep == IInv /\ ListsInv /\ [Next]_vars => ListsInv'
<1> SUFFICES ASSUME IInv, ListsInv, [Next]_vars PROVE ListsInv'
  OBVIOUS
<1>1. CASE \/ Connect \/ Drops \/ Disconnected
           \/ HwInfo \/ SendsThird \/ RetryFires \/ Retries
           \/ \E what \in {"third", "ctrl"} : Acked(what) \/ TimesOut(what)
           \/ \E t \in Tasks : Finishes(t)
           \/ UNCHANGED vars
  BY <1>1, RestKeepsLists
<1>2. CASE Encrypted \/ Discovers
  BY <1>2, StartKeepsLists, ServicesKeepLists, NextCharacteristicsKeepLists,
     CharacteristicsKeepLists, DescriptorsKeepLists, SubscriptionsKeepLists DEF Discovers
<1> QED
  BY <1>1, <1>2 DEF Next, HostSteps, TimerSteps, Tasks

\* The flags, the timers and the histories.
Flags ==
    /\ link \in BOOLEAN /\ ending \in BOOLEAN /\ conn \in BOOLEAN /\ secured \in BOOLEAN
    /\ paired \in BOOLEAN /\ ready \in BOOLEAN /\ errored \in BOOLEAN /\ raced \in BOOLEAN

Ranges ==
    /\ model \in Models /\ conns \in 0..Conns
    /\ proc \in {"none", "mtu", "services", "chrs", "dscs", "cccd"}
    /\ asked \subseteq {"ready", "third", "ctrl"}
    /\ armed \subseteq {"ready", "third", "ctrl", "keepalive", "poll"}

LEMMA FlagsStay == Flags /\ [Next]_vars => Flags'
<1> SUFFICES ASSUME Flags, [Next]_vars PROVE Flags'
  OBVIOUS
<1> USE DEF Flags
<1>1. CASE Connect \/ Drops \/ Disconnected
  BY <1>1 DEF Connect, Drops, Disconnected, linkVars, discVars, endVars
<1>2. CASE Encrypted \/ MtuExchanged
  BY <1>2 DEF Encrypted, MtuExchanged, StartsDiscovery, Callback, linkVars, discVars, endVars
<1>3. CASE Discovers /\ ~MtuExchanged
  BY <1>3 DEF Discovers, ServiceFound, ServicesDone, ServicesFail, NextCharacteristics,
     CharacteristicFound, CharacteristicsEnd, NextDescriptors, DescriptorFound, DescriptorsEnd,
     NextSubscription, SubscriptionEnds, Callback, linkVars, endVars
<1>4. CASE HwInfo \/ SendsThird \/ RetryFires \/ Retries
  BY <1>4 DEF HwInfo, SendsThird, RetryFires, Retries, linkVars, discVars, endVars
<1>5. ASSUME NEW what \in {"third", "ctrl"}, Acked(what) \/ TimesOut(what) PROVE Flags'
  BY <1>5 DEF Acked, TimesOut, linkVars, discVars, endVars
<1>6. ASSUME NEW t \in Tasks, Finishes(t) PROVE Flags'
  BY <1>6 DEF Finishes, Proceeds, ArmsCtrl, Completes, StartsPoll, linkVars, discVars, endVars
<1>7. CASE UNCHANGED vars
  BY <1>7 DEF vars, linkVars, discVars, endVars
<1> QED
  BY <1>1, <1>2, <1>3, <1>4, <1>5, <1>6, <1>7 DEF Next, HostSteps, TimerSteps, Tasks

LEMMA RangesStay == Ranges /\ [Next]_vars => Ranges'
<1> SUFFICES ASSUME Ranges, [Next]_vars PROVE Ranges'
  OBVIOUS
<1> USE DEF Ranges
<1>1. CASE Connect
  <2>1. conns' \in 0..Conns
    <3>1. conns \in 0..Conns /\ conns < Conns /\ conns' = conns + 1
      BY <1>1 DEF Connect
    <3> QED
      BY <3>1, LimitsAssumption
  <2>2. UNCHANGED <<model, proc, asked, armed>>
    BY <1>1 DEF Connect, discVars, seqVars
  <2> QED
    BY <2>1, <2>2
<1>8. CASE Drops \/ Disconnected
  <2>1. /\ UNCHANGED <<model, conns, proc>>
        /\ asked' \in {asked, {}} /\ armed' \in {armed, {}}
    BY <1>8 DEF Drops, Disconnected, discVars, seqVars, endVars
  <2> QED
    BY <2>1
<1>2. CASE Encrypted \/ MtuExchanged
  BY <1>2 DEF Encrypted, MtuExchanged, StartsDiscovery, Callback, linkVars, seqVars, endVars
<1>3. CASE Discovers /\ ~MtuExchanged
  BY <1>3 DEF Discovers, ServiceFound, ServicesDone, ServicesFail, NextCharacteristics,
     CharacteristicFound, CharacteristicsEnd, NextDescriptors, DescriptorFound, DescriptorsEnd,
     NextSubscription, SubscriptionEnds, Callback, linkVars, seqVars, endVars, Sends
<1>4. CASE HwInfo \/ SendsThird \/ RetryFires \/ Retries
  BY <1>4 DEF HwInfo, SendsThird, RetryFires, Retries, linkVars, discVars, seqVars, endVars, Sends
<1>5. ASSUME NEW what \in {"third", "ctrl"}, Acked(what) \/ TimesOut(what) PROVE Ranges'
  BY <1>5 DEF Acked, TimesOut, linkVars, discVars, endVars
<1>6. ASSUME NEW t \in Tasks, Finishes(t) PROVE Ranges'
  BY <1>6 DEF Finishes, Proceeds, ArmsCtrl, Completes, StartsPoll, linkVars, discVars, seqVars,
     endVars, Sends
<1>7. CASE UNCHANGED vars
  BY <1>7 DEF vars, linkVars, discVars, seqVars, endVars
<1> QED
  BY <1>1, <1>2, <1>3, <1>4, <1>5, <1>6, <1>7, <1>8 DEF Next, HostSteps, TimerSteps, Tasks

\* gatt.c: whatever table a camera announces, the fixed arrays of services and of
\* notifying characteristics are never overrun, and no cursor into them leaves
\* what they hold.
THEOREM ArraysHold == Spec => []TypeOK
<1>1. Init => ListsInv /\ Flags /\ Ranges
  <2>1. << >> \in Seq(Entries) /\ Len(<< >>) = 0
    OBVIOUS
  <2>2. Init => ListsInv
    BY <2>1, Sizes, LimitsAssumption DEF Init, ListsInv, Tasks
  <2>3. Init => Flags
    BY DEF Init, Flags
  <2>4. Init => Ranges
    BY LimitsAssumption DEF Init, Ranges
  <2> QED
    BY <2>2, <2>3, <2>4
<1>2. IInv /\ ListsInv /\ Flags /\ Ranges => TypeOK
  <2> SUFFICES ASSUME IInv, ListsInv, Flags, Ranges PROVE TypeOK
    OBVIOUS
  <2>1. ASSUME NEW i \in 1..Len(notify) PROVE notify[i].end <= Len(Attributes)
    <3>1. notify[i] \in Entries
      BY ElementOfSeq DEF ListsInv
    <3> QED
      BY <3>1, Sizes DEF Entries
  <2>2. \A b \in {link, ending, conn, secured, paired, ready, errored, raced} : b \in BOOLEAN
    BY DEF Flags
  <2> QED
    BY <2>1, <2>2 DEF TypeOK, IInv, SequenceTypes, Stages, ListsInv, Ranges
<1> QED
  BY <1>1, <1>2, InitIInv, NextKeeps, ListsKeep, FlagsStay, RangesStay, PTL DEF Spec
=============================================================================

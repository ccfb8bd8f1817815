--------------------------- MODULE BleConnection ---------------------------
(***************************************************************************)
(* The life of one BLE camera's connection (pairing.c, gatt.c,             *)
(* readiness.c): MTU exchange, GATT discovery, the subscriptions, the      *)
(* hardware-info poll, the two handshakes and the end of the sequence.     *)
(* The NimBLE host task runs the callbacks of GATT procedures and of       *)
(* notifications, the esp_timer task the time-outs; what both may complete *)
(* is claimed by an atomic exchange.                                       *)
(*                                                                         *)
(* The camera's attributes are numbered by their handles; a characteristic *)
(* is one handle, that of its declaration and its value.  A camera that is *)
(* removed stays away.  A connection is encrypted once, and what is begun  *)
(* on a link that is gone is refused.                                      *)
(***************************************************************************)
EXTENDS Naturals, Sequences, FiniteSets

CONSTANTS Attributes,   \* the camera's attributes: their kinds, by handle
          Services,     \* its services, [start, end] handles
          MaxServices, MaxNotify,   \* GATT_MAX_SERVICES, GATT_MAX_NOTIFY_CHRS (16)
          RetryMax,     \* GOPRO_READINESS_RETRY_MAX (10)
          Models,       \* models the camera may say it is
          Conns         \* bound: connections of the camera

Kinds == {"write",      \* GP-0072, the command characteristic
          "response",   \* GP-0073, where its answers are notified
          "notify",     \* another characteristic of 128 bits that notifies
          "plain",      \* a characteristic that notifies nothing, or of 16 bits
          "cccd", "descriptor"}

ASSUME AttributesAssumption ==
    /\ Attributes \in Seq(Kinds)
    /\ Services \in Seq([start: Nat \ {0}, end: 0..Len(Attributes)])
ASSUME LimitsAssumption ==
    /\ MaxServices \in Nat /\ MaxNotify \in Nat /\ RetryMax \in Nat /\ Conns \in Nat
    /\ Models \subseteq {"frozen", "legacy", "modern"}

Handles == 1..Len(Attributes)
Tasks   == {"host", "timer"}

VARIABLES
  link, ending,  \* the link is up, and has been told to end
  conn, secured, \* the context has the link's handle; it was encrypted
  conns,         \* connections there have been
  paired,        \* the slot is there
  proc,          \* the GATT procedure in flight
  told,          \* services, or the handle of the last attribute, it has told
  services, svcCur,   \* s_svc_count, s_svc_cur
  notify, last,       \* s_notify_list, s_last_notify_in_svc (0 for none)
  dscCur, subscrCur,  \* s_dsc_cur, s_subscr_cur
  found, subscribed,  \* handles of ctx->gatt; CCCDs the camera was written
  pending,       \* readiness_polling, third_party_pending, cam_ctrl_pending
  retries,       \* readiness_retry_count
  armed,         \* timers that run
  asked,         \* requests the camera may still answer
  at,            \* what each task is in the middle of
  model,         \* what the camera says it is
  ready,         \* the slot takes recording commands
  completed,     \* history: ends of the sequence in this connection
  errored,       \* history: something failed in this connection's discovery
  raced          \* history: the link went down on a timer's way to completion

linkVars == <<link, ending, conn, secured, conns, paired>>
discVars == <<proc, told, services, svcCur, notify, last, dscCur, subscrCur,
              found, subscribed, errored>>
seqVars  == <<pending, retries, armed, asked>>
endVars  == <<model, ready, completed>>
vars == <<linkVars, discVars, seqVars, endVars, at, raced>>

Init ==
    /\ link = FALSE /\ ending = FALSE /\ conn = FALSE /\ secured = FALSE
    /\ conns = 0 /\ paired = TRUE
    /\ proc = "none" /\ told = 0 /\ services = 0 /\ svcCur = 0
    /\ notify = << >> /\ last = 0 /\ dscCur = 0 /\ subscrCur = 0
    /\ found = {} /\ subscribed = {}
    /\ pending = {} /\ retries = 0 /\ armed = {} /\ asked = {}
    /\ at = [t \in Tasks |-> "idle"]
    /\ model \in Models /\ ready = FALSE /\ completed = 0
    /\ errored = FALSE /\ raced = FALSE

Goes(t, where) == at' = [at EXCEPT ![t] = where]

-----------------------------------------------------------------------------
(***************************************************************************)
(* The link.                                                               *)
(***************************************************************************)

\* A timer's callback is assumed to end before the camera is back.
Connect ==
    /\ ~link /\ ~conn /\ paired /\ conns < Conns /\ at["timer"] = "idle"
    /\ link' = TRUE /\ conn' = TRUE /\ conns' = conns + 1
    /\ completed' = 0
    /\ UNCHANGED <<ending, secured, paired, discVars, seqVars, model, ready, at, raced>>

\* gopro_gatt_start_discovery
StartsDiscovery ==
    /\ told' = 0 /\ services' = 0 /\ svcCur' = 0 /\ notify' = << >> /\ last' = 0
    /\ dscCur' = 0 /\ subscrCur' = 0 /\ found' = {}
    /\ \/ link /\ proc' = "services" /\ UNCHANGED <<ending, errored>>
       \/ proc' = "none" /\ ending' = TRUE /\ errored' = TRUE
    /\ UNCHANGED subscribed

\* gopro_on_encrypted
Encrypted ==
    /\ link /\ ~secured /\ at["host"] = "idle"
    /\ secured' = TRUE
    /\ \/ /\ proc' = "mtu"
          /\ UNCHANGED <<ending, told, services, svcCur, notify, last, dscCur,
                         subscrCur, found, subscribed, errored>>
       \/ StartsDiscovery
    /\ UNCHANGED <<link, conn, conns, paired, seqVars, endVars, at, raced>>

Drops ==
    /\ link /\ link' = FALSE
    /\ UNCHANGED <<ending, conn, secured, conns, paired, discVars, seqVars,
                   endVars, at, raced>>

\* Mutant: the keepalive goes on.
Disconnected_KeepsAlive ==
    /\ ~link /\ conn /\ at["host"] = "idle" /\ proc = "none"
    /\ conn' = FALSE /\ secured' = FALSE /\ ending' = FALSE
    /\ found' = {} /\ pending' = {} /\ retries' = 0 /\ asked' = {} /\ subscribed' = {}
    /\ armed' = armed \cap {"keepalive"}
    /\ ready' = FALSE /\ errored' = FALSE
    /\ raced' = (at["timer"] \notin {"idle", "retry"})
    /\ UNCHANGED <<link, conns, paired, proc, told, services, svcCur, notify, last,
                   dscCur, subscrCur, model, completed, at>>

\* gopro_on_disconnected.  NimBLE ends the procedures of a broken link first.
Disconnected ==
    /\ ~link /\ conn /\ at["host"] = "idle" /\ proc = "none"
    /\ conn' = FALSE /\ secured' = FALSE /\ ending' = FALSE
    /\ found' = {} /\ pending' = {} /\ retries' = 0 /\ armed' = {}
    /\ asked' = {} /\ subscribed' = {}
    /\ ready' = FALSE /\ errored' = FALSE
    /\ raced' = (at["timer"] \notin {"idle", "retry"})
    /\ UNCHANGED <<link, conns, paired, proc, told, services, svcCur, notify, last,
                   dscCur, subscrCur, model, completed, at>>

-----------------------------------------------------------------------------
(***************************************************************************)
(* Discovery.  Every callback is the host task's.                          *)
(***************************************************************************)

\* A procedure's callback, with what it leaves alone.
Callback(p) ==
    /\ proc = p /\ at["host"] = "idle"
    /\ UNCHANGED <<link, conn, secured, conns, paired, seqVars, endVars, raced>>

MtuExchanged ==
    /\ Callback("mtu")
    /\ StartsDiscovery
    /\ UNCHANGED at

ServiceFound ==
    /\ Callback("services") /\ link /\ told < Len(Services)
    /\ told' = told + 1
    /\ services' = IF services < MaxServices THEN services + 1 ELSE services
    /\ UNCHANGED <<ending, proc, svcCur, notify, last, dscCur, subscrCur, found,
                   subscribed, errored, at>>

ServicesDone ==
    /\ Callback("services") /\ link /\ told = Len(Services)
    /\ proc' = "none" /\ svcCur' = 0
    /\ Goes("host", "chrs")
    /\ UNCHANGED <<ending, told, services, notify, last, dscCur, subscrCur, found,
                   subscribed, errored>>

ServicesFail ==
    /\ Callback("services")
    /\ proc' = "none" /\ ending' = TRUE /\ errored' = TRUE
    /\ UNCHANGED <<told, services, svcCur, notify, last, dscCur, subscrCur, found,
                   subscribed, at>>

\* begin_chr_discovery_next; a service that is refused is skipped.
NextCharacteristics ==
    /\ at["host"] = "chrs"
    /\ svcCur' = svcCur + 1
    /\ IF svcCur + 1 > services
       THEN /\ dscCur' = 1 /\ Goes("host", "dscs")
            /\ UNCHANGED <<proc, told, last, errored>>
       ELSE /\ last' = 0
            /\ \/ /\ link
                  /\ proc' = "chrs" /\ told' = Services[svcCur + 1].start - 1
                  /\ Goes("host", "idle")
                  /\ UNCHANGED errored
               \/ errored' = TRUE /\ UNCHANGED <<proc, told, at>>
            /\ UNCHANGED dscCur
    /\ UNCHANGED <<linkVars, services, notify, subscrCur, found, subscribed,
                   seqVars, endVars, raced>>

\* The characteristics the procedure has yet to tell.
Characteristics ==
    {h \in (told + 1)..Services[svcCur].end :
        Attributes[h] \in {"write", "response", "notify", "plain"}}

Notifies(h) == Attributes[h] \in {"response", "notify"}

\* What on_chr_disc queues; the bound is the service's, until the next one.
Queued(h) == [val |-> h, end |-> Services[svcCur].end, cccd |-> 0]

Patched(h) == IF last = 0 THEN notify ELSE [notify EXCEPT ![last].end = h - 1]

\* Mutant: the bound is moved on by every characteristic that follows.
CharacteristicFound_PatchesOn ==
    /\ Callback("chrs") /\ link
    /\ \E h \in Characteristics :
         /\ \A k \in Characteristics : h <= k
         /\ told' = h
         /\ found' = found \cup ({h} \cap {k \in Handles : Attributes[k] \in {"write", "response"}})
         /\ IF Notifies(h) /\ Len(notify) < MaxNotify
            THEN /\ notify' = Append(Patched(h), Queued(h))
                 /\ last' = Len(notify) + 1
            ELSE notify' = Patched(h) /\ last' = last
    /\ UNCHANGED <<ending, proc, services, svcCur, dscCur, subscrCur, subscribed,
                   errored, at>>

CharacteristicFound ==
    /\ Callback("chrs") /\ link
    /\ \E h \in Characteristics :
         /\ \A k \in Characteristics : h <= k
         /\ told' = h
         /\ found' = found \cup ({h} \cap {k \in Handles : Attributes[k] \in {"write", "response"}})
         /\ IF Notifies(h) /\ Len(notify) < MaxNotify
            THEN /\ notify' = Append(Patched(h), Queued(h))
                 /\ last' = Len(notify) + 1
            ELSE notify' = Patched(h) /\ last' = 0
    /\ UNCHANGED <<ending, proc, services, svcCur, dscCur, subscrCur, subscribed,
                   errored, at>>

\* The end of a service's characteristics; an error goes on with the next.
CharacteristicsEnd ==
    /\ Callback("chrs")
    /\ \/ link /\ Characteristics = {} /\ UNCHANGED errored
       \/ errored' = TRUE
    /\ proc' = "none" /\ Goes("host", "chrs")
    /\ UNCHANGED <<ending, told, services, svcCur, notify, last, dscCur, subscrCur,
                   found, subscribed>>

\* gopro_gatt_disc_next_dscs
NextDescriptors ==
    /\ at["host"] = "dscs"
    /\ IF dscCur > Len(notify)
       THEN /\ subscrCur' = 1 /\ Goes("host", "cccds")
            /\ UNCHANGED <<proc, told, dscCur, errored>>
       ELSE /\ \/ /\ link /\ notify[dscCur].end > notify[dscCur].val
                  /\ proc' = "dscs" /\ told' = notify[dscCur].val
                  /\ Goes("host", "idle")
                  /\ UNCHANGED <<dscCur, errored>>
               \/ /\ dscCur' = dscCur + 1
                  /\ errored' = (errored \/ notify[dscCur].end > notify[dscCur].val)
                  /\ UNCHANGED <<proc, told, at>>
            /\ UNCHANGED subscrCur
    /\ UNCHANGED <<linkVars, services, svcCur, notify, last, found, subscribed,
                   seqVars, endVars, raced>>

\* on_dsc_disc: the first CCCD in the range is kept.
DescriptorFound ==
    /\ Callback("dscs") /\ link /\ told < notify[dscCur].end
    /\ told' = told + 1
    /\ notify' = IF Attributes[told + 1] = "cccd" /\ notify[dscCur].cccd = 0
                 THEN [notify EXCEPT ![dscCur].cccd = told + 1] ELSE notify
    /\ UNCHANGED <<ending, proc, services, svcCur, last, dscCur, subscrCur, found,
                   subscribed, errored, at>>

DescriptorsEnd ==
    /\ Callback("dscs")
    /\ \/ link /\ told = notify[dscCur].end /\ UNCHANGED errored
       \/ errored' = TRUE
    /\ proc' = "none" /\ dscCur' = dscCur + 1 /\ Goes("host", "dscs")
    /\ UNCHANGED <<ending, told, services, svcCur, notify, last, subscrCur, found,
                   subscribed>>

\* gatt.cmd_write is known; the senders of control.c ask for it and for conn.
Writable == \E h \in found : Attributes[h] = "write"

\* A request is queued for NimBLE, and goes out on a link that is up.
Sends(what) == asked' = asked \cup IF link /\ Writable THEN {what} ELSE {}

\* gopro_gatt_write_next_cccd, which ends in gopro_readiness_start
NextSubscription ==
    /\ at["host"] = "cccds"
    /\ IF subscrCur > Len(notify)
       THEN /\ Goes("host", "idle")
            /\ pending' = pending \cup {"ready"} /\ retries' = 0
            /\ armed' = armed \cup {"ready"} /\ Sends("ready")
            /\ UNCHANGED <<proc, subscrCur, errored>>
       ELSE /\ \/ /\ link /\ notify[subscrCur].cccd # 0
                  /\ proc' = "cccd" /\ Goes("host", "idle")
                  /\ UNCHANGED <<subscrCur, errored>>
               \/ /\ subscrCur' = subscrCur + 1
                  /\ errored' = (errored \/ notify[subscrCur].cccd # 0)
                  /\ UNCHANGED <<proc, at>>
            /\ UNCHANGED seqVars
    /\ UNCHANGED <<linkVars, told, services, svcCur, notify, last, dscCur, found,
                   subscribed, endVars, raced>>

\* on_cccd_write: an error is no more than logged.
SubscriptionEnds ==
    /\ Callback("cccd")
    /\ \/ link /\ subscribed' = subscribed \cup {notify[subscrCur].cccd} /\ UNCHANGED errored
       \/ UNCHANGED subscribed /\ errored' = TRUE
    /\ proc' = "none" /\ subscrCur' = subscrCur + 1 /\ Goes("host", "cccds")
    /\ UNCHANGED <<ending, told, services, svcCur, notify, last, dscCur, found>>

-----------------------------------------------------------------------------
(***************************************************************************)
(* The answers of the camera, and their time-outs.                         *)
(***************************************************************************)

\* gopro_notify_rx, dispatch: an answer arrives where it was subscribed.
OwnCccds(h) ==
    {c \in Handles : /\ h < c /\ Attributes[c] = "cccd"
                     /\ \A k \in (h + 1)..c : Attributes[k] \in {"cccd", "descriptor"}}

Hears(what) ==
    /\ what \in asked /\ link /\ at["host"] = "idle"
    /\ \E h \in found : Attributes[h] = "response" /\ OwnCccds(h) \cap subscribed # {}

\* gopro_readiness_on_response; a camera that is busy is asked again.
HwInfo ==
    /\ Hears("ready")
    /\ asked' = asked \ {"ready"}
    /\ \/ UNCHANGED <<pending, armed, at, ending, paired>>
       \/ /\ "ready" \in pending
          /\ pending' = pending \ {"ready"}
          /\ IF model = "frozen"
             THEN /\ ending' = TRUE /\ paired' = FALSE
                  /\ armed' = armed \ {"ready"}
                  /\ UNCHANGED at
             ELSE /\ armed' = (armed \ {"ready"}) \cup {"keepalive"}
                  /\ Goes("host", "third")
                  /\ UNCHANGED <<ending, paired>>
    /\ UNCHANGED <<link, conn, secured, conns, discVars, retries, endVars, raced>>

\* send_third_party_client_with_wait
SendsThird ==
    /\ at["host"] = "third"
    /\ \/ /\ conn /\ Writable
          /\ pending' = pending \cup {"third"} /\ armed' = armed \cup {"third"}
          /\ Sends("third") /\ Goes("host", "idle")
       \/ Goes("host", "proceed") /\ UNCHANGED <<pending, armed, asked>>
    /\ UNCHANGED <<linkVars, discVars, retries, endVars, raced>>

\* Mutant: the answer does not look whether the time-out has gone on.
Acked_NoClaim(what) ==
    /\ Hears(what)
    /\ asked' = asked \ {what}
    /\ pending' = pending \ {what} /\ armed' = armed \ {what}
    /\ Goes("host", IF what = "third" THEN "proceed" ELSE "complete")
    /\ UNCHANGED <<linkVars, discVars, retries, endVars, raced>>

\* gopro_readiness_handle_third_party_acked, .._cam_ctrl_acked
Acked(what) ==
    /\ Hears(what)
    /\ asked' = asked \ {what}
    /\ IF what \in pending
       THEN /\ pending' = pending \ {what} /\ armed' = armed \ {what}
            /\ Goes("host", IF what = "third" THEN "proceed" ELSE "complete")
       ELSE UNCHANGED <<pending, armed, at>>
    /\ UNCHANGED <<linkVars, discVars, retries, endVars, raced>>

\* third_party_timeout_cb, cam_ctrl_timeout_cb, as far as the claim
TimesOut(what) ==
    /\ what \in armed /\ at["timer"] = "idle"
    /\ armed' = armed \ {what}
    /\ IF conn /\ what \in pending
       THEN /\ pending' = pending \ {what}
            /\ Goes("timer", IF what = "third" THEN "proceed" ELSE "complete")
       ELSE UNCHANGED <<pending, at>>
    /\ UNCHANGED <<linkVars, discVars, retries, asked, endVars, raced>>

\* on_readiness_timer as far as its check
RetryFires ==
    /\ "ready" \in armed /\ at["timer"] = "idle"
    /\ armed' = armed \ {"ready"}
    /\ IF conn /\ "ready" \in pending THEN Goes("timer", "retry") ELSE UNCHANGED at
    /\ UNCHANGED <<linkVars, discVars, pending, retries, asked, endVars, raced>>

\* Mutant: the timer is left alone.
Retries_NotArmed ==
    /\ at["timer"] = "retry"
    /\ retries' = retries + 1
    /\ IF retries + 1 > RetryMax
       THEN /\ pending' = pending \ {"ready"}
            /\ ending' = (ending \/ (conn /\ "ready" \in pending))
            /\ UNCHANGED <<armed, asked>>
       ELSE /\ Sends("ready")
            /\ UNCHANGED <<pending, ending, armed>>
    /\ Goes("timer", "idle")
    /\ UNCHANGED <<link, conn, secured, conns, paired, discVars, endVars, raced>>

\* The rest of it.  A disconnect has deleted the timer.
Retries ==
    /\ at["timer"] = "retry"
    /\ retries' = retries + 1
    /\ IF retries + 1 > RetryMax
       THEN /\ pending' = pending \ {"ready"}
            /\ ending' = (ending \/ (conn /\ "ready" \in pending))
            /\ UNCHANGED <<armed, asked>>
       ELSE /\ Sends("ready")
            /\ armed' = IF conn THEN armed \cup {"ready"} ELSE armed
            /\ UNCHANGED <<pending, ending>>
    /\ Goes("timer", "idle")
    /\ UNCHANGED <<link, conn, secured, conns, paired, discVars, endVars, raced>>

-----------------------------------------------------------------------------
(***************************************************************************)
(* The rest of the sequence, on the task that claimed it.                  *)
(***************************************************************************)

\* proceed_after_third_party, send_set_cam_ctrl; a request that is refused, or
\* for which there is no timer, is not waited for.
Proceeds(t) ==
    /\ at[t] = "proceed"
    /\ \/ Goes(t, "complete") /\ UNCHANGED <<pending, asked>>
       \/ /\ conn /\ Writable /\ model = "modern"
          /\ pending' = pending \cup {"ctrl"} /\ Sends("ctrl")
          /\ Goes(t, "arm")
    /\ UNCHANGED <<linkVars, discVars, retries, armed, endVars, raced>>

ArmsCtrl(t) ==
    /\ at[t] = "arm"
    /\ armed' = IF conn THEN armed \cup {"ctrl"} ELSE armed
    /\ Goes(t, "idle")
    /\ UNCHANGED <<linkVars, discVars, pending, retries, asked, endVars, raced>>

\* complete_connection_sequence: the slot is ready, then its status is polled.
Completes(t) ==
    /\ at[t] = "complete"
    /\ ready' = TRUE /\ completed' = completed + 1
    /\ Goes(t, "poll")
    /\ UNCHANGED <<linkVars, discVars, seqVars, model, raced>>

StartsPoll(t) ==
    /\ at[t] = "poll"
    /\ armed' = armed \cup {"poll"}
    /\ Goes(t, "idle")
    /\ UNCHANGED <<linkVars, discVars, pending, retries, asked, endVars, raced>>

-----------------------------------------------------------------------------

Discovers ==
    \/ MtuExchanged
    \/ ServiceFound \/ ServicesDone \/ ServicesFail
    \/ NextCharacteristics \/ CharacteristicFound \/ CharacteristicsEnd
    \/ NextDescriptors \/ DescriptorFound \/ DescriptorsEnd
    \/ NextSubscription \/ SubscriptionEnds

Finishes(t) == Proceeds(t) \/ ArmsCtrl(t) \/ Completes(t) \/ StartsPoll(t)

HostSteps  == Discovers \/ SendsThird \/ Finishes("host") \/ Disconnected
TimerSteps == RetryFires \/ Retries \/ Finishes("timer")

Next ==
    \/ Connect \/ Encrypted \/ Drops
    \/ HostSteps \/ TimerSteps
    \/ HwInfo
    \/ \E what \in {"third", "ctrl"} : Acked(what) \/ TimesOut(what)

Spec == Init /\ [][Next]_vars

\* The two tasks run, NimBLE ends every procedure and a link that was told
\* to end, and timers fire.
LiveSpec ==
    /\ Spec
    /\ WF_vars(HostSteps) /\ WF_vars(TimerSteps)
    /\ \A what \in {"third", "ctrl"} : WF_vars(TimesOut(what))
    /\ WF_vars(ending /\ Drops)

-----------------------------------------------------------------------------

\* gatt.c, readiness.c: the context, its lists and the tasks' stages.
TypeOK ==
    /\ \A b \in {link, ending, conn, secured, paired, ready, errored, raced} : b \in BOOLEAN
    /\ model \in Models /\ conns \in 0..Conns /\ completed \in Nat
    /\ proc \in {"none", "mtu", "services", "chrs", "dscs", "cccd"}
    /\ services \in 0..MaxServices /\ Len(notify) <= MaxNotify
    /\ \A i \in 1..Len(notify) : notify[i].end <= Len(Attributes)
    /\ found \subseteq Handles /\ subscribed \subseteq Handles
    /\ pending \subseteq {"ready", "third", "ctrl"} /\ asked \subseteq {"ready", "third", "ctrl"}
    /\ armed \subseteq {"ready", "third", "ctrl", "keepalive", "poll"}
    /\ at \in [Tasks -> {"idle", "chrs", "dscs", "cccds", "third", "retry",
                         "proceed", "arm", "complete", "poll"}]

\* readiness.c: an answer on the host task and its time-out on the timer task
\* never both go on: a connection completes its sequence at most once.
CompletesOnce == completed <= 1

\* A table the firmware has room for, as the GATT of Bluetooth orders one: its
\* services are ascending ranges in which all that notifies is, and a
\* characteristic has at most one CCCD, in its service.
Notifying == {h \in Handles : Notifies(h)}

WellFormed ==
    /\ Len(Services) <= MaxServices /\ Cardinality(Notifying) <= MaxNotify
    /\ \A i, j \in 1..Len(Services) : i < j => Services[i].end < Services[j].start
    /\ \A h \in Notifying :
          /\ \E i \in 1..Len(Services) : h \in Services[i].start..Services[i].end
          /\ \A i \in 1..Len(Services) : h \in Services[i].start..Services[i].end =>
                OwnCccds(h) \subseteq (h + 1)..Services[i].end
          /\ \A c, d \in OwnCccds(h) : c = d

\* gatt.c: unless something fails on the way, polling begins with a camera
\* that was subscribed exactly where it has a CCCD of its own to write: no
\* service is passed over, and no bound reaches another's descriptors.
SubscribesExactly ==
    (conn /\ ~errored /\ "ready" \in pending) =>
        subscribed = UNION {OwnCccds(h) : h \in Notifying}

\* pairing.c:gopro_on_disconnected: once the link is gone nothing of the
\* connection is left behind, unless a timer was past its claim just then.
QuietWhenGone ==
    ~conn /\ ~raced => pending = {} /\ armed = {} /\ ~ready

\* readiness.c: a connection that was encrypted becomes ready or ends,
\* whatever is refused, lost or answered late.
Settles == (conn /\ secured) ~> (ready \/ ~conn)
=============================================================================

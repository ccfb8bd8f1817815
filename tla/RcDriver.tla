------------------------------ MODULE RcDriver ------------------------------
(***************************************************************************)
(* One Wi-Fi remote camera of gopro_wifi_rc: the station events of the     *)
(* access point, the two per-slot timers and the UDP receive task, which   *)
(* all post to the work queue without waiting, and the work task that      *)
(* promotes, watches and demotes the camera.                               *)
(*                                                                         *)
(* "ready" stands for ctx->wifi_ready and for the readiness that           *)
(* camera_manager mirrors: the same handlers of the work task write both.  *)
(* An "ack" stands for every answer that only proves life (keepalive ACK,  *)
(* `st`, `SH`); a "cv" carries the model name too.                         *)
(***************************************************************************)
EXTENDS Integers, Sequences

CONSTANT QueueDepth   \* entries the work queue holds (16 in the code)

ASSUME DepthAssumption == QueueDepth \in Nat \ {0}

Commands == {"associated", "dhcp", "disconnected", "tick", "nudge",
             "promote", "apply_cv"}
Answers  == {"ack", "cv"}

VARIABLES station,  \* the camera: "away", "joined", or "leased" an address
          awake,    \* it answers what reaches it
          cached,   \* camera_manager knows the address of its last lease
          air,      \* answers on their way
          q,        \* s_work_queue
          rx,       \* receive task: "idle", "stamp" or "promote", about to
          ip,       \* ctx->last_ip is set
          ready,    \* ctx->wifi_ready
          keep,     \* keepalive timer running
          wol,      \* wake-on-LAN retry timer running
          heard,    \* age of ctx->last_response_tick
          parsed,   \* ctx->parsed_model_name is not empty
          ident,    \* ctx->identify_attempted
          stale,    \* history: an entry queued before the camera left was
                    \* handled after its disassociation
          missed    \* history: since the camera joined, no event that would
                    \* have told the driver its address found room

world == <<station, awake, cached>>
ctx   == <<ip, ready, keep, wol, parsed, ident>>
vars  == <<world, air, q, rx, ctx, heard, stale, missed>>

\* The slot was loaded at boot, or the web page has just added a station:
\* gopro_wifi_rc_add_camera knows the address, camera_manager does not.
Init ==
    /\ \/ /\ station = "away" /\ ip = FALSE /\ keep = FALSE
          /\ cached \in BOOLEAN /\ air = {}
       \/ /\ station = "leased" /\ ip = TRUE /\ keep = TRUE
          /\ cached = FALSE /\ air \in {{"ack"}, Answers}
    /\ awake = TRUE
    /\ q = << >> /\ rx = "idle"
    /\ ready = FALSE /\ wol = FALSE /\ heard = "never"
    /\ parsed = FALSE /\ ident = FALSE /\ stale = FALSE /\ missed = FALSE

HasRoom == Len(q) < QueueDepth

Queued(c) == \E i \in 1..Len(q) : q[i] = c

\* xQueueSend with no timeout: what finds the queue full is dropped.
Posted(c) == IF HasRoom THEN Append(q, c) ELSE q

(***************************************************************************)
(* The station.  Its events, too, are dropped if the queue is full.        *)
(***************************************************************************)

Join ==
    /\ station = "away"
    /\ station' = "joined"
    /\ q' = Posted("associated")
    /\ missed' = ~HasRoom
    /\ UNCHANGED <<awake, cached, air, rx, ctx, heard, stale>>

\* A station that keeps its lease does not ask.  The address goes to
\* camera_manager at once: an association still queued will find it there.
IpAssigned ==
    /\ station = "joined"
    /\ station' = "leased" /\ cached' = TRUE
    /\ q' = Posted("dhcp")
    /\ missed' = (~HasRoom /\ (missed \/ (~cached /\ ~Queued("associated"))))
    /\ UNCHANGED <<awake, air, rx, ctx, heard, stale>>

Leave ==
    /\ station # "away"
    /\ station' = "away"
    /\ q' = Posted("disconnected")
    /\ missed' = FALSE
    /\ UNCHANGED <<awake, cached, air, rx, ctx, heard, stale>>

\* The access point goes down for a moment: esp_wifi_stop reports no station.
Bounce ==
    /\ station # "away"
    /\ station' = "away" /\ missed' = FALSE
    /\ UNCHANGED <<awake, cached, air, q, rx, ctx, heard, stale>>

FallsAsleep ==
    /\ awake /\ awake' = FALSE
    /\ UNCHANGED <<station, cached, air, q, rx, ctx, heard, stale, missed>>

Wakes ==
    /\ ~awake /\ awake' = TRUE
    /\ UNCHANGED <<station, cached, air, q, rx, ctx, heard, stale, missed>>

(***************************************************************************)
(* Timers and time.                                                        *)
(***************************************************************************)

\* The work task is assumed to get round to an entry within its timer's period.
TimerFires(c) ==
    /\ c = "tick" => keep
    /\ ~Queued(c)
    /\ q' = Posted(c)
    /\ UNCHANGED <<world, air, rx, ctx, heard, stale, missed>>

\* More than 5 s without an answer.  A running keepalive timer ticks in that
\* time, and the answer to a tick and the promotion it asks for are assumed to
\* be dealt with.
SilenceElapses ==
    /\ heard = "ticked" \/ (heard = "fresh" /\ ~keep)
    /\ air = {} /\ rx = "idle" /\ ~Queued("promote")
    /\ heard' = "silent"
    /\ UNCHANGED <<world, air, q, rx, ctx, stale, missed>>

(***************************************************************************)
(* The receive task.                                                       *)
(***************************************************************************)

\* Mutant: a name once parsed is not handed over again.
RxTakes_OnceParsed(a) ==
    /\ rx = "idle" /\ a \in air
    /\ air' = air \ {a}
    /\ rx' = IF ip THEN "stamp" ELSE "idle"
    /\ IF ip /\ a = "cv" /\ ~parsed
       THEN parsed' = TRUE /\ q' = Posted("apply_cv")
       ELSE UNCHANGED <<parsed, q>>
    /\ UNCHANGED <<world, ip, ready, keep, wol, ident, heard, stale, missed>>

\* A datagram from an address no slot has is ignored.
RxTakes(a) ==
    /\ rx = "idle" /\ a \in air
    /\ air' = air \ {a}
    /\ rx' = IF ip THEN "stamp" ELSE "idle"
    /\ IF ip /\ a = "cv"
       THEN parsed' = TRUE /\ q' = Posted("apply_cv")
       ELSE UNCHANGED <<parsed, q>>
    /\ UNCHANGED <<world, ip, ready, keep, wol, ident, heard, stale, missed>>

RxStamps ==
    /\ rx = "stamp"
    /\ heard' = "fresh"
    /\ rx' = IF ready THEN "idle" ELSE "promote"
    /\ UNCHANGED <<world, air, q, ctx, stale, missed>>

\* Decided on what RxStamps read of wifi_ready.
RxPosts ==
    /\ rx = "promote"
    /\ rx' = "idle"
    /\ q' = Posted("promote")
    /\ UNCHANGED <<world, air, ctx, heard, stale, missed>>

(***************************************************************************)
(* The work task.                                                          *)
(***************************************************************************)

Takes(c) == q # << >> /\ Head(q) = c /\ q' = Tail(q)

Answering == station # "away" /\ awake

\* A handler asks for answers at the address it has, if it has one.
Asks(answers, to) ==
    air' = IF to /\ Answering THEN air \cup answers ELSE air

\* A keepalive, and a `cv` request as long as the model is not known.
Wanted == IF ident THEN {"ack"} ELSE Answers

Associated ==
    /\ Takes("associated")
    /\ IF cached
       THEN /\ ip' = TRUE /\ keep' = TRUE /\ heard' = "fresh"
            /\ Asks({"ack"}, TRUE)
       ELSE UNCHANGED <<ip, keep, heard, air>>
    /\ UNCHANGED <<world, rx, ready, wol, parsed, ident, stale, missed>>

Dhcp ==
    /\ Takes("dhcp")
    /\ ip' = TRUE /\ keep' = TRUE
    /\ Asks(Answers, TRUE)
    /\ UNCHANGED <<world, rx, ready, wol, heard, parsed, ident, stale, missed>>

\* Mutant: the keepalive timer of a camera that left runs on.
Disconnected_KeepsTimer ==
    /\ Takes("disconnected")
    /\ ip' = FALSE /\ ready' = FALSE /\ wol' = FALSE
    /\ UNCHANGED <<world, air, rx, keep, heard, parsed, ident, stale, missed>>

Disconnected ==
    /\ Takes("disconnected")
    /\ ip' = FALSE /\ ready' = FALSE /\ keep' = FALSE /\ wol' = FALSE
    /\ UNCHANGED <<world, air, rx, heard, parsed, ident, stale, missed>>

\* Mutant: silence wakes the camera but does not demote it.
Tick_NoDemotion ==
    /\ Takes("tick")
    /\ Asks(Wanted, ip)
    /\ wol' = (heard = "silent")
    /\ heard' = IF heard = "fresh" THEN "ticked" ELSE heard
    /\ stale' = (stale \/ ~ip)
    /\ UNCHANGED <<world, rx, ip, ready, keep, parsed, ident, missed>>

\* A camera whose wake-up timer already runs is not demoted again.
Tick ==
    /\ Takes("tick")
    /\ Asks(Wanted, ip)
    /\ wol' = (heard = "silent")
    /\ ready' = (ready /\ (heard # "silent" \/ wol))
    /\ heard' = IF heard = "fresh" THEN "ticked" ELSE heard
    /\ stale' = (stale \/ ~ip)
    /\ UNCHANGED <<world, rx, ip, keep, parsed, ident, missed>>

\* The status poll, and a wake-on-LAN retry as long as that timer runs: both
\* only ask a camera with an address for an answer.
Nudge ==
    /\ Takes("nudge")
    /\ Asks({"ack"}, ip)
    /\ UNCHANGED <<world, rx, ctx, heard, stale, missed>>

\* Mutant: the camera is promoted once per session.
Promote_OnceIdentified ==
    /\ Takes("promote")
    /\ IF ready \/ ident
       THEN UNCHANGED <<ready, ident, air, stale>>
       ELSE /\ ready' = TRUE
            /\ ident' = (ident \/ parsed)
            /\ Asks(IF ident \/ parsed THEN {} ELSE {"cv"}, ip)
            /\ stale' = (stale \/ ~ip)
    /\ UNCHANGED <<world, rx, ip, keep, wol, heard, parsed, missed>>

\* The name, if it is there, is applied; if not, it is asked for again.
Promote ==
    /\ Takes("promote")
    /\ IF ready
       THEN UNCHANGED <<ready, ident, air, stale>>
       ELSE /\ ready' = TRUE
            /\ ident' = (ident \/ parsed)
            /\ Asks(IF ident \/ parsed THEN {} ELSE {"cv"}, ip)
            /\ stale' = (stale \/ ~ip)
    /\ UNCHANGED <<world, rx, ip, keep, wol, heard, parsed, missed>>

ApplyCv ==
    /\ Takes("apply_cv")
    /\ ident' = (ident \/ parsed)
    /\ UNCHANGED <<world, air, rx, ip, ready, keep, wol, heard, parsed, stale,
                   missed>>

Work == Associated \/ Dhcp \/ Disconnected \/ Tick \/ Nudge
        \/ Promote \/ ApplyCv

Next ==
    \/ Join \/ IpAssigned \/ Leave \/ Bounce \/ FallsAsleep \/ Wakes
    \/ \E c \in {"tick", "nudge"} : TimerFires(c)
    \/ SilenceElapses
    \/ \E a \in Answers : RxTakes(a)
    \/ RxStamps \/ RxPosts
    \/ Work

Spec == Init /\ [][Next]_vars

\* The receive task, if it posts again and again, finds room now and then.
FindsRoom ==
    /\ <>[][~RxPosts]_vars \/ []<><<HasRoom /\ RxPosts>>_vars
    /\ <>[][~RxTakes("cv")]_vars \/ []<><<HasRoom /\ RxTakes("cv")>>_vars

\* The tasks run and time passes, the keepalive timer finds room now and then,
\* and a camera whose address is not remembered asks for it.
LiveSpec ==
    /\ Spec
    /\ WF_vars(Work) /\ WF_vars(RxStamps \/ RxPosts)
    /\ WF_vars(RxTakes("ack")) /\ SF_vars(RxTakes("cv"))
    /\ WF_vars(SilenceElapses)
    /\ SF_vars(HasRoom /\ TimerFires("tick"))
    /\ SF_vars(~cached /\ IpAssigned)
    /\ FindsRoom

-----------------------------------------------------------------------------

\* connection.c, driver.c: the context and the queue stay within their types.
TypeOK ==
    /\ station \in {"away", "joined", "leased"}
    /\ awake \in BOOLEAN /\ cached \in BOOLEAN
    /\ air \subseteq Answers
    /\ q \in Seq(Commands) /\ Len(q) <= QueueDepth
    /\ rx \in {"idle", "stamp", "promote"}
    /\ ip \in BOOLEAN /\ ready \in BOOLEAN
    /\ keep \in BOOLEAN /\ wol \in BOOLEAN
    /\ heard \in {"never", "fresh", "ticked", "silent"}
    /\ parsed \in BOOLEAN /\ ident \in BOOLEAN
    /\ stale \in BOOLEAN /\ missed \in BOOLEAN

\* connection.c:rc_handle_promote and the timers: a camera with an address is
\* kept alive, and as long as no stale entry was handled, one that is ready or
\* being woken has an address, so that its silence will be noticed.
ReadyIsWatched ==
    /\ keep <=> ip
    /\ ~stale => ((ready \/ wol) => keep)

\* connection.c:rc_handle_station_disconnected: nothing is left to run for a
\* camera that left, and it is not ready, until it associates again.
QuietOnceGone == ~ip => (~ready /\ ~wol /\ ~keep)

\* udp.c:on_response_from_slot, connection.c:rc_handle_keepalive_tick: a
\* camera that stays and answers is promoted and is no longer woken, whatever
\* commands and answers were lost or dropped and however often it was demoted,
\* unless the queue had no room for the events that told its address.
AnsweringIsReady ==
    <>[](Answering /\ ~missed) => <>[](ready /\ ~wol)

\* connection.c:rc_handle_keepalive_tick: a camera that left without a word,
\* or stays but fell asleep for good, does not stay ready.
SilentIsDemoted ==
    ([]~stale /\ (<>[](station = "away") \/ <>[](station # "away" /\ ~awake)))
        => <>[]~ready

\* connection.c:rc_handle_keepalive_tick, rc_handle_apply_cv: the model of a
\* camera that stays is learnt in the end, although requests and hand-overs
\* may be lost, and the requests stop, with the same exception.
ModelLearnt == <>[](Answering /\ ~missed) => <>[]ident

\* CHANGELOG.md:591, camera-manager.md:756: a camera that comes back and keeps
\* its lease is addressed by it.  Violated: its association may be dropped.
AnsweringAlwaysReady == <>[]Answering => <>[](ready /\ ~wol)
=============================================================================

------------------------------ MODULE CanStore ------------------------------
(***************************************************************************)
(* What can_manager.c keeps across reboots: the time, which GPS frames and *)
(* the web page set and the NVS restores, and the channel identifiers,     *)
(* which the web page changes in the NVS only and the next boot runs with. *)
(*                                                                         *)
(* A time is known by where it comes from.  An estimate stored in one      *)
(* session is old in the next.  handler_post_datetime is taken to come     *)
(* after can_manager_init (the README says what comes before).             *)
(***************************************************************************)
EXTENDS Integers, FiniteSets, Sequences, SequencesExt

CONSTANTS Channels,      \* the channels, in the order of can_channel_id_t
          Ids,           \* (ide, id) pairs
          Default,       \* CHANNEL_DEFAULTS
          MaxPosts,      \* bound: requests that change identifiers per boot
          MaxTouched,    \* bound: identifiers in one request
          MaxRestarts    \* bound: resets and power failures

Chs == ToSet(Channels)

ASSUME ChannelsAssumption ==
    /\ Channels \in Seq(Chs)
    /\ Default \in [Chs -> Ids]
    /\ \A c, d \in Chs : c # d => Default[c] # Default[d]
    /\ MaxPosts \in Nat /\ MaxTouched \in Nat /\ MaxRestarts \in Nat

Setters == {"rx", "web"}             \* the receive task and the web task
Savers  == Setters \cup {"timer"}    \* and the timer task

VARIABLES anchor,     \* s_utc: "none", or the source of the time it holds
          clock,      \* the system clock, likewise
          saved,      \* the time in the NVS: "none", "old" or "live"
          saving,     \* s_utc_save_timer runs
          pc,         \* where a task is in setting or saving the time
          first,      \* it set the first live time of the session
          read,       \* what it is about to save
          fired,      \* calls of on_utc_acquired this session
          running,    \* s_channels, as loaded at boot
          stored,     \* the channels in the NVS (the default where absent)
          writes,     \* what handler_post_can has still to write, by channel
          mixed,      \* history: the NVS may hold identifiers of two requests,
                      \* or of a part of one
          posts, restarts

time == <<anchor, clock, saved, saving, pc, first, read, fired>>
channels == <<running, stored, writes, mixed, posts>>
storeVars == <<time, channels, restarts>>

session_synced == anchor \in {"gps", "manual"}

StoreInit ==
    /\ anchor = "none" /\ clock = "none" /\ saved = "none" /\ saving = FALSE
    /\ pc = [s \in Savers |-> "idle"]
    /\ first = [s \in Setters |-> FALSE]
    /\ read = [s \in Savers |-> "none"]
    /\ fired = 0
    /\ running = Default /\ stored = Default
    /\ writes = << >> /\ mixed = FALSE /\ posts = 0 /\ restarts = 0

Go(s, at) == pc' = [pc EXCEPT ![s] = at]

(***************************************************************************)
(* Setting the time.  s_utc changes under its mutex, the rest follows      *)
(* outside it.                                                             *)
(***************************************************************************)

\* Mutant: the time of the web page does not count as a live one.
GpsSets_FirstGps ==
    /\ pc["rx"] = "idle"
    /\ anchor' = "gps"
    /\ first' = [first EXCEPT !["rx"] = anchor # "gps"]
    /\ Go("rx", "clock")
    /\ UNCHANGED <<clock, saved, saving, read, fired, channels, restarts>>

\* handle_gps_utc, for a frame with a valid time.
GpsSets ==
    /\ pc["rx"] = "idle"
    /\ anchor' = "gps"
    /\ first' = [first EXCEPT !["rx"] = ~session_synced]
    /\ Go("rx", "clock")
    /\ UNCHANGED <<clock, saved, saving, read, fired, channels, restarts>>

\* can_manager_set_manual_utc_ms; it is refused once a live source has won.
ManualSets ==
    /\ pc["web"] = "idle" /\ writes = << >>
    /\ ~session_synced
    /\ anchor' = "manual"
    /\ first' = [first EXCEPT !["web"] = TRUE]
    /\ Go("web", "clock")
    /\ UNCHANGED <<clock, saved, saving, read, fired, channels, restarts>>

\* Mutant: the clock, too, is set only by the first.
SetClock_FirstOnly(s) ==
    /\ pc[s] = "clock"
    /\ clock' = IF ~first[s] THEN clock ELSE IF s = "rx" THEN "gps" ELSE "manual"
    /\ Go(s, IF first[s] THEN "read" ELSE "idle")
    /\ UNCHANGED <<anchor, saved, saving, first, read, fired, channels,
                   restarts>>

\* apply_utc_to_system_clock; only the first live time is saved and announced.
SetClock(s) ==
    /\ pc[s] = "clock"
    /\ clock' = IF s = "rx" THEN "gps" ELSE "manual"
    /\ Go(s, IF first[s] THEN "read" ELSE "idle")
    /\ UNCHANGED <<anchor, saved, saving, first, read, fired, channels,
                   restarts>>

\* Mutant: only can_manager_init starts the timer.
StartSaving_AtBoot(s) ==
    /\ pc[s] = "start"
    /\ Go(s, "fire")
    /\ UNCHANGED <<anchor, clock, saved, saving, first, read, fired, channels,
                   restarts>>

\* start_utc_save_timer_if_needed
StartSaving(s) ==
    /\ pc[s] = "start"
    /\ saving' = TRUE
    /\ Go(s, "fire")
    /\ UNCHANGED <<anchor, clock, saved, first, read, fired, channels, restarts>>

Fire(s) ==
    /\ pc[s] = "fire"
    /\ fired' = fired + 1
    /\ first' = [first EXCEPT ![s] = FALSE]
    /\ Go(s, "idle")
    /\ UNCHANGED <<anchor, clock, saved, saving, read, channels, restarts>>

(***************************************************************************)
(* Saving it: save_utc_to_nvs_now reads under the mutex and writes after.  *)
(***************************************************************************)

TimerDue ==
    /\ saving /\ pc["timer"] = "idle"
    /\ Go("timer", "read")
    /\ UNCHANGED <<anchor, clock, saved, saving, first, read, fired, channels,
                   restarts>>

SaveReads(s) ==
    /\ pc[s] = "read"
    /\ read' = [read EXCEPT ![s] = IF session_synced THEN "live" ELSE "old"]
    /\ Go(s, "write")
    /\ UNCHANGED <<anchor, clock, saved, saving, first, fired, channels,
                   restarts>>

Saved(s) ==
    /\ pc[s] = "write"
    /\ Go(s, IF s = "timer" THEN "idle" ELSE "start")
    /\ UNCHANGED <<anchor, clock, saving, first, read, fired, channels,
                   restarts>>

SaveWrites(s) == Saved(s) /\ saved' = read[s]

\* nvs_open fails: the time is not saved.
SaveFails(s) == Saved(s) /\ UNCHANGED saved

(***************************************************************************)
(* Changing identifiers: POST /api/settings/can.                           *)
(***************************************************************************)

Collides(ids) == \E c, d \in Chs : c # d /\ ids[c] = ids[d]

\* The request's values over those the session runs with.
Merged(posted) ==
    [c \in Chs |-> IF c \in DOMAIN posted THEN posted[c] ELSE running[c]]

\* Mutant: only the posted values are compared with each other.
PostCan_PostedOnly(posted) ==
    /\ pc["web"] = "idle" /\ writes = << >> /\ posts < MaxPosts
    /\ \A c, d \in DOMAIN posted : c # d => posted[c] # posted[d]
    /\ writes' = posted
    /\ mixed' = (mixed \/ stored # running)
    /\ posts' = posts + 1
    /\ UNCHANGED <<time, running, stored, restarts>>

\* A collision in the merged set is refused, else the touched channels are written
\* one by one.  What an earlier request of this boot has written is not looked at.
PostCan(posted) ==
    /\ pc["web"] = "idle" /\ writes = << >> /\ posts < MaxPosts
    /\ ~Collides(Merged(posted))
    /\ writes' = posted
    /\ mixed' = (mixed \/ stored # running)
    /\ posts' = posts + 1
    /\ UNCHANGED <<time, running, stored, restarts>>

\* The next channel to write, in their order.
NextToWrite(c) ==
    /\ c \in DOMAIN writes
    /\ \E i \in DOMAIN Channels :
          Channels[i] = c /\ \A j \in 1..(i - 1) : Channels[j] \notin DOMAIN writes

Written(c) ==
    /\ NextToWrite(c)
    /\ writes' = [d \in DOMAIN writes \ {c} |-> writes[d]]
    /\ UNCHANGED <<time, running, posts, restarts>>

\* can_manager_set_channel writes the NVS and leaves the session's value.
WriteChannel(c) ==
    /\ Written(c)
    /\ stored' = [stored EXCEPT ![c] = writes[c]]
    /\ UNCHANGED mixed

\* It does not look at what nvs_set_u32 and nvs_commit return.
WriteLost(c) ==
    /\ Written(c)
    /\ mixed' = (mixed \/ stored # running \/ DOMAIN writes # {c})
    /\ UNCHANGED stored

CutShort == mixed' = (mixed \/ (writes # << >> /\ stored # running))

\* nvs_open fails: an error is answered, and nothing is undone.
WriteFails ==
    /\ writes # << >>
    /\ writes' = << >> /\ CutShort
    /\ UNCHANGED <<time, running, stored, posts, restarts>>

Posted ==
    UNION {[S -> Ids] : S \in {T \in SUBSET Chs : Cardinality(T) \in 1..MaxTouched}}

\* load_utc_from_nvs: a restored time is valid, but not session-synced.
Restored == IF saved = "none" THEN "none" ELSE "nvs"

(***************************************************************************)
(* can_manager_init after a reset or a power failure: load_channels, the   *)
(* restored time, and the save timer if there was one.                     *)
(***************************************************************************)
Restart ==
    /\ restarts < MaxRestarts
    /\ restarts' = restarts + 1
    /\ anchor' = Restored /\ clock' = Restored
    /\ saving' = (Restored # "none")
    /\ saved' = IF saved = "none" THEN "none" ELSE "old"
    /\ pc' = [s \in Savers |-> "idle"]
    /\ first' = [s \in Setters |-> FALSE]
    /\ read' = [s \in Savers |-> "none"]
    /\ fired' = 0
    /\ running' = stored /\ writes' = << >> /\ CutShort /\ posts' = 0
    /\ UNCHANGED stored

StoreNext ==
    \/ GpsSets \/ ManualSets
    \/ \E s \in Setters : SetClock(s) \/ StartSaving(s) \/ Fire(s)
    \/ TimerDue
    \/ \E s \in Savers : SaveReads(s) \/ SaveWrites(s) \/ SaveFails(s)
    \/ \E p \in Posted : PostCan(p)
    \/ \E c \in Chs : WriteChannel(c) \/ WriteLost(c)
    \/ WriteFails \/ Restart

StoreSpec == StoreInit /\ [][StoreNext]_storeVars

(***************************************************************************)
(* The tasks run, GPS frames keep coming, and of the saves that the timer  *)
(* repeats every five minutes not all fail.                                *)
(***************************************************************************)
StoreLiveSpec ==
    /\ StoreSpec
    /\ WF_storeVars(GpsSets) /\ WF_storeVars(TimerDue)
    /\ \A s \in Setters : WF_storeVars(SetClock(s) \/ StartSaving(s) \/ Fire(s))
    /\ \A s \in Savers : WF_storeVars(SaveReads(s) \/ SaveWrites(s) \/ SaveFails(s))
    /\ SF_storeVars(SaveWrites("timer"))

-----------------------------------------------------------------------------

StoreTypeOK ==
    /\ anchor \in {"none", "nvs", "gps", "manual"}
    /\ clock \in {"none", "nvs", "gps", "manual"}
    /\ saved \in {"none", "old", "live"} /\ saving \in BOOLEAN
    /\ pc \in [Savers -> {"idle", "clock", "read", "write", "start", "fire"}]
    /\ pc["timer"] \in {"idle", "read", "write"}
    /\ first \in [Setters -> BOOLEAN]
    /\ \A s \in Setters : pc[s] \notin {"idle", "clock"} => first[s]
    /\ read \in [Savers -> {"none", "old", "live"}]
    /\ fired \in Nat
    /\ running \in [Chs -> Ids] /\ stored \in [Chs -> Ids]
    /\ writes \in UNION {[S -> Ids] : S \in SUBSET Chs} /\ mixed \in BOOLEAN
    /\ posts \in 0..MaxPosts /\ restarts \in 0..MaxRestarts

(***************************************************************************)
(* The first live time of a session, from whichever source, is announced   *)
(* to the cameras once; a time restored from the NVS never is.             *)
(***************************************************************************)
AnnouncedOnce ==
    LET inFlight == {s \in Setters : first[s]}
    IN  /\ fired <= 1
        /\ session_synced <=> fired = 1 \/ inFlight # {}
        /\ fired = 1 => inFlight = {}

(***************************************************************************)
(* The web page's time never displaces a live one, not even its own.       *)
(***************************************************************************)
LiveSourceWins == [][session_synced => anchor' # "manual" \/ UNCHANGED anchor]_storeVars

(***************************************************************************)
(* In the end the system clock and the NVS follow the GPS, although a      *)
(* slower web request may set the clock after a GPS frame has set the      *)
(* anchor, and a save may write an estimate it read before.                *)
(***************************************************************************)
ClockSettles == <>[](clock = "gps")
SaveSettles == <>[](saved = "live")

(***************************************************************************)
(* No two channels run with the same identifier, which would give the      *)
(* frames of both to one handler -- unless a request was accepted when an  *)
(* earlier one of the same boot had changed the NVS, or was cut short      *)
(* between its writes by an error or a restart, or lost one of several.    *)
(***************************************************************************)
ChannelsDistinct == ~mixed => ~Collides(running)

(***************************************************************************)
(* What the code's comments and can-id-configuration.md say: the merged    *)
(* set is validated before any value is persisted, all or nothing, so the  *)
(* web path is safe (can_manager.c:854-857, api_settings.c:120-123).       *)
(***************************************************************************)
WebPathIsSafe == ~Collides(running)

=============================================================================

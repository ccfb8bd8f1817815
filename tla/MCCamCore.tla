------------------------------ MODULE MCCamCore ------------------------------
(* Instances of CamCore for TLC. *)
EXTENDS CamCore

OneSlot == {0}
TwoSlots == {0, 1}
OneRc == [s \in OneSlot |-> "rc"]
BothRc == [s \in TwoSlots |-> "rc"]

\* The intent and dispatch part of CamCore alone: who is ready, what is wanted
\* and what is queued, with no status reports, presses or timer deletions.  It
\* makes waves over two cameras small enough to enumerate.
WaveNext ==
  \/ \E s \in Slots :
       \/ RegisterSlot(s) \/ AttachDriver(s) \/ TeardownSlot(s)
       \/ SetReady(s) \/ SetNotReady(s)
       \/ LinkUp(s) \/ Execute(s) \/ Tick(s)
  \/ \E s \in Slots, want \in Commands : SetDesiredSlot(s, want)
  \/ \E want \in Intents : SetDesiredAll(want)

WaveSpec == Init /\ [][WaveNext]_vars
=============================================================================

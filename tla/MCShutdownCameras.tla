-------------------------- MODULE MCShutdownCameras --------------------------
(* Instances of ShutdownCameras for TLC. *)
EXTENDS ShutdownCameras

OneSlot == {0}
OneBle == [s \in OneSlot |-> "ble"]
OneRc == [s \in OneSlot |-> "rc"]
=============================================================================

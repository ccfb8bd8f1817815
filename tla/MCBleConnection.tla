-------------------------- MODULE MCBleConnection --------------------------
(***************************************************************************)
(* A camera with two services for TLC.  Handle 4 notifies and has no CCCD  *)
(* of its own; the next CCCD behind it is that of a characteristic of 16   *)
(* bits, which the firmware does not subscribe.                            *)
(***************************************************************************)
EXTENDS BleConnection

SmallAttributes ==
    <<"write", "response", "cccd",
      "notify", "descriptor", "plain", "cccd", "plain">>

SmallServices == <<[start |-> 1, end |-> 3], [start |-> 4, end |-> 8]>>

\* The hypothesis of SubscribedExactly holds of this camera.
ASSUME SmallTableIsWellFormed == WellFormed
=============================================================================

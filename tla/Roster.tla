------------------------------- MODULE Roster -------------------------------
(***************************************************************************)
(* What the slot table promises, without slots, locks and flash: a list of *)
(* different cameras, in the order of their CAN bytes.  A camera is added  *)
(* at the end, one is taken out and those after it move up, or the whole   *)
(* list is put in another order.                                           *)
(***************************************************************************)
EXTENDS Naturals, SequencesExt

CONSTANTS Cams, MaxSlots

VARIABLE roster

Init == roster = <<>>

Add(c) ==
  /\ c \notin Range(roster)
  /\ Len(roster) < MaxSlots
  /\ roster' = Append(roster, c)

Delete(i) == roster' = RemoveAt(roster, i)

Rearrange(p) == roster' = [i \in DOMAIN roster |-> roster[p[i]]]

Next ==
  \/ \E c \in Cams : Add(c)
  \/ \E i \in DOMAIN roster : Delete(i)
  \/ \E p \in Bijection(DOMAIN roster, DOMAIN roster) : Rearrange(p)

Spec == Init /\ [][Next]_roster
=============================================================================

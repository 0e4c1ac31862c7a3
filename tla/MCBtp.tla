------------------------------- MODULE MCBtp -------------------------------
(***************************************************************************)
(* Btp for TLC.  Stand-alone acknowledgments answer each other for ever,   *)
(* so sequence numbers wrap: SeqMod is the smallest value at which the     *)
(* W + 1 numbers that can be under way differ.                             *)
(*   MCBtp.cfg: two messages of two fragments from the central, one of one *)
(*     fragment from the peripheral.  A message can overtake, run into or  *)
(*     be taken for the one before it, the central's window closes in the  *)
(*     middle of the second, and both windows fill at the same time.       *)
(*   MCBtpProgress.cfg: one and two fragments, so that the peripheral has  *)
(*     to wait for its window, with closing and refused GATT operations.   *)
(*   MCBtpStaleAck.cfg: the same without closing and refusals.             *)
(***************************************************************************)
EXTENDS Btp

FillWindows == [r \in Roles |-> IF r = "central" THEN {2} ELSE {1}]
WaitForWindow == [r \in Roles |-> IF r = "central" THEN {1} ELSE {2}]
OneMessage == [r \in Roles |-> 1]
TwoOfCentral == [r \in Roles |-> IF r = "central" THEN 2 ELSE 1]
=============================================================================

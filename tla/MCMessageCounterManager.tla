---------------------- MODULE MCMessageCounterManager ----------------------
(***************************************************************************)
(* MessageCounterManager for TLC.  The challenges are the ordinals of the  *)
(* attempts, and 0 is no challenge.                                        *)
(***************************************************************************)
EXTENDS MessageCounterManager

CONSTANTS a, b

MCChallenge == Attempts
=============================================================================

-------------------------- MODULE MCSecureReceive --------------------------
(***************************************************************************)
(* SecureReceive for TLC: a window of three bits over eight counter        *)
(* values, so that a counter can advance by less than, exactly and more    *)
(* than a window, twice.                                                   *)
(***************************************************************************)
EXTENDS SecureReceive
=============================================================================

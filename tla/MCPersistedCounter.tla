------------------------- MODULE MCPersistedCounter -------------------------
(***************************************************************************)
(* PersistedCounter for TLC: the cfg gives an epoch of two values, so that *)
(* a process lives through several writes and restarts below the bound.    *)
(***************************************************************************)
EXTENDS PersistedCounter
=============================================================================

------------------------- MODULE MCEventManagement --------------------------
(***************************************************************************)
(* EventManagement for TLC: three buffers, each of which holds an event of *)
(* the larger size and one of the smaller, so that a call may have to make *)
(* room in all of them, and drop or move two events to place one.          *)
(***************************************************************************)
EXTENDS EventManagement

Bytes == <<7, 6, 6>>
=============================================================================

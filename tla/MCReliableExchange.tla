------------------------- MODULE MCReliableExchange -------------------------
(***************************************************************************)
(* ReliableExchange for TLC.  Two application messages of either node are  *)
(* enough for a request, its response, the next request and a late answer  *)
(* to the first; MaxRetrans is 1.  Resources may run out at any time and   *)
(* one handler of each node may fail to send its acknowledgments.          *)
(***************************************************************************)
EXTENDS ReliableExchange
=============================================================================

------------------------ MODULE MCReliableMessageMgr ------------------------
(***************************************************************************)
(* ReliableMessageMgr for TLC: three exchanges for a table of two entries, *)
(* and a tick of two units, so that handlers run at a tick boundary and    *)
(* between two of them.                                                    *)
(***************************************************************************)
EXTENDS ReliableMessageMgr, TLC

Symmetry == Permutations(Exchange)
=============================================================================

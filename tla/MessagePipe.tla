---------------------------- MODULE MessagePipe ----------------------------
(***************************************************************************)
(* What a BTP connection promises its two applications: in each direction  *)
(* a pipe that hands over whole messages, each once and in the order they  *)
(* were sent.  A connection that closes may keep back the last of them,    *)
(* but never one from the middle.                                          *)
(***************************************************************************)
EXTENDS Naturals, Sequences

CONSTANTS Ends, Other(_)   \* the two ends of the pipe, and the opposite end

VARIABLES
    in,    \* in[e]: what the application at end e has sent
    out    \* out[e]: what the application at end e has been given

Init ==
    /\ in = [e \in Ends |-> <<>>]
    /\ out = [e \in Ends |-> <<>>]

\* The application at end e sends a message.
Put(e) ==
    /\ Len(in'[e]) = Len(in[e]) + 1
    /\ SubSeq(in'[e], 1, Len(in[e])) = in[e]
    /\ in' = [in EXCEPT ![e] = in'[e]]
    /\ UNCHANGED out

\* The application at end e is given the next message of the other end.
Take(e) ==
    /\ Len(out[e]) < Len(in[Other(e)])
    /\ out' = [out EXCEPT ![e] = Append(@, in[Other(e)][Len(out[e]) + 1])]
    /\ UNCHANGED in

Next == \E e \in Ends : Put(e) \/ Take(e)

Spec == Init /\ [][Next]_<<in, out>>
=============================================================================

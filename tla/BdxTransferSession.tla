------------------------- MODULE BdxTransferSession -------------------------
(***************************************************************************)
(* Both ends of a bulk data transfer, protocols/bdx/BdxTransferSession.cpp.*)
(* A TransferSession does no I/O: its caller hands it received messages,   *)
(* asks it to prepare messages, and polls it for what to do next.  Any     *)
(* order of these calls is possible; a call the session refuses            *)
(* (CHIP_ERROR_INCORRECT_STATE) changes nothing.                           *)
(*                                                                         *)
(* The callers are external.  They send a polled message at once, as       *)
(* PollOutput asks, acknowledge only a block that they polled, and query   *)
(* only in receiver drive.  A transfer has an exchange of its own, which   *)
(* keeps messages in order but may lose them (messaging/, see              *)
(* ReliableExchange).  Block sizes, offsets, designators and metadata are  *)
(* carried along unread and are left out, and so is kAsync, which the      *)
(* block handlers do not support.                                          *)
(***************************************************************************)
EXTENDS Integers, Sequences, FiniteSets

CONSTANTS
    Offers,        \* what the initiator may propose: sets of control modes
    Supports,      \* what the responder may support: sets of control modes
    Uninitialized, \* what mControlMode may hold before it is assigned
    CounterMod,    \* block counters are modulo this (2^32 in the code)
    Plans          \* what the callers and the exchange may do; each behaviour has one

\* blocks bounds the number of transfers and the blocks of each; lengths are the
\* transfer lengths in bytes (0: indefinite); lossy: the exchange may lose
\* messages; shortage: there may be no buffer for a status report.
Plan == [blocks : Seq(Nat \ {0}), lengths : SUBSET Nat, lossy : BOOLEAN, shortage : BOOLEAN]

VARIABLES
    plan,      \* the plan of this behaviour
    sess,      \* sess[e]: the members of the TransferSession at end e
    net,       \* net[e]: messages on their way to e, in order
    transfers, \* history: transfers started
    written,   \* history: blocks and bytes prepared in each transfer
    got,       \* history: got[t]: blocks the receiver's caller has polled
    clean      \* history: nothing outside the sessions has gone wrong so far

vars == <<plan, sess, net, transfers, written, got, clean>>

End == {"initiator", "responder"}
Peer(e) == IF e = "initiator" THEN "responder" ELSE "initiator"
Role == {"sender", "receiver"}
Mode == {"SenderDrive", "ReceiverDrive"}
Transfer == DOMAIN plan.blocks

ASSUME BdxAssumption ==
    /\ CounterMod \in Nat \ {0, 1}
    /\ Offers \subseteq SUBSET Mode
    /\ Supports \subseteq SUBSET Mode
    /\ Uninitialized \subseteq Mode \cup {"other"}
    /\ \A p \in Plans : p \in Plan

\* TransferState.
Finished == {"Done", "Error"}
Running == {"AwaitingAccept", "Negotiate", "InProgress", "AwaitingEOFAck", "ReceivedEOF"}
State == Finished \cup Running \cup {"Uninitialized", "AwaitingInit"}

\* OutputEventType.
Output == {"none", "msg", "init", "accept", "query", "block", "ack", "ackEof", "status", "error"}

\* A message.  num is its block counter; data is the block it carries, its
\* transfer and its place in it; modes and length are those of an Init or Accept.
Message == [type : {"Init", "Accept", "Query", "Block", "BlockEOF", "Ack", "AckEOF", "Status"},
            role : Role, transfer : Transfer \cup {0}, num : 0..(CounterMod - 1),
            data : (Transfer \cup {0}) \X Nat, bytes : {0, 1},
            modes : SUBSET Mode, length : plan.lengths \cup {0}]

MessageOf(s, type) ==
    [type |-> type, role |-> s.role, transfer |-> s.transfer, num |-> 0,
     data |-> <<0, 0>>, bytes |-> 0, modes |-> {}, length |-> 0]

NoMessage == [type |-> "Status", role |-> "sender", transfer |-> 0, num |-> 0,
              data |-> <<0, 0>>, bytes |-> 0, modes |-> {}, length |-> 0]

-----------------------------------------------------------------------------
(* The members of a session. expired: timeoutMs or more have passed since  *)
(* mTimeoutStartTimeMs. unacked: the caller has polled a block and not     *)
(* acknowledged it. transfer is the exchange the caller uses, 0 for none.  *)

Session ==
    [state : State, role : Role, opts : SUBSET Mode, mode : Mode \cup {"other"},
     proposed : SUBSET Mode, out : Output, msg : Message, awaiting : BOOLEAN,
     expired : BOOLEAN, initStart : BOOLEAN, length : plan.lengths \cup {0}, bytes : Nat,
     lastBlock : 0..(CounterMod - 1), nextBlock : 0..(CounterMod - 1),
     lastQuery : 0..(CounterMod - 1), nextQuery : 0..(CounterMod - 1),
     transfer : Transfer \cup {0}, unacked : BOOLEAN]

\* A new object: mControlMode has no initializer.
NewSession(role, opts, mode) ==
    [state |-> "Uninitialized", role |-> role, opts |-> opts, mode |-> mode,
     proposed |-> {}, out |-> "none", msg |-> NoMessage, awaiting |-> FALSE,
     expired |-> FALSE, initStart |-> TRUE, length |-> 0, bytes |-> 0,
     lastBlock |-> 0, nextBlock |-> 0, lastQuery |-> 0, nextQuery |-> 0,
     transfer |-> 0, unacked |-> FALSE]

\* Mutant: the number of the next query survives a Reset.
ResetKeepsQuery(s) ==
    [NewSession(s.role, s.opts, s.mode) EXCEPT
        !.proposed = s.proposed, !.nextQuery = s.nextQuery]

\* Reset leaves mControlMode, the request and the role as they are.
ResetSession(s) ==
    [NewSession(s.role, s.opts, s.mode) EXCEPT !.proposed = s.proposed]

\* Mutant: a counter that does not wrap.
IncUnbounded(n) == n + 1

Inc(n) == (n + 1) % CounterMod

PrepareOutgoingMessageEvent(s, m) == [s EXCEPT !.out = "msg", !.msg = m]

\* ok: a buffer for the report was found.
PrepareStatusReport(s, ok) ==
    [(IF ok THEN PrepareOutgoingMessageEvent(s, MessageOf(s, "Status"))
            ELSE [s EXCEPT !.out = "error"])
        EXCEPT !.state = "Error", !.awaiting = FALSE]

-----------------------------------------------------------------------------
(* Handlers of received messages: functions from a session to a session.   *)

\* If both ends share exactly one mode, it is taken; if they share several,
\* the application must pick; if none, a status report is prepared.
ResolveTransferControlOptions(s, modes, ok) ==
    LET common == modes \cap s.opts
    IN  IF common = {} THEN PrepareStatusReport(s, ok)
        ELSE IF Cardinality(common) = 1
        THEN [s EXCEPT !.mode = CHOOSE c \in common : TRUE]
        ELSE s

\* Goes on whatever ResolveTransferControlOptions has done.
HandleTransferInit(s, m, ok) ==
    IF s.state # "AwaitingInit" \/ m.role = s.role
    THEN PrepareStatusReport([s EXCEPT !.transfer = IF @ = 0 THEN m.transfer ELSE @], ok)
    ELSE [ResolveTransferControlOptions(s, m.modes, ok) EXCEPT
            !.proposed = m.modes, !.length = m.length, !.transfer = m.transfer,
            !.out = "init", !.state = "Negotiate"]

VerifyProposedMode(s, modes) == Cardinality(modes) = 1 /\ modes \subseteq s.opts

\* HandleReceiveAccept and HandleSendAccept: who has to act now awaits nothing.
HandleAccept(s, m, ok) ==
    IF m.role = s.role \/ s.state # "AwaitingAccept" \/ ~VerifyProposedMode(s, m.modes)
    THEN PrepareStatusReport(s, ok)
    ELSE LET mode == CHOOSE c \in m.modes : TRUE
         IN  [s EXCEPT !.mode = mode, !.state = "InProgress", !.out = "accept",
                !.length = IF s.role = "receiver" THEN m.length ELSE @,
                !.awaiting = (mode = IF s.role = "receiver" THEN "SenderDrive"
                                                             ELSE "ReceiverDrive")]

HandleBlockQuery(s, m, ok) ==
    IF \/ s.role # "sender" \/ s.state # "InProgress" \/ ~s.awaiting
       \/ m.num # s.nextBlock
    THEN PrepareStatusReport(s, ok)
    ELSE [s EXCEPT !.out = "query", !.awaiting = FALSE, !.lastQuery = m.num]

\* What HandleBlock and HandleBlockEOF have in common.
BlockExpected(s, m) ==
    s.role = "receiver" /\ s.state = "InProgress" /\ s.awaiting /\ m.num = s.lastQuery

TakeBlock(s, m) ==
    [s EXCEPT !.out = "block", !.msg = m, !.bytes = @ + m.bytes,
              !.lastBlock = m.num, !.awaiting = FALSE]

HandleBlock(s, m, ok) ==
    IF \/ ~BlockExpected(s, m) \/ m.bytes = 0
       \/ s.length > 0 /\ s.bytes + m.bytes > s.length
    THEN PrepareStatusReport(s, ok)
    ELSE TakeBlock(s, m)

\* Checks no length.
HandleBlockEOF(s, m, ok) ==
    IF ~BlockExpected(s, m) THEN PrepareStatusReport(s, ok)
    ELSE [TakeBlock(s, m) EXCEPT !.state = "ReceivedEOF"]

HandleBlockAck(s, m, ok) ==
    IF \/ s.role # "sender" \/ s.state # "InProgress" \/ ~s.awaiting
       \/ m.num # s.lastBlock
    THEN PrepareStatusReport(s, ok)
    ELSE [s EXCEPT !.out = "ack", !.awaiting = (s.mode = "ReceiverDrive")]

HandleBlockAckEOF(s, m, ok) ==
    IF \/ s.role # "sender" \/ s.state # "AwaitingEOFAck" \/ ~s.awaiting
       \/ m.num # s.lastBlock
    THEN PrepareStatusReport(s, ok)
    ELSE [s EXCEPT !.out = "ackEof", !.awaiting = FALSE, !.state = "Done"]

\* Overrides whatever output is pending, in every state.
HandleStatusReportMessage(s) ==
    [s EXCEPT !.state = "Error", !.awaiting = FALSE, !.out = "status", !.msg = NoMessage]

HandleBdxMessage(s, m, ok) ==
    [(CASE m.type = "Init" -> HandleTransferInit(s, m, ok)
        [] m.type = "Accept" -> HandleAccept(s, m, ok)
        [] m.type = "Query" -> HandleBlockQuery(s, m, ok)
        [] m.type = "Block" -> HandleBlock(s, m, ok)
        [] m.type = "BlockEOF" -> HandleBlockEOF(s, m, ok)
        [] m.type = "Ack" -> HandleBlockAck(s, m, ok)
        [] m.type = "AckEOF" -> HandleBlockAckEOF(s, m, ok)) EXCEPT !.expired = FALSE]

-----------------------------------------------------------------------------
(* Calls that prepare messages.                                            *)

StartTransfer(e) ==
    LET s == sess[e]
        t == transfers + 1
    IN  /\ e = "initiator" /\ s.state = "Uninitialized"
        /\ t \in Transfer
        /\ \E len \in plan.lengths :
             sess' = [sess EXCEPT ![e] = PrepareOutgoingMessageEvent(
                        [s EXCEPT !.transfer = t, !.length = len,
                                  !.state = "AwaitingAccept", !.awaiting = TRUE],
                        [MessageOf([s EXCEPT !.transfer = t], "Init") EXCEPT
                            !.modes = s.opts, !.length = len])]
        /\ transfers' = t
        /\ UNCHANGED <<plan, net, written, got, clean>>

WaitForTransfer(e) ==
    /\ e = "responder" /\ sess[e].state = "Uninitialized"
    /\ sess' = [sess EXCEPT ![e].state = "AwaitingInit"]
    /\ UNCHANGED <<plan, net, transfers, written, got, clean>>

\* Mutant: the acceptor never waits.
AcceptedNotAwaiting(s, mode, len) ==
    [PrepareOutgoingMessageEvent([s EXCEPT !.state = "InProgress"],
        [MessageOf(s, "Accept") EXCEPT !.modes = {mode}, !.length = s.length])
       EXCEPT !.length = IF s.role = "sender" THEN len ELSE @]

\* The mode the application picks goes out in the message only.
Accepted(s, mode, len) ==
    LET length == IF s.role = "sender" THEN len ELSE s.length
    IN  PrepareOutgoingMessageEvent(
            [s EXCEPT !.state = "InProgress", !.length = length,
                      !.awaiting = @ \/ (s.mode = IF s.role = "receiver" THEN "SenderDrive"
                                                                       ELSE "ReceiverDrive")],
            [MessageOf(s, "Accept") EXCEPT !.modes = {mode}, !.length = length])

AcceptTransfer(e) ==
    LET s == sess[e]
    IN  /\ s.state = "Negotiate" /\ s.out = "none"
        /\ \E mode \in s.proposed, len \in plan.lengths :
             sess' = [sess EXCEPT ![e] = Accepted(s, mode, len)]
        /\ UNCHANGED <<plan, net, transfers, written, got, clean>>

PrepareBlockQuery(e) ==
    LET s == sess[e]
    IN  /\ s.state = "InProgress" /\ s.role = "receiver"
        /\ s.out = "none" /\ ~s.awaiting
        /\ s.mode = "ReceiverDrive"
        /\ sess' = [sess EXCEPT ![e] = PrepareOutgoingMessageEvent(
                      [s EXCEPT !.awaiting = TRUE, !.lastQuery = s.nextQuery,
                                !.nextQuery = Inc(@), !.unacked = FALSE],
                      [MessageOf(s, "Query") EXCEPT !.num = s.nextQuery])]
        /\ UNCHANGED <<plan, net, transfers, written, got, clean>>

\* Mutant: the transfer is done once its last block is out.
DoneAfterEOF == "Done"

StateAfterEOF == "AwaitingEOFAck"

\* A block of one byte or none. A sender that gives an empty block, or more
\* than the length agreed, gets its transfer refused: that is its caller's doing.
PrepareBlock(e) ==
    LET s == sess[e]
        w == written[s.transfer]
    IN  /\ s.state = "InProgress" /\ s.role = "sender"
        /\ s.out = "none" /\ ~s.awaiting
        /\ \E bytes \in {0, 1}, eof \in BOOLEAN :
             /\ eof \/ w.blocks + 1 < plan.blocks[s.transfer]
             /\ sess' = [sess EXCEPT ![e] = PrepareOutgoingMessageEvent(
                          [s EXCEPT !.awaiting = TRUE, !.lastBlock = s.nextBlock,
                                    !.nextBlock = Inc(@),
                                    !.state = IF eof THEN StateAfterEOF ELSE @],
                          [MessageOf(s, IF eof THEN "BlockEOF" ELSE "Block") EXCEPT
                              !.num = s.nextBlock, !.bytes = bytes,
                              !.data = <<s.transfer, w.blocks + 1>>])]
             /\ written' = [written EXCEPT ![s.transfer] =
                              [blocks |-> w.blocks + 1, bytes |-> w.bytes + bytes]]
             /\ clean' = (clean /\ (eof \/ (bytes = 1 /\ (s.length > 0 => w.bytes < s.length))))
        /\ UNCHANGED <<plan, net, transfers, got>>

PrepareBlockAck(e) ==
    LET s == sess[e]
        m == [MessageOf(s, IF s.state = "ReceivedEOF" THEN "AckEOF" ELSE "Ack")
                EXCEPT !.num = s.lastBlock]
        p == PrepareOutgoingMessageEvent([s EXCEPT !.unacked = FALSE], m)
    IN  /\ s.role = "receiver" /\ s.state \in {"InProgress", "ReceivedEOF"}
        /\ s.out = "none"
        /\ s.unacked
        /\ sess' = [sess EXCEPT ![e] =
                      IF s.state = "ReceivedEOF"
                      THEN [p EXCEPT !.state = "Done", !.awaiting = FALSE]
                      ELSE IF s.mode = "SenderDrive"
                      THEN [p EXCEPT !.lastQuery = Inc(s.lastBlock), !.awaiting = TRUE]
                      ELSE p]
        /\ UNCHANGED <<plan, net, transfers, written, got, clean>>

AbortTransfer(e, ok) ==
    /\ sess[e].state \notin {"Uninitialized"} \cup Finished
    /\ sess' = [sess EXCEPT ![e] = PrepareStatusReport(@, ok)]
    /\ clean' = FALSE
    /\ UNCHANGED <<plan, net, transfers, written, got>>

\* The caller resets a finished session and gives its exchange up.
Reset(e) ==
    /\ sess[e].state \in Finished /\ sess[e].out = "none"
    /\ sess' = [sess EXCEPT ![e] = ResetSession(@)]
    /\ UNCHANGED <<plan, net, transfers, written, got, clean>>

-----------------------------------------------------------------------------
(* Polling and reception.                                                  *)

TimedOut(s) == s.awaiting /\ s.expired /\ ~s.initStart

\* Mutant: a block stays pending.
PolledBlockAgain(s) ==
    [s EXCEPT !.out = IF @ = "block" THEN @ ELSE "none", !.initStart = FALSE,
              !.expired = @ /\ ~s.initStart /\ s.out # "msg",
              !.unacked = @ \/ s.out = "block"]

\* The session after its pending output was taken.
Polled(s) ==
    [s EXCEPT !.out = "none", !.msg = NoMessage, !.initStart = FALSE,
              !.expired = @ /\ ~s.initStart /\ s.out # "msg",
              !.unacked = @ \/ s.out = "block"]

\* A timeout is reported before, and instead of, the pending output, which
\* stays pending.
PollTimeout(e) ==
    /\ TimedOut(sess[e])
    /\ sess' = [sess EXCEPT ![e].state = "Error", ![e].awaiting = FALSE]
    /\ clean' = FALSE
    /\ UNCHANGED <<plan, net, transfers, written, got>>

\* The caller sends a message, on the exchange it has, or takes in a block.
PollOutput(e) ==
    LET s == sess[e]
    IN  /\ ~TimedOut(s)
        /\ s.out # "none" \/ s.initStart
        /\ sess' = [sess EXCEPT ![e] = Polled(s)]
        /\ net' = IF s.out = "msg" /\ s.transfer # 0
                  THEN [net EXCEPT ![Peer(e)] = Append(@, s.msg)] ELSE net
        /\ got' = IF s.out = "block" THEN [got EXCEPT ![s.transfer] = Append(@, s.msg.data)]
                                     ELSE got
        /\ UNCHANGED <<plan, transfers, written, clean>>

\* Messages of an exchange that was given up do not reach the session. A
\* request reaches it in any state.
ForSession(s, m) == m.type = "Init" \/ m.transfer = s.transfer

\* A BDX message that comes before the last output was polled is refused, and
\* lost. A request that comes before WaitForTransfer is its sender's doing.
HandleMessageReceived(e, ok) ==
    LET s == sess[e]
        m == Head(net[e])
    IN  /\ net[e] # <<>>
        /\ net' = [net EXCEPT ![e] = Tail(@)]
        /\ \/ /\ ~ForSession(s, m)
              /\ UNCHANGED <<sess, clean>>
           \/ /\ ForSession(s, m) /\ m.type = "Status"
              /\ sess' = [sess EXCEPT ![e] = HandleStatusReportMessage(s)]
              /\ UNCHANGED clean
           \/ /\ ForSession(s, m) /\ m.type # "Status" /\ s.out = "none"
              /\ sess' = [sess EXCEPT ![e] = HandleBdxMessage(s, m, ok)]
              /\ clean' = (clean /\ (m.type = "Init" => s.state = "AwaitingInit"))
           \/ /\ ForSession(s, m) /\ m.type # "Status" /\ s.out # "none"
              /\ clean' = FALSE
              /\ UNCHANGED sess
        /\ UNCHANGED <<plan, transfers, written, got>>

\* timeoutMs have passed since mTimeoutStartTimeMs.
Expire(e) ==
    /\ ~sess[e].expired /\ sess[e].state \in Running
    /\ sess' = [sess EXCEPT ![e].expired = TRUE]
    /\ UNCHANGED <<plan, net, transfers, written, got, clean>>

\* The exchange has given a message up.
Lose(e) ==
    /\ plan.lossy /\ net[e] # <<>>
    /\ net' = [net EXCEPT ![e] = Tail(@)]
    /\ clean' = FALSE
    /\ UNCHANGED <<plan, sess, transfers, written, got>>

-----------------------------------------------------------------------------
Init ==
    /\ plan \in Plans
    /\ \E ri \in Role, rr \in Role, oi \in Offers, or \in Supports,
          mode \in Uninitialized :
         /\ sess = [e \in End |-> IF e = "initiator" THEN NewSession(ri, oi, mode)
                                                     ELSE NewSession(rr, or, mode)]
         /\ clean = (ri # rr /\ oi \cap or # {})
    /\ net = [e \in End |-> <<>>]
    /\ transfers = 0
    /\ written = [t \in Transfer |-> [blocks |-> 0, bytes |-> 0]]
    /\ got = [t \in Transfer |-> <<>>]

Buffers == IF plan.shortage THEN BOOLEAN ELSE {TRUE}

Answer(e) == PrepareBlockQuery(e) \/ PrepareBlockAck(e) \/ PrepareBlock(e) \/ AcceptTransfer(e)
Receive(e) == \E ok \in Buffers : HandleMessageReceived(e, ok)
Poll(e) == PollTimeout(e) \/ PollOutput(e)

Next ==
    \E e \in End :
        \/ StartTransfer(e) \/ WaitForTransfer(e) \/ Reset(e)
        \/ Answer(e) \/ Receive(e) \/ Poll(e) \/ Expire(e) \/ Lose(e)
        \/ \E ok \in Buffers : AbortTransfer(e, ok)

SafetySpec == Init /\ [][Next]_vars

\* Callers poll, act on what they polled and pass on what arrives; time goes on.
Fairness ==
    \A e \in End :
        WF_vars(Answer(e)) /\ WF_vars(Receive(e)) /\ WF_vars(Poll(e)) /\ WF_vars(Expire(e))

Spec == SafetySpec /\ Fairness

-----------------------------------------------------------------------------
(* Properties.                                                             *)

\* Every member has its type; in particular block counters wrap.
TypeOK ==
    /\ plan \in Plans
    /\ sess \in [End -> Session]
    /\ \A e \in End : \A i \in DOMAIN net[e] : net[e][i] \in Message
    /\ transfers \in Transfer \cup {0}
    /\ DOMAIN written = Transfer /\ DOMAIN got = Transfer
    /\ clean \in BOOLEAN

\* The receiver's caller is given the blocks of a transfer in the order in which
\* they were prepared, each once, none skipped and none of another transfer,
\* whatever is lost, timed out, aborted or started anew (HandleBlock,
\* PollOutput).
BlocksInOrder ==
    \A t \in Transfer :
        /\ Len(got[t]) <= written[t].blocks
        /\ \A i \in DOMAIN got[t] : got[t][i] = <<t, i>>

\* When the sender's session is done, the receiver's caller has every block, and
\* the receiver's session of that transfer is done too (PrepareBlockAck,
\* HandleBlockAckEOF): the sender never takes a failed transfer for a success.
DoneMeansReceived ==
    \A e \in End :
        LET s == sess[e]
            p == sess[Peer(e)]
        IN  s.state = "Done" /\ s.role = "sender" =>
                /\ Len(got[s.transfer]) = written[s.transfer].blocks
                /\ p.transfer = s.transfer => p.state = "Done"

\* The sessions never fail by themselves: an error needs a message that was
\* lost or handed over before the last output was polled, a timeout, an abort,
\* callers that break the terms of the transfer, or ends without a common
\* control mode. Block counters that wrap and sessions used again after Reset
\* are no reasons to fail.
NoSpuriousError == clean => \A e \in End : sess[e].state # "Error"

\* A transfer that was requested or begun comes to an end at either end, by
\* completion, by a status report or by the timeout of PollOutput.
TransferEnds == \A e \in End : sess[e].state \in Running ~> sess[e].state \in Finished
=============================================================================

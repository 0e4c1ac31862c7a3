-------------------------------- MODULE Btp --------------------------------
(***************************************************************************)
(* CHIP over BLE: two BLEEndPoints, one in the central role and one in the *)
(* peripheral role, that exchange messages as BTP fragments over GATT.     *)
(* Models BLEEndPoint.cpp, the fragmenter and reassembler of BtpEngine.cpp *)
(* and the BleLayer callbacks that feed them.                              *)
(*                                                                         *)
(* An end point is a record; a handler is an operator from records to      *)
(* records, composed as the code composes its calls.  A handler that fails *)
(* leaves its error in "err" and Settle closes the end point, as the exit  *)
(* label of every handler does.  Fragments travel in the sender's "out"    *)
(* queue: GATT delivers them reliably and in order, while the confirmation *)
(* of a send is a separate event that either side may see first.           *)
(*                                                                         *)
(* Sequence numbers and windows are SequenceNumber_t, a uint8_t; SeqMod    *)
(* stands for its 256 values.                                              *)
(***************************************************************************)
EXTENDS Integers, Sequences

CONSTANTS
    SeqMod,       \* number of values of SequenceNumber_t
    Window,       \* BLE_MAX_RECEIVE_WINDOW_SIZE
    Sizes,        \* sizes of the messages of each role, in fragments
    MaxMessages,  \* bound: messages the application of each role sends
    GattFaults,   \* may the platform refuse to start a GATT operation?
    Closers       \* roles whose application may close the connection

ASSUME WindowAssumption == Window \in Nat /\ Window >= 3  \* BleConfig.h
ASSUME SeqModAssumption == SeqMod \in Nat /\ SeqMod > Window + 1
ASSUME GattFaultsAssumption == GattFaults \in BOOLEAN

VARIABLES
    ep,      \* the two end points
    sent,    \* history: messages passed to Send by each application
    got      \* history: messages passed up to each application

vars == <<ep, sent, got>>

Roles == {"central", "peripheral"}
ASSUME MaxMessagesAssumption == MaxMessages \in [Roles -> Nat]
ASSUME SizesAssumption == Sizes \in [Roles -> SUBSET (Nat \ {0})]
ASSUME ClosersAssumption == Closers \subseteq Roles

Peer(r) == IF r = "central" THEN "peripheral" ELSE "central"

\* BLE_CONFIG_IMMEDIATE_ACK_WINDOW_THRESHOLD
ImmediateAckThreshold == 1
\* BTP_WINDOW_NO_ACK_SEND_THRESHOLD
NoAckSendThreshold == 1

NoAck == -1
NoMsg == [id |-> 0, size |-> 0]
SeqNums == 0 .. SeqMod - 1
Message == [id : Nat, size : Nat]

\* What travels over GATT: the handshake, and fragments.  A fragment with no
\* message is a stand-alone acknowledgment.
CapsRequest  == [kind |-> "caps_request"]
CapsResponse(ok) == [kind |-> "caps_response", ok |-> ok]
Subscribe    == [kind |-> "subscribe"]
Item ==
    {CapsRequest, Subscribe}
    \cup [kind : {"caps_response"}, ok : BOOLEAN]
    \cup [kind : {"fragment"}, seq : SeqNums, ack : SeqNums \cup {NoAck},
          msg : Message, part : Nat]
Fragment(seq, ack, msg, part) ==
    [kind |-> "fragment", seq |-> seq, ack |-> ack, msg |-> msg, part |-> part]

\* BLEEndPoint::Init and BtpEngine::Init: the peripheral expects the
\* acknowledgment of its handshake indication, which has sequence number 0.
InitEndPoint(r) ==
    [ state     |-> "Ready",
      queue     |-> <<>>,            \* mSendQueue
      tx        |-> "Idle",          \* mTxState
      msg       |-> NoMsg,           \* mTxBuf
      part      |-> 0,               \* fragments of mTxBuf already sent
      txNext    |-> IF r = "peripheral" THEN 1 ELSE 0,
      txOld     |-> 0,
      txNew     |-> 0,
      expecting |-> r = "peripheral",
      rx        |-> <<>>,            \* mRxBuf
      rxNext    |-> IF r = "peripheral" THEN 0 ELSE 1,
      rxOld     |-> 0,
      rxNew     |-> 0,
      lwin      |-> 0,               \* mLocalReceiveWindowSize
      rwin      |-> 0,               \* mRemoteReceiveWindowSize
      gatt      |-> FALSE,           \* kGattOperationInFlight
      confRcvd  |-> FALSE,           \* kCapabilitiesConfReceived
      sub       |-> "none",          \* progress of the central's subscription
      ackFlight |-> FALSE,           \* kStandAloneAckInFlight
      ackToSend |-> FALSE,           \* mAckToSend is not null
      sendAck   |-> FALSE,           \* kSendAckTimerRunning
      ackRcv    |-> FALSE,           \* kAckReceivedTimerRunning
      hsTimer   |-> FALSE,           \* connect / receive-connection timer
      unsub     |-> FALSE,           \* kUnsubscribeTimerRunning
      out       |-> <<>>,            \* GATT, towards the peer
      err       |-> "none" ]

\* Errors that one end point only makes of what the other sent or of its own
\* bookkeeping; the others come from time-outs, the platform or the peer's close.
ProtocolErrors == {"invalid_ack", "invalid_sequence", "invalid_flags", "missing_data",
                   "incorrect_state", "nothing_to_ack", "used_after_free"}

IsConnected(e) == e.state \in {"Connected", "Closing"}

-----------------------------------------------------------------------------
(* BtpEngine *)

\* Mutant: sequence numbers do not wrap.
IncSeqNumUnbounded(n) == n + 1

IncSeqNum(n) == (n + 1) % SeqMod

HasUnackedData(e) == e.rxOld # e.rxNext

IsValidAck(e, ack) ==
    /\ e.expecting
    /\ IF e.txNew >= e.txOld
       THEN ack <= e.txNew /\ ack >= e.txOld
       ELSE ack <= e.txNew \/ ack >= e.txOld

HandleAckReceived(e, ack) ==
    IF e.txNew = ack
    THEN [e EXCEPT !.txOld = ack, !.expecting = FALSE]
    ELSE [e EXCEPT !.txOld = IncSeqNum(ack)]

GetAndIncrementNextTxSeqNum(e) ==
    [e EXCEPT !.expecting = TRUE,
              !.txOld     = IF e.expecting THEN @ ELSE e.txNext,
              !.txNew     = e.txNext,
              !.txNext    = IncSeqNum(@)]

GetAndRecordRxAckSeqNum(e) ==
    [e EXCEPT !.rxNew = e.rxNext, !.rxOld = e.rxNext]

Fail(e, why) == [e EXCEPT !.err = why]

\* The reassembler: the acknowledgment is processed before the sequence
\* number is checked, and the message flags last.
HandleCharacteristicReceived(e, f) ==
    LET a == IF f.ack = NoAck THEN e ELSE HandleAckReceived(e, f.ack)
        b == [a EXCEPT !.rxNew = f.seq, !.rxNext = IncSeqNum(@)]
        c == [b EXCEPT !.rx = Append(@, <<f.msg.id, f.part>>)]
    IN CASE f.ack # NoAck /\ ~IsValidAck(e, f.ack) -> Fail(e, "invalid_ack")
         [] OTHER ->
       CASE f.seq # a.rxNext -> Fail(a, "invalid_sequence")
         [] f.seq = a.rxNext /\ f.msg = NoMsg -> b
         [] OTHER ->
       CASE (b.rx = <<>>) # (f.part = 1) -> Fail(b, "invalid_flags")
         [] f.part = f.msg.size /\ Len(c.rx) # f.msg.size -> Fail(c, "missing_data")
         [] OTHER -> c

-----------------------------------------------------------------------------
(* Closing *)

\* Free releases buffers, timers and the BLE connection, with what is still
\* under way on it.  The counters of a closed end point are not read again.
Free(e) == [InitEndPoint("central") EXCEPT
              !.state = "Closed", !.err = IF e.err \in ProtocolErrors THEN e.err ELSE "closed"]

\* The central unsubscribes and keeps the end point until that completes; the
\* peripheral, or a central whose connection is gone, is freed at once.
FinalizeClose(r, e, why) ==
    LET freed == Free(Fail(e, why))
    IN IF r = "central" /\ e.sub # "none" /\ why # "disconnected"
       THEN [freed EXCEPT !.unsub = TRUE, !.gatt = TRUE, !.rx = e.rx, !.out = e.out]
       ELSE freed

DoClose(r, e, abort, why) ==
    CASE e.state = "Closed" \/ (e.state = "Closing" /\ ~abort) -> e
      [] OTHER ->
         LET t == [e EXCEPT !.hsTimer = FALSE]
         IN IF e.tx = "Idle" \/ abort
            THEN FinalizeClose(r, t, why)
            ELSE [t EXCEPT !.state = "Closing"]

\* The exit label of the handlers.
Settle(r, e) == IF e.err = "none" THEN e ELSE DoClose(r, e, TRUE, e.err)

-----------------------------------------------------------------------------
(* Sending *)

\* SendCharacteristic, then StartAckReceivedTimer; ok is what the platform
\* answers to SendWriteRequest or SendIndication.
SendCharacteristic(e, f, ok) ==
    IF ok
    THEN [e EXCEPT !.gatt = TRUE, !.rwin = (@ - 1) % SeqMod, !.ackRcv = TRUE,
                   !.out = Append(@, f)]
    ELSE Fail([e EXCEPT !.gatt = TRUE], "gatt_failed")

\* Mutant: a stand-alone ack has no sequence number of its own.
DoSendStandAloneAckUnnumbered(e, ok) ==
    LET s == SendCharacteristic(GetAndRecordRxAckSeqNum(e),
                                Fragment(e.txNext, e.rxNew, NoMsg, 0), ok)
    IN IF ok THEN [s EXCEPT !.lwin = Window, !.ackFlight = TRUE] ELSE s

\* EncodeStandAloneAck acknowledges the newest fragment received.  The
\* send-ack timer is left as it is.
DoSendStandAloneAck(e, ok) ==
    LET t == GetAndIncrementNextTxSeqNum(GetAndRecordRxAckSeqNum(e))
        s == SendCharacteristic(t, Fragment(e.txNext, e.rxNew, NoMsg, 0), ok)
    IN IF ok THEN [s EXCEPT !.lwin = Window, !.ackFlight = TRUE] ELSE s

\* PrepareNextFragment and HandleCharacteristicSend, as called by
\* SendNextMessage and ContinueMessageSend: the next fragment of e.msg, with an
\* acknowledgment on it exactly if the send-ack timer is running.
SendFragment(e, ok) ==
    LET a == IF e.sendAck THEN [GetAndRecordRxAckSeqNum(e) EXCEPT !.lwin = Window] ELSE e
        t == [GetAndIncrementNextTxSeqNum(a) EXCEPT
                !.part = @ + 1,
                !.tx   = IF e.part + 1 = e.msg.size THEN "Complete" ELSE "InProgress"]
        f == Fragment(e.txNext, IF e.sendAck THEN e.rxNew ELSE NoAck, e.msg, e.part + 1)
        s == SendCharacteristic(t, f, ok)
    IN CASE e.sendAck /\ ~HasUnackedData(e) -> Fail([e EXCEPT !.lwin = Window], "nothing_to_ack")
         [] OTHER -> IF ok THEN [s EXCEPT !.sendAck = FALSE] ELSE s

\* TakeTxPacket
TakeTxPacket(e) == [e EXCEPT !.tx = "Idle", !.msg = NoMsg, !.part = 0]

\* Mutant: the newest message of the queue is sent first.
PopNewestMessage(e) ==
    [e EXCEPT !.queue = SubSeq(@, 1, Len(@) - 1), !.msg = e.queue[Len(e.queue)], !.part = 0]

PopMessage(e) == [e EXCEPT !.queue = Tail(@), !.msg = Head(e.queue), !.part = 0]

\* Mutant: no slot is kept for an acknowledgment.
NoSendWindowClosed(e) == e.rwin = 0 \/ e.gatt

NoSend(e) ==
    \/ e.rwin <= NoAckSendThreshold /\ ~e.sendAck /\ ~e.ackToSend
    \/ e.rwin = 0
    \/ e.gatt

DriveSending(r, e, ok) ==
    CASE NoSend(e) -> e
      [] ~NoSend(e) /\ e.ackToSend -> DoSendStandAloneAck(e, ok)
      [] ~NoSend(e) /\ ~e.ackToSend /\ e.tx = "InProgress" -> SendFragment(e, ok)
      [] OTHER ->
         LET t == TakeTxPacket(e)
         IN CASE e.queue # <<>> -> SendFragment(PopMessage(t), ok)
              [] e.queue = <<>> /\ e.tx = "Complete" /\ e.state = "Closing" /\ ~e.expecting ->
                   FinalizeClose(r, t, "app_closed")
              [] OTHER -> t

DriveStandAloneAck(r, e, ok) ==
    DriveSending(r, [e EXCEPT !.sendAck = FALSE, !.ackToSend = TRUE], ok)

-----------------------------------------------------------------------------
(* Receiving *)

\* AdjustRemoteReceiveWindow, with UINT8_MAX (not UINT8_MAX + 1) as the offset
\* of a wrapped sequence number.
AdjustRemoteReceiveWindow(ack, newest) ==
    IF ack + Window > SeqMod - 1 /\ newest < ack
    THEN (ack + Window - (newest + SeqMod - 1)) % SeqMod
    ELSE (ack + Window - newest) % SeqMod

\* Mutant: any ack stops the ack-received timer.
RespondToAckStopTimer(r, e, ack, ok) ==
    DriveSending(r, [e EXCEPT !.ackRcv = FALSE,
                              !.rwin = AdjustRemoteReceiveWindow(ack, e.txNew)], ok)

\* Receive, after the engine accepted a fragment that carries an ack.
RespondToAck(r, e, ack, ok) ==
    LET t == [e EXCEPT !.ackRcv = e.expecting,
                       !.rwin   = AdjustRemoteReceiveWindow(ack, e.txNew)]
    IN IF e.expecting /\ ~e.ackRcv THEN Fail(e, "incorrect_state")  \* RestartAckReceivedTimer
       ELSE DriveSending(r, t, ok)

\* Does the ack end a graceful close?  Then Receive does nothing more.
LastAckOfClose(e, f) ==
    f.ack # NoAck /\ ~e.expecting /\ e.state = "Closing" /\ e.queue = <<>> /\ e.tx = "Idle"

\* The end of Receive: see to it that the fragment is acknowledged.  It runs
\* even if DriveSending has just closed the end point: on a central that waits
\* for its unsubscription it starts the send-ack timer, on a peripheral it
\* uses the freed object.
AcknowledgeFragment(r, e, ok) ==
    CASE e.state = "Closed" -> IF e.unsub THEN [e EXCEPT !.sendAck = TRUE]
                               ELSE Fail(e, "used_after_free")
      [] e.state # "Closed" /\ ~HasUnackedData(e) -> e
      [] OTHER ->
         IF e.lwin <= ImmediateAckThreshold /\ ~e.gatt
         THEN DriveStandAloneAck(r, e, ok)
         ELSE [e EXCEPT !.sendAck = TRUE]

ReceiveFragment(r, e, f, ok) ==
    LET a == HandleCharacteristicReceived(e, f)
        b == [a EXCEPT !.lwin = (@ - 1) % SeqMod]
        c == IF f.ack = NoAck THEN b ELSE RespondToAck(r, b, f.ack, ok)
        d == AcknowledgeFragment(r, c, ok)
    IN CASE a.err # "none" -> a
         [] a.err = "none" /\ LastAckOfClose(b, f) ->
              FinalizeClose(r, [b EXCEPT !.ackRcv = FALSE], "app_closed")
         [] OTHER -> IF c.err # "none" /\ c.state # "Closed" THEN c ELSE d

\* Has the fragment completed a message, and is it passed up?
Reassembled(e, f) == e.rx # <<>> /\ f.msg # NoMsg /\ f.part = f.msg.size
Whole(m) == [i \in 1..m.size |-> <<m.id, i>>]

-----------------------------------------------------------------------------
(* Actions *)

Init ==
    /\ ep = [r \in Roles |-> InitEndPoint(r)]
    /\ sent = [r \in Roles |-> <<>>]
    /\ got = [r \in Roles |-> <<>>]

Outcomes == IF GattFaults THEN BOOLEAN ELSE {TRUE}

Update(r, e) == ep' = [ep EXCEPT ![r] = Settle(r, e)]

\* Take the next item the peer sent, and handle it.
UpdateWithInput(r, e) ==
    ep' = [ep EXCEPT ![r] = Settle(r, e), ![Peer(r)].out = IF @ = <<>> THEN @ ELSE Tail(@)]

Incoming(r, kind) ==
    ep[Peer(r)].out # <<>> /\ Head(ep[Peer(r)].out).kind = kind

\* The central starts the connection with a capabilities request.
StartConnect ==
    LET e == ep["central"]
    IN /\ e.state = "Ready"
       /\ \E ok \in Outcomes :
            LET t == [e EXCEPT !.state = "Connecting", !.hsTimer = TRUE, !.gatt = TRUE]
            IN Update("central",
                      IF ok THEN [t EXCEPT !.out = Append(@, CapsRequest), !.queue = <<NoMsg>>]
                      ELSE Fail(t, "gatt_failed"))
       /\ UNCHANGED <<sent, got>>

\* The peripheral receives it, and keeps its answer for the subscription.
\* compatible: is there a protocol version both sides support?
HandleCapabilitiesRequestReceived ==
    LET e == ep["peripheral"]
    IN /\ Incoming("peripheral", "caps_request")
       /\ \E compatible \in BOOLEAN :
            UpdateWithInput("peripheral",
                IF e.state # "Ready" THEN Fail(e, "incorrect_state")
                ELSE [e EXCEPT !.state = IF compatible THEN "Connecting" ELSE "Aborting",
                               !.lwin = Window, !.rwin = Window,
                               !.queue = <<NoMsg>>, !.hsTimer = TRUE])
       /\ UNCHANGED <<sent, got>>

\* The peripheral sends its capabilities response when the central subscribes.
HandleSubscribeReceived ==
    LET e == ep["peripheral"]
    IN /\ Incoming("peripheral", "subscribe")
       /\ \E ok \in Outcomes :
            UpdateWithInput("peripheral",
                CASE e.state = "Closed" -> e
                  [] e.state \notin {"Connecting", "Aborting", "Closed"} -> Fail(e, "incorrect_state")
                  [] OTHER ->
                     LET s == SendCharacteristic(e, CapsResponse(e.state = "Connecting"), ok)
                     IN IF ok /\ e.state = "Connecting"
                        THEN [s EXCEPT !.state = "Connected", !.hsTimer = FALSE]
                        ELSE s)
       /\ UNCHANGED <<sent, got>>

\* The central is connected: the handshake indication counts as fragment 0.
HandleCapabilitiesResponseReceived ==
    LET e == ep["central"]
    IN /\ Incoming("central", "caps_response")
       /\ UpdateWithInput("central",
              CASE e.state = "Closed" -> e
                [] e.state = "Connecting" /\ Head(ep["peripheral"].out).ok ->
                     [e EXCEPT !.state = "Connected", !.hsTimer = FALSE,
                               !.lwin = Window - 1, !.rwin = Window, !.sendAck = TRUE]
                [] OTHER -> Fail(e, "incompatible_versions"))
       /\ UNCHANGED <<sent, got>>

HandleSubscribeComplete ==
    LET e == ep["central"]
    IN /\ e.sub = "begun" /\ e.state # "Closed"
       /\ \E ok \in Outcomes :
            Update("central",
                   DriveSending("central", [e EXCEPT !.sub = "done", !.gatt = FALSE], ok))
       /\ UNCHANGED <<sent, got>>

\* The confirmation of the handshake write or indication.
HandleHandshakeConfirmationReceived(r) ==
    LET e == [ep[r] EXCEPT !.gatt = FALSE, !.confRcvd = TRUE, !.queue = Tail(@)]
    IN /\ ep[r].gatt /\ ~ep[r].confRcvd /\ ep[r].state # "Closed"
       /\ \E ok \in Outcomes :
            Update(r,
              IF r = "central"
              THEN IF ok THEN [e EXCEPT !.sub = "begun", !.gatt = TRUE,
                                        !.out = Append(@, Subscribe)]
                   ELSE Fail(e, "gatt_failed")
              ELSE CASE e.state = "Aborting" -> Fail(e, "incompatible_versions")
                     [] e.state # "Aborting" /\ e.lwin <= ImmediateAckThreshold /\ e.queue = <<>> ->
                          DriveStandAloneAck(r, e, ok)
                     [] OTHER -> DriveSending(r, e, ok))
       /\ UNCHANGED <<sent, got>>

\* Mutant: the confirmation of a fragment does not drive sending.
FragmentConfirmationIgnored(r) ==
    /\ ep[r].gatt /\ ep[r].confRcvd /\ ep[r].sub # "begun" /\ IsConnected(ep[r])
    /\ ep' = [ep EXCEPT ![r].gatt = FALSE, ![r].ackToSend = @ /\ ~ep[r].ackFlight,
                        ![r].ackFlight = FALSE]
    /\ UNCHANGED <<sent, got>>

\* The confirmation of a fragment.
HandleFragmentConfirmationReceived(r) ==
    LET e == [ep[r] EXCEPT !.gatt = FALSE,
                           !.ackToSend = @ /\ ~ep[r].ackFlight, !.ackFlight = FALSE]
    IN /\ ep[r].gatt /\ ep[r].confRcvd /\ ep[r].sub # "begun" /\ IsConnected(ep[r])
       /\ \E ok \in Outcomes :
            Update(r, IF e.lwin <= ImmediateAckThreshold /\ e.queue = <<>> /\ e.tx # "InProgress"
                      THEN DriveStandAloneAck(r, e, ok)
                      ELSE DriveSending(r, e, ok))
       /\ UNCHANGED <<sent, got>>

\* The application sends a message of n fragments.
Send(r, n) ==
    LET m == [id |-> Len(sent[r]) + 1, size |-> n]
        e == [ep[r] EXCEPT !.queue = Append(@, m)]
    IN /\ ep[r].state = "Connected"
       /\ Len(sent[r]) < MaxMessages[r]
       /\ \E ok \in Outcomes : Update(r, DriveSending(r, e, ok))
       /\ sent' = [sent EXCEPT ![r] = Append(@, m)]
       /\ UNCHANGED got

\* The peer's next fragment arrives.
Receive(r) ==
    LET e == ep[r]
        f == Head(ep[Peer(r)].out)
    IN /\ Incoming(r, "fragment")
       /\ \E ok \in Outcomes :
            LET t == IF IsConnected(e) THEN ReceiveFragment(r, e, f, ok) ELSE e
                whole == /\ IsConnected(e) /\ Reassembled(t, f)
                         /\ ~LastAckOfClose(HandleCharacteristicReceived(e, f), f)
                up == whole /\ (t.err = "none" \/ t.state = "Closed") /\ t.state # "Closing"
            IN /\ UpdateWithInput(r, IF whole THEN [t EXCEPT !.rx = <<>>] ELSE t)
               /\ got' = IF up THEN [got EXCEPT ![r] = Append(@, [id |-> f.msg.id,
                                                                 ok |-> t.rx = Whole(f.msg)])]
                         ELSE got
       /\ UNCHANGED sent

\* BLEEndPoint::Close, called by the application.
Close(r) ==
    /\ r \in Closers
    /\ ep[r].state = "Connected"
    /\ ep' = [ep EXCEPT ![r] = DoClose(r, @, FALSE, "app_closed")]
    /\ UNCHANGED <<sent, got>>

HandleSendAckTimeout(r) ==
    LET e == [ep[r] EXCEPT !.sendAck = FALSE]
    IN /\ ep[r].sendAck /\ ep[r].state # "Closed"
       /\ \E ok \in Outcomes :
            Update(r, IF e.ackFlight THEN e ELSE DriveStandAloneAck(r, e, ok))
       /\ UNCHANGED <<sent, got>>

HandleAckReceivedTimeout(r) ==
    /\ ep[r].ackRcv
    /\ Update(r, Fail([ep[r] EXCEPT !.ackRcv = FALSE], "ack_timeout"))
    /\ UNCHANGED <<sent, got>>

\* HandleConnectTimeout and HandleReceiveConnectionTimeout
HandleConnectTimeout(r) ==
    /\ ep[r].hsTimer
    /\ Update(r, Fail([ep[r] EXCEPT !.hsTimer = FALSE], "connect_timeout"))
    /\ UNCHANGED <<sent, got>>

\* HandleUnsubscribeTimeout and HandleUnsubscribeComplete free the end point.
HandleUnsubscribeComplete ==
    /\ ep["central"].unsub
    /\ ep' = [ep EXCEPT !["central"] = Free(@)]
    /\ UNCHANGED <<sent, got>>

\* The peer is gone: BleLayer::HandleUnsubscribeReceived on the peripheral,
\* HandleConnectionError on the central.
PeerClosed(r) ==
    /\ ep[Peer(r)].state = "Closed"
    /\ ep[r].state \notin {"Ready", "Closed"}
    /\ ep' = [ep EXCEPT ![r] = DoClose(r, @, TRUE, "disconnected")]
    /\ UNCHANGED <<sent, got>>

Deliver(r) ==
    \/ Receive(r)
    \/ r = "peripheral" /\ (HandleCapabilitiesRequestReceived \/ HandleSubscribeReceived)
    \/ r = "central" /\ HandleCapabilitiesResponseReceived

Confirm(r) ==
    \/ HandleHandshakeConfirmationReceived(r)
    \/ HandleFragmentConfirmationReceived(r)
    \/ r = "central" /\ HandleSubscribeComplete

\* What the platform and the timers do; the rest is up to the applications.
SystemStep ==
    \/ HandleUnsubscribeComplete
    \/ \E r \in Roles :
         \/ HandleConnectTimeout(r)
         \/ HandleAckReceivedTimeout(r)
         \/ PeerClosed(r)
         \/ HandleSendAckTimeout(r)
         \/ Confirm(r)
         \/ Deliver(r)

Next ==
    \/ StartConnect
    \/ SystemStep
    \/ \E r \in Roles :
         \/ \E n \in Sizes[r] : Send(r, n)
         \/ Close(r)

\* As long as a fragment, a confirmation or a timer is pending, one of them is
\* taken.  No particular timer is assumed to fire: the ack-received timer may
\* be restarted for ever.
Fairness == WF_vars(SystemStep)

SafetySpec == Init /\ [][Next]_vars
Spec == SafetySpec /\ Fairness
-----------------------------------------------------------------------------
(* Properties *)

State == {"Ready", "Connecting", "Aborting", "Connected", "Closing", "Closed"}
TxState == {"Idle", "InProgress", "Complete"}
Subscription == {"none", "begun", "done"}
Piece == Nat \X Nat   \* a message and a part of it

EndPointWith(errors) ==
    [ state : State, queue : Seq(Message), tx : TxState, msg : Message, part : Nat,
      txNext : SeqNums, txOld : SeqNums, txNew : SeqNums, expecting : BOOLEAN,
      rx : Seq(Piece), rxNext : SeqNums, rxOld : SeqNums, rxNew : SeqNums,
      lwin : SeqNums, rwin : SeqNums,
      gatt : BOOLEAN, confRcvd : BOOLEAN, sub : Subscription,
      ackFlight : BOOLEAN, ackToSend : BOOLEAN, sendAck : BOOLEAN, ackRcv : BOOLEAN,
      hsTimer : BOOLEAN, unsub : BOOLEAN, out : Seq(Item), err : errors ]
EndPoint == EndPointWith({"none", "closed"} \cup ProtocolErrors)

\* Between two handlers the end points have the shape BLEEndPoint.h declares,
\* and an end point with an error has been closed.
TypeOK ==
    /\ ep \in [Roles -> EndPoint]
    /\ \A r \in Roles : (ep[r].state = "Closed") = (ep[r].err # "none")

\* HandleCharacteristicReceived never refuses a fragment of a correct peer for
\* its sequence number, its flags or missing data, and RestartAckReceivedTimer
\* always finds its timer running: whatever the order of fragments,
\* confirmations and timers, the two engines count alike.
EnginesAgree ==
    \A r \in Roles : ep[r].err \notin {"invalid_sequence", "invalid_flags",
                                       "missing_data", "incorrect_state"}

\* "simultaneous data transmissions could fill both receiver's windows, leaving
\* no room for the acks required to re-open them" (BleConfig.h:155): the last
\* slot is kept for an acknowledgment, so the two senders never both wait for
\* the other with nothing under way.
NotWedged ==
    ~ \A r \in Roles : IsConnected(ep[r]) /\ ep[r].rwin = 0 /\ ep[r].out = <<>>

\* An end point that waits for an acknowledgment has the timer running that
\* closes the connection if it never comes.
AckExpectedHasTimer ==
    \A r \in Roles : IsConnected(ep[r]) /\ ep[r].expecting => ep[r].ackRcv

\* Whole messages come out in order, each once: the connection implements the
\* pipe.  A message put together from the wrong fragments has no counterpart.
Pipe == INSTANCE MessagePipe WITH
    Ends <- Roles, Other <- Peer, in <- sent,
    out <- [r \in Roles |-> [i \in 1..Len(got[r]) |->
                IF got[r][i].ok THEN sent[Peer(r)][got[r][i].id] ELSE NoMsg]]

ImplementsPipe == Pipe!Spec

\* A message passed to Send reaches the other application unless the connection
\* is closed or being closed: window exhaustion, crossing acknowledgments and
\* skipped send-ack timers stall nothing for ever.
DeliveredOrClosed ==
    \A r \in Roles : \A k \in 1..MaxMessages[r] :
        Len(sent[r]) >= k ~>
            \/ Len(got[Peer(r)]) >= k
            \/ \E q \in Roles : ep[q].state \in {"Closing", "Closed"}

\* "Acknowledge most recently received sequence number" (BtpEngine.cpp:212): no
\* end point closes the connection because the other acknowledged what it never
\* received, or because it has itself nothing to acknowledge.
AcksWhatWasReceived ==
    \A r \in Roles : ep[r].err \notin {"invalid_ack", "nothing_to_ack"}
=============================================================================

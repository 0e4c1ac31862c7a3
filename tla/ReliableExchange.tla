-------------------------- MODULE ReliableExchange --------------------------
(***************************************************************************)
(* One exchange between two nodes over UDP: ExchangeManager,               *)
(* ExchangeContext, ExchangeMessageDispatch and ReliableMessageContext on  *)
(* both sides of a network that loses, duplicates and reorders messages.   *)
(*                                                                         *)
(* The secure session's replay filter (SecureReceive) is the set of the    *)
(* counters received: the window is wider than the exchange is long.       *)
(* Standalone acks are messages without a counter here: processing one a   *)
(* second time changes nothing, since a counter is in the retransmission   *)
(* table at most once.  The retransmission timers (ReliableMessageMgr) may *)
(* expire at any time.  A handler is a function from the node's state to   *)
(* the node's state that collects what it sends in out.                    *)
(***************************************************************************)
EXTENDS Naturals, Sequences

CONSTANTS
    Initiator, Responder,
    MaxMsgs,     \* bound on the application messages of a node
    MaxRetrans,  \* CHIP_CONFIG_RMP_DEFAULT_MAX_RETRANS
    Shortage,    \* packet buffers, table entries and contexts may run out
    SendErrors,  \* the transport may refuse a standalone ack
    MaxAckFaults \* bound on the standalone acks a node fails to send

ASSUME ExchangeAssumption ==
    /\ Initiator # Responder
    /\ MaxMsgs \in Nat
    /\ MaxRetrans \in Nat
    /\ Shortage \in BOOLEAN
    /\ SendErrors \in BOOLEAN
    /\ MaxAckFaults \in Nat

VARIABLES
    node,  \* the state of each node
    net    \* everything ever sent: it may arrive never, once or many times

vars == <<node, net>>

Node == {Initiator, Responder}
Peer(n) == IF n = Initiator THEN Responder ELSE Initiator

NoId == 0
Ctr  == 1 .. MaxMsgs

Msg ==
    [from : Node, ctr : Ctr \cup {NoId}, standalone : BOOLEAN, ack : Ctr \cup {NoId}]

NoMsg == [from |-> Initiator, ctr |-> NoId, standalone |-> TRUE, ack |-> NoId]

NodeState ==
    [st       : {"none", "open", "closed", "diedOccupied", "diedAckPending"},
     delegate : BOOLEAN,             \* mDelegate # nullptr
     expects  : BOOLEAN,             \* kFlagResponseExpected, and the response timer
     willSend : BOOLEAN,             \* kFlagWillSendMessage
     ackId    : Ctr \cup {NoId},     \* mPendingPeerAckId if kFlagAckPending
     entry    : Msg,                 \* retainedBuf of the entry in mRetransTable
     count    : 0 .. MaxRetrans,     \* its sendCount
     next     : 1 .. MaxMsgs + 1,    \* the session's local message counter
     seen     : SUBSET Ctr,          \* counters committed by the session
     got      : Seq(Ctr),            \* history: messages given to the delegate
     acked    : SUBSET Ctr,          \* history: own messages acknowledged
     cut      : BOOLEAN,             \* history: a failed ack ended the wait for a response
     faults   : 0 .. MaxAckFaults,   \* bound: standalone acks not sent
     out      : SUBSET Msg]          \* sent by the running handler

TypeOK ==
    /\ node \in [Node -> NodeState]
    /\ \A n \in Node : node[n].out = {}
    /\ net \subseteq Msg

NoContext ==
    [st |-> "none", delegate |-> FALSE, expects |-> FALSE, willSend |-> FALSE,
     ackId |-> NoId, entry |-> NoMsg, count |-> 0,
     next |-> 1, seen |-> {}, got |-> <<>>, acked |-> {},
     cut |-> FALSE, faults |-> 0, out |-> {}]

Init ==
    /\ node = [n \in Node |-> NoContext]
    /\ net = {}

-----------------------------------------------------------------------------
(* The exchange context, as functions on the state s of node n.  how is    *)
(* what becomes of the standalone acks the handler sends: there may be no  *)
(* packet buffer, or the transport refuses it with an error that           *)
(* IsSendErrorNonCritical forgives or with one that it does not.           *)

AckOutcome == {"sent", "noBuffer", "refused", "error"}

AckFails(how) == how \in {"noBuffer", "error"}

CreateObject(s, delegate) == [s EXCEPT !.st = "open", !.delegate = delegate]

\* A refused ack has been taken, and ExchangeContext::SendMessage cancels the
\* response timer of an exchange whose message cannot be sent, of an ack too.
SendStandaloneAckMessage(n, s, how) ==
    CASE how = "sent" ->
            [s EXCEPT !.ackId = NoId,
                      !.out = @ \cup {[from |-> n, ctr |-> NoId,
                                       standalone |-> TRUE, ack |-> s.ackId]}]
      [] how = "noBuffer" -> [s EXCEPT !.faults = IF @ < MaxAckFaults THEN @ + 1 ELSE @]
      [] how \in {"refused", "error"} ->
            [s EXCEPT !.ackId = NoId, !.expects = FALSE, !.cut = @ \/ s.expects,
                      !.faults = IF @ < MaxAckFaults THEN @ + 1 ELSE @]

FlushAcks(n, s, how) ==
    IF s.ackId = NoId THEN s ELSE SendStandaloneAckMessage(n, s, how)

DoClose(n, s, how) ==
    FlushAcks(n, [s EXCEPT !.st = "closed", !.delegate = FALSE,
                           !.expects = FALSE, !.cut = FALSE], how)

ClearRetransTable(s) == [s EXCEPT !.entry = NoMsg, !.count = 0]

AbortContext(n, s, how) == ClearRetransTable(DoClose(n, s, how))

\* Mutant: the context is kept open while its message is not acknowledged.
MessageHandledWhenAcked(n, s, how) ==
    IF s.st = "closed" \/ s.expects \/ s.willSend \/ s.entry # NoMsg
    THEN s ELSE DoClose(n, s, how)

MessageHandled(n, s, how) ==
    IF s.st = "closed" \/ s.expects \/ s.willSend THEN s ELSE DoClose(n, s, how)

\* The last reference is gone: a closed context whose message is no longer in
\* the retransmission table.  The destructor dies if an ack is pending.
Release(s) ==
    IF s.st = "closed" /\ s.entry = NoMsg
    THEN IF s.ackId # NoId
         THEN [s EXCEPT !.st = "diedAckPending"]
         ELSE [s EXCEPT !.st = "none", !.willSend = FALSE]
    ELSE s

\* ExchangeContext::SendMessage of an application message.  AddToRetransTable
\* dies if the context's previous message is still in the table.
SendMessage(n, s, expect, how) ==
    LET m == [from |-> n, ctr |-> s.next, standalone |-> FALSE, ack |-> s.ackId]
    IN  IF s.entry # NoMsg
        THEN [s EXCEPT !.st = "diedOccupied"]
        ELSE MessageHandled(n, [s EXCEPT !.willSend = FALSE,
                                         !.expects = @ \/ expect,
                                         !.ackId = NoId,
                                         !.next = @ + 1,
                                         !.entry = m,
                                         !.count = 0,
                                         !.out = @ \cup {m}], how)

\* Table full, no buffer or no route: the ack it would have carried is gone.
SendMessageFails(s) ==
    [s EXCEPT !.willSend = FALSE, !.expects = FALSE, !.ackId = NoId]

-----------------------------------------------------------------------------
(* Receiving.                                                              *)

\* Mutant: the id of the acknowledgment is not compared.
IsAckOfAnything(s, ack) == s.entry # NoMsg

IsAckOfEntry(s, ack) == s.entry # NoMsg /\ s.entry.ctr = ack

HandleRcvdAck(s, ack) ==
    [ClearRetransTable(s) EXCEPT !.acked = @ \cup {s.entry.ctr}]

\* A duplicate is acknowledged at once and a pending ack for another message
\* is kept; otherwise the pending ack makes room for the new one.
HandleNeedsAck(n, s, ctr, dup, how) ==
    IF dup
    THEN LET sent == SendStandaloneAckMessage(n, [s EXCEPT !.ackId = ctr], how)
         IN  IF s.ackId \in {NoId, ctr} THEN sent ELSE [sent EXCEPT !.ackId = s.ackId]
    ELSE IF s.ackId # NoId /\ AckFails(how)
         THEN SendStandaloneAckMessage(n, s, how)
         ELSE [FlushAcks(n, s, how) EXCEPT !.ackId = ctr]

NeedsAckFails(s, dup, how) == AckFails(how) /\ (dup \/ s.ackId # NoId)

\* What the application does with a message.
Reaction == {"nothing", "willSend", "reply", "request", "abort", "sendFails"}

React(n, s, reaction, how) ==
    CASE reaction = "nothing"   -> s
      [] reaction = "willSend"  -> [s EXCEPT !.willSend = TRUE]
      [] reaction = "reply"     -> SendMessage(n, s, FALSE, how)
      [] reaction = "request"   -> SendMessage(n, s, TRUE, how)
      [] reaction = "abort"     -> AbortContext(n, s, how)
      [] reaction = "sendFails" -> SendMessageFails(s)

Deliver(n, s, m, reaction, how) ==
    LET s1 == [s EXCEPT !.expects = FALSE, !.cut = FALSE]
    IN  IF s.delegate
        THEN React(n, [s1 EXCEPT !.got = Append(@, m.ctr)], reaction, how)
        ELSE s1

\* ExchangeMessageDispatch::OnMessageReceived: an acknowledgment of something
\* that is not in the table is an error, and ends the handling of the message.
BadAck(s, m, dup) == ~dup /\ m.ack # NoId /\ ~IsAckOfEntry(s, m.ack)

HandleMessage(n, s, m, dup, reaction, how) ==
    LET acked    == IF ~dup /\ m.ack # NoId THEN HandleRcvdAck(s, m.ack) ELSE s
        needsAck == ~m.standalone
        noted    == IF needsAck THEN HandleNeedsAck(n, acked, m.ctr, dup, how) ELSE acked
        flushed  == IF noted.delegate THEN noted ELSE FlushAcks(n, noted, how)
        unsent   == noted.ackId # NoId /\ ~noted.delegate /\ AckFails(how)
        handled  == IF BadAck(s, m, dup) THEN s
                    ELSE IF needsAck /\ NeedsAckFails(acked, dup, how) THEN noted
                    ELSE IF unsent \/ m.standalone \/ dup THEN flushed
                    ELSE Deliver(n, flushed, m, reaction, how)
        died     == handled.st \notin {"open", "closed"}
        noChange == (m.standalone \/ dup) /\ handled.delegate
    IN  IF died \/ noChange THEN handled ELSE MessageHandled(n, handled, how)

\* Mutant: no duplicate is noticed.
NeverDuplicate(s, m) == FALSE

\* SecureSessionMgr marks a message whose counter its session has seen.
IsDuplicate(s, m) == m.ctr \in s.seen

\* SecureSessionMgr commits the counter, ExchangeManager::OnMessageReceived
\* finds the exchange or creates one: with the registered handler for a
\* message from an initiator, without a delegate just to send the ack.
OnMessageReceived(n, s, m, reaction, how, room) ==
    LET dup == IsDuplicate(s, m)
        s1  == IF m.standalone THEN s ELSE [s EXCEPT !.seen = @ \cup {m.ctr}]
    IN  CASE s.st # "none" ->
               Release(HandleMessage(n, s1, m, dup, reaction, how))
          [] s.st = "none" /\ (m.standalone \/ ~room) -> s1
          [] s.st = "none" /\ ~m.standalone /\ room ->
               Release(HandleMessage(n, CreateObject(s1, n = Responder /\ ~dup),
                                     m, dup, reaction, how))

-----------------------------------------------------------------------------

Alive(n) == node[n].st \in {"none", "open", "closed"}
MaySend(n) == node[n].next <= MaxMsgs
Available == IF Shortage THEN BOOLEAN ELSE {TRUE}

AckOutcomes(n) ==
    {how \in AckOutcome : /\ how # "sent" => node[n].faults < MaxAckFaults
                          /\ how = "noBuffer" => Shortage
                          /\ how \in {"refused", "error"} => SendErrors}

\* The handler of node n ended in state s: its messages are on the network.
Ends(n, s) ==
    /\ node' = [node EXCEPT ![n] = [s EXCEPT !.out = {}]]
    /\ net' = net \cup s.out

\* The reactions open to the application of node n; it never sees a standalone
\* ack or a duplicate.
Reactions(n, m) ==
    IF m.standalone \/ IsDuplicate(node[n], m)
    THEN {"nothing"}
    ELSE {r \in Reaction : /\ r \in {"willSend", "reply", "request"} => MaySend(n)
                           /\ r = "sendFails" => Shortage}

Receive(n) ==
    /\ Alive(n)
    /\ \E m \in net :
        /\ m.from = Peer(n)
        /\ \E s \in {OnMessageReceived(n, node[n], m, reaction, how, room) :
                        reaction \in Reactions(n, m), how \in AckOutcomes(n), room \in Available} :
            Ends(n, s)

\* ExchangeManager::NewContext and the first message.
Start(expect) ==
    /\ node[Initiator].st = "none"
    /\ node[Initiator].next = 1
    /\ MaySend(Initiator)
    /\ Ends(Initiator,
            Release(SendMessage(Initiator, CreateObject(node[Initiator], TRUE), expect, "sent")))

\* The message promised with WillSendMessage.
AppSend(n, expect, how) ==
    /\ node[n].st = "open"
    /\ node[n].willSend
    /\ MaySend(n)
    /\ Ends(n, Release(SendMessage(n, node[n], expect, how)))

\* Sending it fails, and the application gives the exchange up.
AppSendFails(n, how) ==
    /\ Shortage
    /\ node[n].st = "open"
    /\ node[n].willSend
    /\ Ends(n, Release(AbortContext(n, SendMessageFails(node[n]), how)))

\* Close or Abort on the application's own initiative.
AppClose(n, how) ==
    /\ node[n].st = "open"
    /\ \/ Ends(n, Release(DoClose(n, node[n], how)))
       \/ Ends(n, Release(AbortContext(n, node[n], how)))

\* Mutant: the exchange is not closed after the delegate was told.
NotifyResponseTimeoutOnly(n, how) ==
    /\ node[n].st = "open"
    /\ node[n].expects
    /\ Ends(n, [node[n] EXCEPT !.expects = FALSE])

NotifyResponseTimeout(n, how) ==
    /\ node[n].st = "open"
    /\ node[n].expects
    /\ Ends(n, Release(MessageHandled(n, [node[n] EXCEPT !.expects = FALSE], how)))

\* The ack timer: ReliableMessageMgr::ExecuteActions, first half.
AckTimeout(n, how) ==
    /\ Alive(n)
    /\ node[n].ackId # NoId
    /\ Ends(n, SendStandaloneAckMessage(n, node[n], how))

\* Mutant: retransmissions are not limited.
RetransmitUnlimited(n) ==
    /\ Alive(n)
    /\ node[n].entry # NoMsg
    /\ Ends(n, [node[n] EXCEPT !.count = @ + 1, !.out = {node[n].entry}])

\* Second half; a retransmission puts on the network what it has seen before.
Retransmit(n) ==
    /\ Alive(n)
    /\ node[n].entry # NoMsg
    /\ node[n].count # MaxRetrans
    /\ Ends(n, [node[n] EXCEPT !.count = @ + 1, !.out = {node[n].entry}])

GiveUp(n) ==
    /\ Alive(n)
    /\ node[n].entry # NoMsg
    /\ node[n].count = MaxRetrans \/ Shortage
    /\ Ends(n, Release(ClearRetransTable(node[n])))

Next ==
    \/ \E expect \in BOOLEAN : Start(expect)
    \/ \E n \in Node :
        \/ Receive(n)
        \/ \E expect \in BOOLEAN, how \in AckOutcomes(n) : AppSend(n, expect, how)
        \/ \E how \in AckOutcomes(n) : AppSendFails(n, how)
        \/ \E how \in AckOutcomes(n) : AppClose(n, how)
        \/ \E how \in AckOutcomes(n) : NotifyResponseTimeout(n, how)
        \/ \E how \in AckOutcomes(n) : AckTimeout(n, how)
        \/ Retransmit(n)
        \/ GiveUp(n)

\* The response timer, a system timer of its own, fires, and the application
\* sends what it promised to send.  Nothing is assumed of the retransmission
\* timer, which ReliableMessageMgr::StartTimer may leave stopped.
Fairness ==
    \A n \in Node :
        /\ WF_vars(\E how \in AckOutcomes(n) : NotifyResponseTimeout(n, how))
        /\ WF_vars(\E expect \in BOOLEAN, how \in AckOutcomes(n) : AppSend(n, expect, how))

Spec == Init /\ [][Next]_vars /\ Fairness

-----------------------------------------------------------------------------

(* The application of a node gets the peer's messages at most once and in  *)
(* the order they were sent, although the network may repeat and reorder   *)
(* them and the exchange may be closed and created again in between.       *)
DeliveredInOrder ==
    \A n \in Node : \A i, j \in 1 .. Len(node[n].got) :
        i < j => node[n].got[i] < node[n].got[j]

(* A message taken out of the retransmission table by an acknowledgment    *)
(* has arrived: no stale or repeated ack is taken for that of another      *)
(* message.                                                                *)
AckedHasArrived ==
    \A n \in Node : node[n].acked \subseteq node[Peer(n)].seen

(* Between two events an open exchange waits for a response, with the      *)
(* response timer running, or for a message its application has promised,  *)
(* unless a standalone ack could not be sent, which SendMessage takes for  *)
(* the failure of the request: no other sequence of duplicates, standalone *)
(* acks, failures and replies leaves a context that nothing will close.    *)
NoLeakedExchange ==
    \A n \in Node :
        node[n].st = "open" => /\ node[n].delegate
                               /\ node[n].expects \/ node[n].willSend \/ node[n].cut

(* Every open exchange is closed in the end, with the same exception, by   *)
(* its response timer or the message its application promised, even if     *)
(* nothing arrives and no message is ever retransmitted or given up.  A    *)
(* closed context stays in the pool while its message is in the            *)
(* retransmission table; that it leaves the table is not claimed.          *)
ExchangesEnd ==
    \A n \in Node : node[n].st = "open" ~> node[n].st # "open" \/ node[n].cut

(* "If the context was expecting a response to a previously sent message,  *)
(* this message is implicitly that response": a new message that arrives   *)
(* on an exchange whose delegate waits for a response is given to it.      *)
ResponseIsDelivered ==
    [][\A n \in Node :
        node[n].st = "open" /\ node[n].expects /\ node'[n].seen # node[n].seen
            => node'[n].got # node[n].got]_vars
=============================================================================

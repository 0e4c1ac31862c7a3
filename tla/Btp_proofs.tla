----------------------------- MODULE Btp_proofs -----------------------------
(***************************************************************************)
(* Proofs about Btp, for every window, range of sequence numbers, number   *)
(* and size of messages, with GATT failures and closes at any time: the    *)
(* two engines agree, an expected ack has its timer, and the applications  *)
(* get whole messages in order.                                            *)
(*                                                                         *)
(* The two directions of a connection are treated alike.  A position in a  *)
(* direction is a sequence number, the number of messages that are over    *)
(* and the number of fragments of the next one.  The items under way from  *)
(* r to its peer lead, link by link, from the position the peer's          *)
(* reassembler has reached to the one the fragmenter of r has reached.     *)
(***************************************************************************)
EXTENDS Btp, TLAPS

-----------------------------------------------------------------------------
(* Positions and what is under way between them.                           *)

Position == [seq : SeqNums, done : Nat, part : Nat]

IsFragment(x) == x.kind = "fragment"

\* What item x does to a position: only fragments have numbers, and only those
\* of a message move it on.
Link(a, x, b) ==
    /\ ~IsFragment(x) => b = a
    /\ IsFragment(x) => x.seq = a.seq /\ b.seq = IncSeqNum(a.seq)
    /\ IsFragment(x) /\ x.msg = NoMsg => b.done = a.done /\ b.part = a.part
    /\ IsFragment(x) /\ x.msg # NoMsg =>
          /\ x.msg.id = a.done + 1
          /\ x.part = a.part + 1
          /\ IF x.part = x.msg.size THEN b.done = a.done + 1 /\ b.part = 0
             ELSE b.done = a.done /\ b.part = x.part

Leads(path, a, items, b) ==
    /\ path \in [0 .. Len(items) -> Position]
    /\ path[0] = a
    /\ path[Len(items)] = b
    /\ \A i \in 1 .. Len(items) : Link(path[i - 1], items[i], path[i])

Chain(a, items, b) == \E path \in [0 .. Len(items) -> Position] : Leads(path, a, items, b)

AllFragments(items) == \A i \in 1 .. Len(items) : IsFragment(items[i])

\* A fragment under way belongs to a message that was sent, or to none.
PartOf(x, S) ==
    \/ x.msg = NoMsg
    \/ /\ x.msg.id \in 1 .. Len(S)
       /\ x.msg = S[x.msg.id]
       /\ x.part \in 1 .. x.msg.size

SentOK(S) ==
    /\ S \in Seq(Message)
    /\ \A i \in 1 .. Len(S) : S[i].id = i /\ S[i].size \in Nat \ {0}

-----------------------------------------------------------------------------
(* One end point.                                                          *)

\* Messages of S that the fragmenter has taken from the queue; the handshake
\* message is the first in the queue until it is confirmed.
Popped(e, S) == IF e.confRcvd THEN Len(S) - Len(e.queue) ELSE 0

TxPosition(e, S) ==
    [ seq  |-> e.txNext,
      done |-> IF e.tx = "InProgress" THEN Popped(e, S) - 1 ELSE Popped(e, S),
      part |-> IF e.tx = "InProgress" THEN e.part ELSE 0 ]

\* The send queue holds the last messages of S.
QueueOK(e, S) ==
    /\ e.confRcvd => Len(e.queue) <= Len(S)
    /\ ~e.confRcvd => Len(e.queue) = Len(S) + 1
    /\ \A i \in 1 .. Len(e.queue) :
          e.confRcvd \/ i > 1 => e.queue[i] = S[Len(S) - Len(e.queue) + i]

FragmenterOK(e, S) ==
    IF e.tx = "Idle" THEN e.msg = NoMsg /\ e.part = 0
    ELSE /\ e.confRcvd
         /\ Len(e.queue) < Len(S)
         /\ e.msg = S[Len(S) - Len(e.queue)]
         /\ e.part \in 1 .. e.msg.size
         /\ e.tx = "Complete" <=> e.part = e.msg.size

\* An end point that is connected, or gracefully closing.
Working(r, e, S) ==
    /\ QueueOK(e, S)
    /\ FragmenterOK(e, S)
    /\ ~e.confRcvd => r = "peripheral" /\ e.gatt
    /\ e.expecting => e.ackRcv
    /\ e.state = "Closing" => r \in Closers

\* An end point in its handshake.
Starting(r, e, S) ==
    /\ S = <<>> /\ e.rx = <<>>
    /\ e.tx = "Idle" /\ e.msg = NoMsg /\ e.part = 0
    /\ ~e.sendAck
    /\ r = "central" => /\ e.state = "Connecting" /\ e.rwin = 0 /\ ~e.expecting
                        /\ e.confRcvd <=> e.sub # "none"
                        /\ e.queue = IF e.confRcvd THEN <<>> ELSE <<NoMsg>>
    /\ r = "peripheral" => /\ ~e.confRcvd /\ e.queue = <<NoMsg>>
                           /\ e.state = "Connecting" => ~e.gatt

EndPointOK(r, e, S) ==
    /\ e.state = "Ready" => e = InitEndPoint(r) /\ S = <<>>
    /\ e.state \in {"Connecting", "Aborting"} => Starting(r, e, S)
    /\ IsConnected(e) => Working(r, e, S)
    /\ e.state = "Closed" => ~e.ackRcv /\ ~e.hsTimer
    /\ e.state = "Closed" /\ r = "peripheral" => e.out = <<>>

-----------------------------------------------------------------------------
(* Both end points.                                                        *)

\* What the central has under way during the handshake.
Greetings == {<<CapsRequest>>, <<CapsRequest, Subscribe>>, <<Subscribe>>}

HandshakeOK(c, p) ==
    /\ c.state # "Aborting"
    /\ c.state = "Ready" => p.state = "Ready"
    /\ c.state = "Connecting" => c.out \in Greetings \/ c.out = <<>>
    /\ c.state = "Connecting" /\ ~c.confRcvd => c.out \in {<<>>, <<CapsRequest>>}
    /\ c.state = "Connecting" /\ c.out = <<>> => p.state # "Ready"
    /\ IsConnected(c) => AllFragments(c.out) /\ (IsConnected(p) \/ p.state = "Closed")
    /\ c.out \in Greetings \/ AllFragments(c.out)
    /\ c.out \in {<<CapsRequest>>, <<CapsRequest, Subscribe>>} => p.state = "Ready"
    /\ c.out = <<Subscribe>> => p.state \in {"Connecting", "Aborting", "Closed"}
    /\ c.out \in Greetings => p.out = <<>>
    /\ c.out # <<>> /\ AllFragments(c.out) => IsConnected(p) \/ p.state = "Closed"
    /\ p.state \in {"Ready", "Connecting"} => p.out = <<>>
    /\ p.state = "Aborting" => p.out \in {<<>>, <<CapsResponse(FALSE)>>}
    /\ p.state = "Aborting" /\ p.out # <<>> => c.state \in {"Connecting", "Closed"}
    /\ IsConnected(p) \/ p.out # <<>> => c.state = "Closed" \/ c.confRcvd
    /\ IsConnected(p) => /\ AllFragments(c.out)
                         /\ c.state # "Connecting" => c.state = "Closed" \/ AllFragments(p.out)
                         /\ c.state = "Connecting" => p.out # <<>>
                         /\ p.out # <<>> => /\ AllFragments(Tail(p.out))
                                            /\ p.out[1] = CapsResponse(TRUE) \/ IsFragment(p.out[1])
                         /\ p.out # <<>> /\ c.state = "Connecting" => p.out[1] = CapsResponse(TRUE)

\* An end point e that was given G has reassembled its peer's fragments up to
\* position a.
Reached(e, a, G) ==
    /\ a.seq = e.rxNext
    /\ a.part = Len(e.rx)
    /\ \A i \in 1 .. Len(e.rx) : e.rx[i] = <<a.done + 1, i>>
    /\ Len(G) <= a.done
    /\ e.state # "Closing" => Len(G) = a.done

\* The direction from e, where S was sent, to d, which was given G.
Flow(e, S, d, G) ==
    /\ \A i \in 1 .. Len(e.out) : IsFragment(e.out[i]) => PartOf(e.out[i], S)
    /\ \E a, b \in Position :
          /\ Chain(a, e.out, b)
          /\ d.state # "Closed" => Reached(d, a, G)
          /\ e.state # "Closed" => b = TxPosition(e, S)

\* A central that closes gracefully drops what it reassembles, and yet passes
\* up a message that is completed by the fragment that ends the close.
Exact(r) == r = "peripheral" \/ "central" \notin Closers

Given == [id : Nat, ok : BOOLEAN]

\* Of the messages S of its peer, r was given G, whole and in order.
InOrder(G) == \A i, j \in 1 .. Len(G) : i < j => G[i].id < G[j].id
WholeAndSent(G, S) == \A i \in 1 .. Len(G) : G[i].ok /\ G[i].id \in 1 .. Len(S)
GivenOK(r, e, G, S) ==
    /\ G \in Seq(Given)
    /\ WholeAndSent(G, S)
    /\ InOrder(G)
    /\ e.state # "Closed" \/ Exact(r) => \A i \in 1 .. Len(G) : G[i].id = i

\* Errors that do not tell that the engines disagree.
Harmless(why) == why \notin {"invalid_sequence", "invalid_flags", "missing_data", "incorrect_state"}

RoleOK(r, e, S) ==
    /\ e \in EndPoint
    /\ (e.state = "Closed") = (e.err # "none")
    /\ Harmless(e.err)
    /\ SentOK(S)
    /\ EndPointOK(r, e, S)

Good(E, S, G) ==
    /\ \A r \in Roles : RoleOK(r, E[r], S[r])
    /\ HandshakeOK(E["central"], E["peripheral"])
    /\ \A r \in Roles : Flow(E[r], S[r], E[Peer(r)], G[Peer(r)])
    /\ \A r \in Roles : GivenOK(r, E[r], G[r], S[Peer(r)])

IInvOf(E, S, G) ==
    /\ E \in [Roles -> EndPoint]
    /\ S \in [Roles -> Seq(Message)]
    /\ G \in [Roles -> Seq(Given)]
    /\ Good(E, S, G)

IInv == IInvOf(ep, sent, got)

-----------------------------------------------------------------------------
(* Sequence numbers.                                                       *)

\* Sequence numbers wrap and stay in their range, as SequenceNumber_t does.
LEMMA SeqNumFacts ==
    /\ \A x \in Int : x % SeqMod \in SeqNums
    /\ \A n \in SeqNums : IncSeqNum(n) \in SeqNums
    /\ 0 \in SeqNums /\ 1 \in SeqNums /\ Window \in SeqNums /\ Window - 1 \in SeqNums
    /\ SeqNums \subseteq Nat
<1>1. SeqMod \in Nat /\ SeqMod > 1 /\ Window \in Nat /\ Window < SeqMod /\ Window >= 3
  BY WindowAssumption, SeqModAssumption
<1>2. \A x \in Int : x % SeqMod \in 0 .. SeqMod - 1
  BY <1>1
<1> QED BY <1>1, <1>2 DEF SeqNums, IncSeqNum

\* An end point in the middle of a handler: err may hold any error.
Errors == {"none", "closed", "gatt_failed", "ack_timeout", "connect_timeout",
           "incompatible_versions", "app_closed", "disconnected"} \cup ProtocolErrors
Draft == EndPointWith(Errors)

-----------------------------------------------------------------------------
(* Closing.                                                                *)

\* t is closed, with nothing under way or what e had.
Over(r, e, t) ==
    /\ t \in EndPoint
    /\ t.state = "Closed"
    /\ t.err # "none" /\ Harmless(t.err)
    /\ ~t.ackRcv /\ ~t.hsTimer
    /\ t.out = <<>> \/ (t.out = e.out /\ r = "central")

\* And with nothing reassembled, or what e had.
Ended(r, e, t) ==
    /\ Over(r, e, t)
    /\ t.rx = <<>> \/ (t.rx = e.rx /\ r = "central")

\* A new end point has its type.
LEMMA InitTyped ==
    ASSUME NEW r \in Roles
    PROVE  InitEndPoint(r) \in EndPoint
<1>1. PICK x : x = IF r = "peripheral" THEN 1 ELSE 0
  OBVIOUS
<1>2. PICK y : y = IF r = "peripheral" THEN 0 ELSE 1
  OBVIOUS
<1>3. PICK z : z = (r = "peripheral")
  OBVIOUS
<1>4. x \in SeqNums /\ y \in SeqNums /\ z \in BOOLEAN /\ 0 \in SeqNums
  BY <1>1, <1>2, <1>3, SeqNumFacts
<1> HIDE DEF SeqNums
<1>5. PICK t : t = InitEndPoint(r)
  OBVIOUS
<1>6. t = [ state |-> "Ready", queue |-> <<>>, tx |-> "Idle", msg |-> NoMsg, part |-> 0,
            txNext |-> x, txOld |-> 0, txNew |-> 0, expecting |-> z,
            rx |-> <<>>, rxNext |-> y, rxOld |-> 0, rxNew |-> 0, lwin |-> 0, rwin |-> 0,
            gatt |-> FALSE, confRcvd |-> FALSE, sub |-> "none", ackFlight |-> FALSE,
            ackToSend |-> FALSE, sendAck |-> FALSE, ackRcv |-> FALSE, hsTimer |-> FALSE,
            unsub |-> FALSE, out |-> <<>>, err |-> "none" ]
  BY <1>1, <1>2, <1>3, <1>5 DEF InitEndPoint
<1>7. NoMsg \in Message
  BY DEF NoMsg, Message
<1>8. <<>> \in Seq(Message) /\ <<>> \in Seq(Piece) /\ <<>> \in Seq(Item)
  OBVIOUS
<1>9. "Ready" \in State /\ "Idle" \in TxState /\ "none" \in Subscription
  BY DEF State, TxState, Subscription
<1>10. t \in EndPoint
  BY <1>4, <1>6, <1>7, <1>8, <1>9 DEF EndPoint, EndPointWith
<1> QED BY <1>5, <1>10

\* Free leaves a closed end point with nothing under way.
LEMMA FreeEnds ==
    ASSUME NEW r \in Roles, NEW e \in Draft, Harmless(e.err)
    PROVE  Ended(r, e, Free(e))
<1>1. PICK w : w = IF e.err \in ProtocolErrors THEN e.err ELSE "closed"
  OBVIOUS
<1>2. w # "none" /\ Harmless(w) /\ w \in {"none", "closed"} \cup ProtocolErrors
  BY <1>1 DEF Harmless, ProtocolErrors
<1>3. PICK t : t = Free(e)
  OBVIOUS
<1>4. t = [InitEndPoint("central") EXCEPT !.state = "Closed", !.err = w]
  BY <1>1, <1>3 DEF Free
<1>5. t \in EndPoint
  BY <1>2, <1>4, InitTyped DEF Roles, EndPoint, EndPointWith, State
<1>6. t.state = "Closed" /\ t.err = w /\ t.out = <<>> /\ t.rx = <<>> /\ ~t.ackRcv /\ ~t.hsTimer
  BY <1>4 DEF InitEndPoint
<1> QED BY <1>2, <1>3, <1>5, <1>6 DEF Ended, Over

\* FinalizeClose leaves one that may keep what is under way, and what it reassembled.
LEMMA FinalizeEnds ==
    ASSUME NEW r \in Roles, NEW e \in Draft, NEW why \in Errors, why # "none", Harmless(why)
    PROVE  Ended(r, e, FinalizeClose(r, e, why))
<1>1. PICK x : x = Fail(e, why)
  OBVIOUS
<1>2. x \in Draft /\ x.err = why /\ x.out = e.out /\ x.rx = e.rx
  BY <1>1 DEF Fail, Draft, EndPointWith
<1>3. PICK y : y = Free(x)
  OBVIOUS
<1>4. Ended(r, x, y)
  BY <1>2, <1>3, FreeEnds
<1>5. PICK t : t = FinalizeClose(r, e, why)
  OBVIOUS
<1>6. t = y \/ (r = "central" /\ t = [y EXCEPT !.unsub = TRUE, !.gatt = TRUE, !.rx = e.rx, !.out = e.out])
  BY <1>1, <1>3, <1>5 DEF FinalizeClose
<1>7. CASE t = y
  BY <1>2, <1>4, <1>5, <1>7 DEF Ended, Over
<1>8. CASE r = "central" /\ t = [y EXCEPT !.unsub = TRUE, !.gatt = TRUE, !.rx = e.rx, !.out = e.out]
  <2>1. t \in EndPoint
    BY <1>4, <1>8 DEF Ended, Over, EndPoint, EndPointWith, Draft
  <2>2. /\ t.state = y.state /\ t.err = y.err /\ t.out = e.out /\ t.rx = e.rx
        /\ t.ackRcv = y.ackRcv /\ t.hsTimer = y.hsTimer
    BY <1>4, <1>8 DEF Ended, Over, EndPoint, EndPointWith
  <2> QED BY <1>4, <1>5, <1>8, <2>1, <2>2 DEF Ended, Over
<1> QED BY <1>6, <1>7, <1>8

-----------------------------------------------------------------------------
(* Chains.                                                                 *)

\* Nothing under way: both ends are at the same position.
LEMMA ChainEmpty ==
    ASSUME NEW a \in Position
    PROVE  Chain(a, <<>>, a)
<1>1. PICK path : path = [i \in 0 .. 0 |-> a]
  OBVIOUS
<1>2. path \in [0 .. Len(<<>>) -> Position] /\ path[0] = a /\ path[Len(<<>>)] = a
  BY <1>1
<1>3. \A i \in 1 .. Len(<<>>) : Link(path[i - 1], <<>>[i], path[i])
  OBVIOUS
<1> QED BY <1>2, <1>3 DEF Chain, Leads

\* Sending an item moves the end of the chain on.
LEMMA ChainAppend ==
    ASSUME NEW items \in Seq(Item), NEW x \in Item,
           NEW a \in Position, NEW b \in Position, NEW c \in Position,
           Chain(a, items, b), Link(b, x, c)
    PROVE  Chain(a, Append(items, x), c)
<1> DEFINE n == Len(items)
<1>1. PICK path \in [0 .. n -> Position] : Leads(path, a, items, b)
  BY DEF Chain
<1>2. PICK more : more = [i \in 0 .. n + 1 |-> IF i <= n THEN path[i] ELSE c]
  OBVIOUS
<1>3. PICK longer : longer = Append(items, x)
  OBVIOUS
<1>4. n \in Nat /\ Len(longer) = n + 1 /\ longer[n + 1] = x /\ \A i \in 1 .. n : longer[i] = items[i]
  BY <1>3
<1>5. more \in [0 .. Len(longer) -> Position]
  BY <1>2, <1>4
<1>6. more[0] = a /\ more[Len(longer)] = c
  BY <1>1, <1>2, <1>4 DEF Leads
<1>7. ASSUME NEW i \in 1 .. Len(longer)
      PROVE  Link(more[i - 1], longer[i], more[i])
  <2>1. CASE i <= n
    <3>1. i \in 1 .. n /\ more[i - 1] = path[i - 1] /\ more[i] = path[i] /\ longer[i] = items[i]
      BY <1>2, <1>4, <2>1
    <3> QED BY <1>1, <3>1 DEF Leads
  <2>2. CASE i = n + 1
    <3>1. more[i - 1] = path[n] /\ more[i] = c /\ longer[i] = x /\ path[n] = b
      BY <1>1, <1>2, <1>4, <2>2 DEF Leads
    <3> QED BY <3>1
  <2> QED BY <1>4, <2>1, <2>2
<1> QED BY <1>3, <1>5, <1>6, <1>7 DEF Chain, Leads

\* Receiving an item moves its beginning.
LEMMA ChainTail ==
    ASSUME NEW items \in Seq(Item), items # <<>>, NEW a \in Position, NEW b \in Position,
           Chain(a, items, b)
    PROVE  \E c \in Position : Link(a, Head(items), c) /\ Chain(c, Tail(items), b)
<1> DEFINE n == Len(items)
<1>1. PICK path \in [0 .. n -> Position] : Leads(path, a, items, b)
  BY DEF Chain
<1>2. PICK rest : rest = Tail(items)
  OBVIOUS
<1>3. n \in Nat /\ n >= 1 /\ Len(rest) = n - 1 /\ \A i \in 1 .. n - 1 : rest[i] = items[i + 1]
  BY <1>2
<1>4. PICK less : less = [i \in 0 .. n - 1 |-> path[i + 1]]
  OBVIOUS
<1>5. less \in [0 .. Len(rest) -> Position]
  BY <1>3, <1>4
<1>6. less[0] = path[1] /\ less[Len(rest)] = b
  BY <1>1, <1>3, <1>4 DEF Leads
<1>7. ASSUME NEW i \in 1 .. Len(rest)
      PROVE  Link(less[i - 1], rest[i], less[i])
  <2>1. i + 1 \in 1 .. n /\ less[i - 1] = path[(i + 1) - 1] /\ less[i] = path[i + 1]
        /\ rest[i] = items[i + 1]
    BY <1>3, <1>4
  <2> QED BY <1>1, <2>1 DEF Leads
<1>8. Chain(path[1], rest, b)
  BY <1>5, <1>6, <1>7 DEF Chain, Leads
<1>9. 1 \in 1 .. n /\ path[1] \in Position /\ Head(items) = items[1] /\ 1 - 1 = 0
  BY <1>3
<1>10. Link(path[1 - 1], items[1], path[1]) /\ path[0] = a
  BY <1>1, <1>9 DEF Leads
<1>11. Link(a, Head(items), path[1])
  BY <1>9, <1>10
<1> QED BY <1>2, <1>8, <1>9, <1>11

-----------------------------------------------------------------------------
(* Sending.                                                                *)

\* Fields that only the fragmenter, the reassembler and the states change.
Keeps(e, t) ==
    /\ t.state = e.state /\ t.queue = e.queue /\ t.confRcvd = e.confRcvd
    /\ t.tx = e.tx /\ t.msg = e.msg /\ t.part = e.part
    /\ t.rx = e.rx /\ t.rxNext = e.rxNext /\ t.err = e.err

\* Recording that everything received is acknowledged (GetAndRecordRxAckSeqNum).
LEMMA RecordAck ==
    ASSUME NEW e \in Draft, NEW t, t = GetAndRecordRxAckSeqNum(e)
    PROVE  /\ t \in Draft /\ Keeps(e, t)
           /\ t.out = e.out /\ t.txNext = e.txNext /\ t.expecting = e.expecting
           /\ t.gatt = e.gatt /\ t.ackRcv = e.ackRcv
<1>1. PICK n : n = e.rxNext
  OBVIOUS
<1>2. n \in SeqNums /\ t = [e EXCEPT !.rxNew = n, !.rxOld = n]
  BY <1>1 DEF GetAndRecordRxAckSeqNum, Draft, EndPointWith
<1>3. t \in Draft
  BY <1>2 DEF Draft, EndPointWith
<1> QED BY <1>2, <1>3 DEF Draft, EndPointWith, Keeps

\* Taking a sequence number for a fragment (GetAndIncrementNextTxSeqNum).
LEMMA TakeNumber ==
    ASSUME NEW e \in Draft, NEW t, t = GetAndIncrementNextTxSeqNum(e)
    PROVE  /\ t \in Draft /\ Keeps(e, t)
           /\ t.out = e.out /\ t.txNext = IncSeqNum(e.txNext) /\ t.expecting
           /\ t.gatt = e.gatt /\ t.ackRcv = e.ackRcv
<1>1. PICK o : o = IF e.expecting THEN e.txOld ELSE e.txNext
  OBVIOUS
<1>2. o \in SeqNums /\ e.txNext \in SeqNums
  BY <1>1 DEF Draft, EndPointWith
<1>3. PICK n : n = IncSeqNum(e.txNext)
  OBVIOUS
<1>4. n \in SeqNums
  BY <1>2, <1>3, SeqNumFacts
<1>5. PICK m : m = e.txNext
  OBVIOUS
<1>5a. m \in SeqNums /\ t = [e EXCEPT !.expecting = TRUE, !.txOld = o, !.txNew = m, !.txNext = n]
  BY <1>1, <1>2, <1>3, <1>5 DEF GetAndIncrementNextTxSeqNum
<1>6. t \in Draft
  BY <1>2, <1>4, <1>5a DEF Draft, EndPointWith
<1> QED BY <1>3, <1>5a, <1>6 DEF Draft, EndPointWith, Keeps

\* Handing a fragment to GATT, which may refuse it (SendCharacteristic).
LEMMA SendItem ==
    ASSUME NEW e \in Draft, NEW x \in Item, NEW ok \in BOOLEAN, ok, NEW t, t = SendCharacteristic(e, x, ok)
    PROVE  /\ t \in Draft /\ Keeps(e, t)
           /\ t.out = Append(e.out, x) /\ t.txNext = e.txNext
           /\ t.gatt /\ t.ackRcv
<1>1. PICK w : w = (e.rwin - 1) % SeqMod
  OBVIOUS
<1>2. w \in SeqNums
  <2>1. e.rwin \in SeqNums
    BY DEF Draft, EndPointWith
  <2>2. e.rwin - 1 \in Int
    BY <2>1 DEF SeqNums
  <2> QED BY <1>1, <2>2, SeqNumFacts
<1>3. PICK o : o = Append(e.out, x)
  OBVIOUS
<1>4. o \in Seq(Item)
  BY <1>3 DEF Draft, EndPointWith
<1>5. t = [e EXCEPT !.gatt = TRUE, !.rwin = w, !.ackRcv = TRUE, !.out = o]
  BY <1>1, <1>3 DEF SendCharacteristic
<1>6. t \in Draft
  BY <1>2, <1>4, <1>5 DEF Draft, EndPointWith
<1> QED BY <1>3, <1>5, <1>6 DEF Draft, EndPointWith, Keeps

\* A GATT operation the platform refuses changes nothing but the error.
LEMMA SendRefused ==
    ASSUME NEW e \in Draft, NEW x, NEW ok \in BOOLEAN, ~ok, NEW t, t = SendCharacteristic(e, x, ok)
    PROVE  /\ t \in Draft /\ t.err = "gatt_failed"
           /\ t.state = e.state /\ t.out = e.out /\ t.rx = e.rx
<1>1. t = [[e EXCEPT !.gatt = TRUE] EXCEPT !.err = "gatt_failed"]
  BY DEF SendCharacteristic, Fail
<1>2. "gatt_failed" \in Errors
  BY DEF Errors
<1>3. t \in Draft
  BY <1>1, <1>2 DEF Draft, EndPointWith
<1>4. t.err = "gatt_failed" /\ t.state = e.state /\ t.out = e.out /\ t.rx = e.rx
  BY <1>1 DEF Draft, EndPointWith
<1> QED BY <1>3, <1>4

\* What a handler may do to the sending side of an end point: send nothing, or
\* the next fragment of what was passed to Send, or a bare acknowledgment.
Emits(e, t, S) ==
    \E x \in Item : /\ IsFragment(x) /\ PartOf(x, S)
                    /\ t.out = Append(e.out, x) /\ t.gatt
                    /\ Link(TxPosition(e, S), x, TxPosition(t, S))
Holds(e, t, S) == t.out = e.out /\ TxPosition(t, S) = TxPosition(e, S)

Goes(r, e, t, S) ==
    /\ t \in Draft /\ t.err = "none"
    /\ Working(r, t, S)
    /\ t.state = e.state /\ t.confRcvd = e.confRcvd
    /\ t.rx = e.rx /\ t.rxNext = e.rxNext
    /\ Emits(e, t, S) \/ Holds(e, t, S)

Broken(e, t) ==
    /\ t \in Draft /\ t.err # "none" /\ Harmless(t.err)
    /\ t.state = e.state /\ t.out = e.out /\ t.rx = e.rx

Driven(r, e, t, S) ==
    \/ Goes(r, e, t, S)
    \/ Broken(e, t)
    \/ Ended(r, e, t) /\ e.state = "Closing"

\* An end point that a handler works on.
Busy(r, e, S) ==
    /\ e \in Draft /\ e.err = "none" /\ IsConnected(e)
    /\ SentOK(S) /\ Working(r, e, S)

\* A bare acknowledgment has a number and no message.
LEMMA AckEmitted ==
    ASSUME NEW r \in Roles, NEW S, NEW e, Busy(r, e, S), NEW ok \in BOOLEAN, NEW t,
           t = DoSendStandAloneAck(e, ok)
    PROVE  Driven(r, e, t, S)
<1>1. PICK a : a = GetAndRecordRxAckSeqNum(e)
  OBVIOUS
<1>2. PICK b : b = GetAndIncrementNextTxSeqNum(a)
  OBVIOUS
<1>3. PICK x : x = Fragment(e.txNext, e.rxNew, NoMsg, 0)
  OBVIOUS
<1>4. PICK s : s = SendCharacteristic(b, x, ok)
  OBVIOUS
<1>5. t = IF ok THEN [s EXCEPT !.lwin = Window, !.ackFlight = TRUE] ELSE s
  BY <1>1, <1>2, <1>3, <1>4 DEF DoSendStandAloneAck
<1>6. x \in Item /\ IsFragment(x) /\ x.seq = e.txNext /\ x.msg = NoMsg
  <2>1. e.txNext \in SeqNums /\ e.rxNew \in SeqNums
    BY DEF Busy, Draft, EndPointWith
  <2>2. NoMsg \in Message /\ 0 \in Nat
    BY DEF NoMsg, Message
  <2> QED BY <1>3, <2>1, <2>2 DEF Fragment, Item, IsFragment
<1>7. b \in Draft /\ Keeps(e, b) /\ b.out = e.out /\ b.txNext = IncSeqNum(e.txNext) /\ b.expecting
  BY <1>1, <1>2, RecordAck, TakeNumber DEF Busy, Keeps
<1>8. CASE ok
  <2>1. /\ s \in Draft /\ Keeps(b, s) /\ s.out = Append(b.out, x) /\ s.txNext = b.txNext
        /\ s.gatt /\ s.ackRcv
    <3>1. b \in Draft /\ x \in Item
      BY <1>6, <1>7
    <3> QED BY <1>4, <1>8, <3>1, SendItem
  <2>2. t = [s EXCEPT !.lwin = Window, !.ackFlight = TRUE]
    BY <1>5, <1>8
  <2>3. t \in Draft
    <3>1. Window \in SeqNums
      BY SeqNumFacts
    <3>2. s \in Draft
      BY <2>1
    <3> QED BY <2>2, <3>1, <3>2 DEF Draft, EndPointWith
  <2>4. Keeps(e, t) /\ t.out = Append(e.out, x) /\ t.txNext = IncSeqNum(e.txNext) /\ t.gatt /\ t.ackRcv
    BY <1>7, <2>1, <2>2 DEF Draft, EndPointWith, Keeps
  <2>5. Working(r, t, S)
    BY <2>4 DEF Busy, Keeps, Working, QueueOK, FragmenterOK
  <2>6. Link(TxPosition(e, S), x, TxPosition(t, S)) /\ PartOf(x, S)
    BY <1>6, <2>4 DEF Link, TxPosition, Popped, Keeps, PartOf
  <2>7. Emits(e, t, S)
    BY <1>6, <2>4, <2>6 DEF Emits
  <2> QED BY <2>3, <2>4, <2>5, <2>7 DEF Driven, Goes, Busy, Keeps
<1>9. CASE ~ok
  <2>1. s \in Draft /\ s.err = "gatt_failed" /\ s.state = b.state /\ s.out = b.out /\ s.rx = b.rx /\ t = s
    BY <1>4, <1>5, <1>7, <1>9, SendRefused
  <2> QED BY <1>7, <2>1 DEF Driven, Broken, Keeps, Harmless
<1> QED BY <1>8, <1>9

\* The fragmenter is about to send part e.part + 1 of e.msg.
Loaded(r, e, S) ==
    /\ e \in Draft /\ e.err = "none"
    /\ SentOK(S) /\ QueueOK(e, S)
    /\ e.confRcvd /\ Len(e.queue) < Len(S)
    /\ e.msg = S[Len(S) - Len(e.queue)]
    /\ e.part \in 0 .. e.msg.size - 1
    /\ e.state = "Closing" => r \in Closers

LoadedPosition(e, S) ==
    [seq |-> e.txNext, done |-> Len(S) - Len(e.queue) - 1, part |-> e.part]

\* d is e before a message was taken from its queue.
SameButQueue(d, e) ==
    /\ d.state = e.state /\ d.confRcvd = e.confRcvd /\ d.out = e.out
    /\ d.rx = e.rx /\ d.rxNext = e.rxNext

\* The next fragment of a message goes out in its turn.
LEMMA FragmentEmitted ==
    ASSUME NEW r \in Roles, NEW S, NEW d, NEW e, Loaded(r, e, S), SameButQueue(d, e),
           TxPosition(d, S) = LoadedPosition(e, S),
           NEW ok \in BOOLEAN, NEW t, t = SendFragment(e, ok)
    PROVE  Driven(r, d, t, S)
<1> DEFINE n == Len(S) - Len(e.queue)
<1>1. /\ e \in Draft /\ e.queue \in Seq(Message) /\ e.part \in Nat /\ e.msg \in Message
      /\ e.sendAck \in BOOLEAN /\ e.txNext \in SeqNums /\ e.rxNew \in SeqNums
  BY DEF Loaded, Draft, EndPointWith
<1>2. /\ n \in 1 .. Len(S) /\ Len(e.queue) \in Nat /\ Len(S) \in Nat
      /\ e.msg = S[n] /\ S[n].id = n /\ S[n].size \in Nat \ {0}
  BY <1>1 DEF Loaded, SentOK
<1>3. CASE e.sendAck /\ ~HasUnackedData(e)
  <2>1. t = [[e EXCEPT !.lwin = Window] EXCEPT !.err = "nothing_to_ack"]
    BY <1>3 DEF SendFragment, Fail
  <2>2. "nothing_to_ack" \in Errors /\ Window \in SeqNums
    BY SeqNumFacts DEF Errors, ProtocolErrors
  <2>3. t \in Draft
    BY <1>1, <2>1, <2>2 DEF Draft, EndPointWith
  <2>4. t.err = "nothing_to_ack" /\ t.state = e.state /\ t.out = e.out /\ t.rx = e.rx
    BY <1>1, <2>1 DEF Draft, EndPointWith
  <2> QED BY <2>3, <2>4 DEF Driven, Broken, SameButQueue, Harmless
<1>4. CASE ~(e.sendAck /\ ~HasUnackedData(e))
  <2>1. PICK a : a = IF e.sendAck THEN [GetAndRecordRxAckSeqNum(e) EXCEPT !.lwin = Window] ELSE e
    OBVIOUS
  <2>2. a \in Draft /\ Keeps(e, a) /\ a.out = e.out /\ a.txNext = e.txNext
    <3>1. CASE e.sendAck
      <4>1. PICK g : g = GetAndRecordRxAckSeqNum(e)
        OBVIOUS
      <4>2. g \in Draft /\ Keeps(e, g) /\ g.out = e.out /\ g.txNext = e.txNext
        BY <1>1, <4>1, RecordAck
      <4>3. a = [g EXCEPT !.lwin = Window]
        BY <2>1, <3>1, <4>1
      <4>4. Window \in SeqNums
        BY SeqNumFacts
      <4>5. a \in Draft
        BY <4>2, <4>3, <4>4 DEF Draft, EndPointWith
      <4> QED BY <4>2, <4>3, <4>5 DEF Draft, EndPointWith, Keeps
    <3>2. CASE ~e.sendAck
      BY <1>1, <2>1, <3>2 DEF Keeps
    <3> QED BY <3>1, <3>2
  <2>3. PICK b : b = GetAndIncrementNextTxSeqNum(a)
    OBVIOUS
  <2>4. b \in Draft /\ Keeps(e, b) /\ b.out = e.out /\ b.txNext = IncSeqNum(e.txNext)
    BY <2>2, <2>3, TakeNumber DEF Keeps
  <2>5. PICK p : p = e.part + 1
    OBVIOUS
  <2>6. PICK y : y = IF p = e.msg.size THEN "Complete" ELSE "InProgress"
    OBVIOUS
  <2>7. PICK c : c = [b EXCEPT !.part = p, !.tx = y]
    OBVIOUS
  <2>8. p \in Nat /\ y \in TxState
    BY <1>1, <2>5, <2>6 DEF TxState
  <2>9. c \in Draft
    BY <2>4, <2>7, <2>8 DEF Draft, EndPointWith
  <2>10. /\ c.part = p /\ c.tx = y /\ c.state = e.state /\ c.queue = e.queue
         /\ c.confRcvd = e.confRcvd /\ c.msg = e.msg /\ c.rx = e.rx /\ c.rxNext = e.rxNext
         /\ c.err = e.err /\ c.out = e.out /\ c.txNext = IncSeqNum(e.txNext)
    BY <2>4, <2>7 DEF Draft, EndPointWith, Keeps
  <2>11. PICK k : k = IF e.sendAck THEN e.rxNew ELSE NoAck
    OBVIOUS
  <2>12. PICK x : x = Fragment(e.txNext, k, e.msg, p)
    OBVIOUS
  <2>13. x \in Item /\ IsFragment(x) /\ x.seq = e.txNext /\ x.msg = e.msg /\ x.part = p
    <3>1. k \in SeqNums \cup {NoAck}
      BY <1>1, <2>11
    <3> QED BY <1>1, <2>8, <2>12, <3>1 DEF Fragment, Item, IsFragment
  <2>14. PICK s : s = SendCharacteristic(c, x, ok)
    OBVIOUS
  <2>15. t = IF ok THEN [s EXCEPT !.sendAck = FALSE] ELSE s
    <3>1. c = [b EXCEPT !.part = @ + 1,
                        !.tx = IF e.part + 1 = e.msg.size THEN "Complete" ELSE "InProgress"]
      BY <2>4, <2>5, <2>6, <2>7 DEF Keeps
    <3> QED BY <1>4, <2>1, <2>3, <2>5, <2>11, <2>12, <2>14, <3>1 DEF SendFragment
  <2>16. CASE ok
    <3>1. /\ s \in Draft /\ Keeps(c, s) /\ s.out = Append(c.out, x) /\ s.txNext = c.txNext
          /\ s.gatt /\ s.ackRcv
      BY <2>9, <2>13, <2>14, <2>16, SendItem
    <3>2. t = [s EXCEPT !.sendAck = FALSE]
      BY <2>15, <2>16
    <3>3. t \in Draft
      BY <3>1, <3>2 DEF Draft, EndPointWith
    <3>4. /\ Keeps(c, t) /\ t.out = Append(c.out, x) /\ t.txNext = c.txNext
          /\ t.gatt /\ t.ackRcv
      BY <3>1, <3>2 DEF Draft, EndPointWith, Keeps
    <3>5. /\ t.part = p /\ t.tx = y /\ t.state = e.state /\ t.queue = e.queue
          /\ t.confRcvd = e.confRcvd /\ t.msg = e.msg /\ t.rx = e.rx /\ t.rxNext = e.rxNext
          /\ t.err = e.err /\ t.out = Append(e.out, x) /\ t.txNext = IncSeqNum(e.txNext)
      BY <2>10, <3>4 DEF Keeps
    <3>6. p \in 1 .. e.msg.size
      <4>1. e.part \in 0 .. e.msg.size - 1 /\ e.msg.size \in Nat
        BY <1>2 DEF Loaded
      <4> QED BY <2>5, <4>1
    <3>7. Working(r, t, S)
      <4>1. QueueOK(t, S)
        BY <3>5 DEF Loaded, QueueOK
      <4>2. FragmenterOK(t, S)
        BY <1>2, <2>6, <3>5, <3>6 DEF Loaded, FragmenterOK
      <4> QED BY <3>4, <3>5, <4>1, <4>2 DEF Loaded, Working
    <3>8. PartOf(x, S)
      BY <1>2, <2>13, <3>6 DEF PartOf
    <3>9. TxPosition(t, S) = [seq  |-> IncSeqNum(e.txNext),
                              done |-> IF p = e.msg.size THEN n ELSE n - 1,
                              part |-> IF p = e.msg.size THEN 0 ELSE p]
      BY <2>6, <3>5 DEF Loaded, TxPosition, Popped
    <3>10. Link(TxPosition(d, S), x, TxPosition(t, S))
      <4>1. e.msg # NoMsg /\ e.msg.id = n
        BY <1>2 DEF NoMsg
      <4> QED BY <1>2, <2>5, <2>13, <3>9, <4>1 DEF Link, LoadedPosition
    <3>11. Emits(d, t, S)
      BY <2>13, <3>4, <3>5, <3>8, <3>10 DEF Emits, SameButQueue
    <3> QED BY <3>3, <3>5, <3>7, <3>11 DEF Driven, Goes, SameButQueue, Loaded
  <2>17. CASE ~ok
    <3>1. s \in Draft /\ s.err = "gatt_failed" /\ s.state = c.state /\ s.out = c.out /\ s.rx = c.rx
          /\ t = s
      BY <2>9, <2>14, <2>15, <2>17, SendRefused
    <3> QED BY <2>10, <3>1 DEF Driven, Broken, SameButQueue, Harmless
  <2> QED BY <2>16, <2>17
<1> QED BY <1>3, <1>4

\* DriveSending sends the next thing in its turn, or nothing, or ends a close.
LEMMA DriveSendingOK ==
    ASSUME NEW r \in Roles, NEW S, NEW e, Busy(r, e, S), NEW ok \in BOOLEAN, NEW t,
           t = DriveSending(r, e, ok)
    PROVE  Driven(r, e, t, S)
<1>1. /\ e \in Draft /\ e.err = "none" /\ Working(r, e, S) /\ SentOK(S)
      /\ e.queue \in Seq(Message) /\ e.tx \in TxState /\ e.part \in Nat /\ e.gatt \in BOOLEAN
      /\ e.confRcvd \in BOOLEAN
  BY DEF Busy, Draft, EndPointWith
<1>2. CASE NoSend(e)
  <2>1. t = e
    BY <1>2 DEF DriveSending
  <2> QED BY <1>1, <2>1 DEF Driven, Goes, Holds
<1>3. CASE ~NoSend(e) /\ e.ackToSend
  BY <1>3, AckEmitted DEF DriveSending
<1>4. CASE ~NoSend(e) /\ ~e.ackToSend /\ e.tx = "InProgress"
  <2>1. t = SendFragment(e, ok)
    BY <1>4 DEF DriveSending
  <2>2. /\ QueueOK(e, S) /\ e.confRcvd /\ Len(e.queue) < Len(S) /\ e.msg = S[Len(S) - Len(e.queue)]
        /\ e.part \in 1 .. e.msg.size /\ e.part # e.msg.size
    BY <1>1, <1>4 DEF Working, FragmenterOK
  <2>3. e.part \in 0 .. e.msg.size - 1
    <3>1. e.msg.size \in Nat
      BY <1>1 DEF Draft, EndPointWith, Message
    <3> QED BY <2>2, <3>1
  <2>4. Loaded(r, e, S)
    BY <1>1, <2>2, <2>3 DEF Loaded, Working
  <2>5. TxPosition(e, S) = LoadedPosition(e, S)
    BY <1>4, <2>2 DEF TxPosition, LoadedPosition, Popped
  <2> QED BY <2>1, <2>4, <2>5, FragmentEmitted DEF SameButQueue
<1>5. CASE ~NoSend(e) /\ ~e.ackToSend /\ e.tx # "InProgress"
  <2>1. PICK u : u = TakeTxPacket(e)
    OBVIOUS
  <2>2. u = [e EXCEPT !.tx = "Idle", !.msg = NoMsg, !.part = 0]
    BY <2>1 DEF TakeTxPacket
  <2>3. u \in Draft
    <3>1. "Idle" \in TxState /\ NoMsg \in Message /\ 0 \in Nat
      BY DEF TxState, NoMsg, Message
    <3> QED BY <1>1, <2>2, <3>1 DEF Draft, EndPointWith
  <2>4. /\ u.state = e.state /\ u.queue = e.queue /\ u.confRcvd = e.confRcvd /\ u.out = e.out
        /\ u.rx = e.rx /\ u.rxNext = e.rxNext /\ u.err = e.err /\ u.txNext = e.txNext
        /\ u.expecting = e.expecting /\ u.ackRcv = e.ackRcv /\ u.gatt = e.gatt
        /\ u.tx = "Idle" /\ u.msg = NoMsg /\ u.part = 0
    BY <1>1, <2>2 DEF Draft, EndPointWith
  <2>5. e.confRcvd /\ QueueOK(e, S) /\ ~e.gatt
    BY <1>1, <1>5 DEF Working, NoSend
  <2>6. TxPosition(u, S) = TxPosition(e, S) /\ Working(r, u, S)
    <3>1. TxPosition(u, S) = TxPosition(e, S)
      BY <1>5, <2>4 DEF TxPosition, Popped
    <3> QED BY <1>1, <2>4, <3>1 DEF Working, QueueOK, FragmenterOK
  <2>7. CASE e.queue # <<>>
    <3>1. PICK v : v = PopMessage(u)
      OBVIOUS
    <3>2. t = SendFragment(v, ok)
      BY <1>5, <2>1, <2>7, <3>1 DEF DriveSending
    <3>3. PICK q : q = Tail(e.queue)
      OBVIOUS
    <3>4. PICK m : m = Head(e.queue)
      OBVIOUS
    <3>5. v = [u EXCEPT !.queue = q, !.msg = m, !.part = 0]
      BY <2>3, <2>4, <3>1, <3>3, <3>4 DEF PopMessage, Draft, EndPointWith
    <3>6. /\ q \in Seq(Message) /\ m \in Message /\ 0 \in Nat /\ m = e.queue[1]
          /\ Len(q) = Len(e.queue) - 1 /\ Len(e.queue) \in Nat \ {0}
          /\ \A i \in 1 .. Len(q) : q[i] = e.queue[i + 1]
      BY <1>1, <2>7, <3>3, <3>4
    <3>7. v \in Draft
      BY <2>3, <3>5, <3>6 DEF Draft, EndPointWith
    <3>8. /\ v.state = e.state /\ v.queue = q /\ v.confRcvd = e.confRcvd /\ v.out = e.out
          /\ v.rx = e.rx /\ v.rxNext = e.rxNext /\ v.err = e.err /\ v.txNext = e.txNext
          /\ v.msg = m /\ v.part = 0
      BY <2>3, <2>4, <3>5 DEF Draft, EndPointWith
    <3>9. Len(S) \in Nat /\ Len(e.queue) <= Len(S) /\ Len(q) < Len(S)
      BY <1>1, <2>5, <3>6 DEF QueueOK, SentOK
    <3>10. m = S[Len(S) - Len(q)]
      <4>1. Len(S) - Len(e.queue) + 1 = Len(S) - Len(q) /\ 1 \in 1 .. Len(e.queue)
        BY <3>6, <3>9
      <4> QED BY <2>5, <3>6, <4>1 DEF QueueOK
    <3>11. QueueOK(v, S)
      <4>1. ASSUME NEW i \in 1 .. Len(q) PROVE q[i] = S[Len(S) - Len(q) + i]
        <5>1. i + 1 \in 1 .. Len(e.queue)
              /\ Len(S) - Len(e.queue) + (i + 1) = Len(S) - Len(q) + i
          BY <3>6, <3>9
        <5> QED BY <2>5, <3>6, <5>1 DEF QueueOK
      <4>2. v.confRcvd /\ Len(v.queue) <= Len(S)
        <5>1. Len(q) <= Len(S)
          BY <3>6, <3>9
        <5> QED BY <2>5, <3>8, <5>1
      <4> QED BY <3>8, <4>1, <4>2 DEF QueueOK
    <3>12. v.part \in 0 .. v.msg.size - 1
      <4>1. Len(S) - Len(q) \in 1 .. Len(S)
        BY <3>6, <3>9
      <4>2. m.size \in Nat \ {0}
        BY <1>1, <3>10, <4>1 DEF SentOK
      <4> QED BY <3>8, <4>2
    <3>13. Loaded(r, v, S)
      BY <1>1, <2>5, <3>7, <3>8, <3>9, <3>10, <3>11, <3>12 DEF Loaded, Working
    <3>14. TxPosition(e, S) = LoadedPosition(v, S)
      <4>1. Len(S) - Len(e.queue) = Len(S) - Len(q) - 1
        BY <3>6, <3>9
      <4> QED BY <1>5, <2>5, <3>8, <4>1 DEF TxPosition, LoadedPosition, Popped
    <3> QED BY <3>2, <3>8, <3>13, <3>14, FragmentEmitted DEF SameButQueue
  <2>8. CASE e.queue = <<>> /\ e.tx = "Complete" /\ e.state = "Closing" /\ ~e.expecting
    <3>1. t = FinalizeClose(r, u, "app_closed")
      BY <1>5, <2>1, <2>8 DEF DriveSending
    <3>2. "app_closed" \in Errors /\ "app_closed" # "none" /\ Harmless("app_closed")
      BY DEF Errors, Harmless
    <3>3. Ended(r, u, t)
      BY <2>3, <3>1, <3>2, FinalizeEnds
    <3> QED BY <2>4, <2>8, <3>3 DEF Driven, Ended, Over
  <2>9. CASE e.queue = <<>> /\ ~(e.tx = "Complete" /\ e.state = "Closing" /\ ~e.expecting)
    <3>1. t = u
      BY <1>5, <2>1, <2>9 DEF DriveSending
    <3> QED BY <1>1, <2>3, <2>4, <2>6, <3>1 DEF Driven, Goes, Holds
  <2> QED BY <2>7, <2>8, <2>9
<1> QED BY <1>2, <1>3, <1>4, <1>5

\* The same for DriveStandAloneAck.
LEMMA DriveStandAloneAckOK ==
    ASSUME NEW r \in Roles, NEW S, NEW e, Busy(r, e, S), NEW ok \in BOOLEAN, NEW t,
           t = DriveStandAloneAck(r, e, ok)
    PROVE  Driven(r, e, t, S)
<1>1. PICK u : u = [e EXCEPT !.sendAck = FALSE, !.ackToSend = TRUE]
  OBVIOUS
<1>2. e \in Draft
  BY DEF Busy
<1>3. u \in Draft
  BY <1>1, <1>2 DEF Draft, EndPointWith
<1>4. /\ Keeps(e, u) /\ u.out = e.out /\ u.txNext = e.txNext
      /\ u.expecting = e.expecting /\ u.ackRcv = e.ackRcv /\ u.gatt = e.gatt
  BY <1>1, <1>2 DEF Draft, EndPointWith, Keeps
<1>5. Busy(r, u, S)
  BY <1>3, <1>4 DEF Busy, Keeps, Working, QueueOK, FragmenterOK, IsConnected
<1>6. Driven(r, u, t, S)
  BY <1>1, <1>5, DriveSendingOK DEF DriveStandAloneAck
<1>7. TxPosition(u, S) = TxPosition(e, S)
  BY <1>4 DEF TxPosition, Popped, Keeps
<1> QED BY <1>4, <1>6, <1>7 DEF Driven, Goes, Emits, Holds, Broken, Ended, Over, Keeps

-----------------------------------------------------------------------------
(* Receiving.                                                              *)

\* What the reassembler holds after fragment f.
RxAfter(e, f) == IF f.msg = NoMsg THEN e.rx ELSE Append(e.rx, <<f.msg.id, f.part>>)

\* b is e after the engine has accepted f.
Accepted(r, e, f, b, S) ==
    /\ Busy(r, b, S)
    /\ b.state = e.state /\ b.confRcvd = e.confRcvd /\ b.out = e.out
    /\ TxPosition(b, S) = TxPosition(e, S)
    /\ b.rx = RxAfter(e, f) /\ b.rxNext = IncSeqNum(e.rxNext)

\* The acknowledgment that f carries changes the fragmenter's expectations only.
LEMMA AckHandled ==
    ASSUME NEW e \in Draft, NEW ack \in SeqNums, NEW t, t = HandleAckReceived(e, ack)
    PROVE  /\ t \in Draft /\ Keeps(e, t) /\ t.out = e.out /\ t.txNext = e.txNext
           /\ t.gatt = e.gatt /\ t.ackRcv = e.ackRcv /\ (t.expecting => e.expecting)
<1>1. CASE e.txNew = ack
  <2>1. t = [e EXCEPT !.txOld = ack, !.expecting = FALSE]
    BY <1>1 DEF HandleAckReceived
  <2>2. t \in Draft
    BY <2>1 DEF Draft, EndPointWith
  <2> QED BY <2>1, <2>2 DEF Draft, EndPointWith, Keeps
<1>2. CASE e.txNew # ack
  <2>1. PICK n : n = IncSeqNum(ack)
    OBVIOUS
  <2>2. n \in SeqNums
    BY <2>1, SeqNumFacts
  <2>3. t = [e EXCEPT !.txOld = n]
    BY <1>2, <2>1 DEF HandleAckReceived
  <2>4. t \in Draft
    BY <2>2, <2>3 DEF Draft, EndPointWith
  <2> QED BY <2>3, <2>4 DEF Draft, EndPointWith, Keeps
<1> QED BY <1>1, <1>2

\* A fragment in its turn is accepted, unless the ack on it is not valid.
LEMMA EngineAccepts ==
    ASSUME NEW r \in Roles, NEW S, NEW e, Busy(r, e, S),
           NEW f \in Item, IsFragment(f), NEW S2, PartOf(f, S2),
           NEW a \in Position, NEW c \in Position, NEW G, Reached(e, a, G), Link(a, f, c),
           NEW t, t = HandleCharacteristicReceived(e, f)
    PROVE  (Broken(e, t) /\ t.err = "invalid_ack") \/ Accepted(r, e, f, t, S)
<1>1. e \in Draft /\ e.err = "none" /\ e.rx \in Seq(Piece) /\ e.rxNext \in SeqNums
  BY DEF Busy, Draft, EndPointWith
<1>2. f.ack \in SeqNums \cup {NoAck} /\ f.seq \in SeqNums /\ f.msg \in Message /\ f.part \in Nat
  BY DEF Item, IsFragment, CapsRequest, Subscribe
<1>3. CASE f.ack # NoAck /\ ~IsValidAck(e, f.ack)
  <2>1. t = [e EXCEPT !.err = "invalid_ack"]
    BY <1>3 DEF HandleCharacteristicReceived, Fail
  <2>2. "invalid_ack" \in Errors
    BY DEF Errors, ProtocolErrors
  <2>3. t \in Draft
    BY <1>1, <2>1, <2>2 DEF Draft, EndPointWith
  <2>4. t.err = "invalid_ack" /\ t.state = e.state /\ t.out = e.out /\ t.rx = e.rx
    BY <1>1, <2>1 DEF Draft, EndPointWith
  <2> QED BY <2>3, <2>4 DEF Broken, Harmless
<1>4. CASE ~(f.ack # NoAck /\ ~IsValidAck(e, f.ack))
  <2>1. PICK x : x = IF f.ack = NoAck THEN e ELSE HandleAckReceived(e, f.ack)
    OBVIOUS
  <2>2. /\ x \in Draft /\ Keeps(e, x) /\ x.out = e.out /\ x.txNext = e.txNext
        /\ x.gatt = e.gatt /\ x.ackRcv = e.ackRcv /\ (x.expecting => e.expecting)
    <3>1. CASE f.ack = NoAck
      BY <1>1, <2>1, <3>1 DEF Keeps
    <3>2. CASE f.ack # NoAck
      <4>1. f.ack \in SeqNums /\ x = HandleAckReceived(e, f.ack)
        BY <1>2, <2>1, <3>2
      <4> QED BY <1>1, <4>1, AckHandled
    <3> QED BY <3>1, <3>2
  <2>3. PICK n : n = IncSeqNum(e.rxNext)
    OBVIOUS
  <2>4. n \in SeqNums
    BY <1>1, <2>3, SeqNumFacts
  <2>5. PICK q : q = f.seq
    OBVIOUS
  <2>6. PICK y : y = [x EXCEPT !.rxNew = q, !.rxNext = n]
    OBVIOUS
  <2>7. y \in Draft
    BY <1>2, <2>2, <2>4, <2>5, <2>6 DEF Draft, EndPointWith
  <2>8. /\ y.state = e.state /\ y.queue = e.queue /\ y.confRcvd = e.confRcvd
        /\ y.tx = e.tx /\ y.msg = e.msg /\ y.part = e.part
        /\ y.rx = e.rx /\ y.rxNext = n /\ y.err = e.err
        /\ y.out = e.out /\ y.txNext = e.txNext /\ y.gatt = e.gatt /\ y.ackRcv = e.ackRcv
        /\ y.expecting = x.expecting
    BY <2>2, <2>6 DEF Draft, EndPointWith, Keeps
  <2>9. y.expecting => e.expecting
    BY <2>2, <2>8
  <2>10. f.seq = x.rxNext
    BY <2>2 DEF Link, Reached, Keeps
  <2>11. y = [x EXCEPT !.rxNew = f.seq, !.rxNext = IncSeqNum(@)]
    BY <2>2, <2>3, <2>5, <2>6 DEF Keeps, Draft, EndPointWith
  <2>12. CASE f.msg = NoMsg
    <3>1. t = y
      BY <1>4, <2>1, <2>10, <2>11, <2>12 DEF HandleCharacteristicReceived
    <3>2. Working(r, y, S) /\ TxPosition(y, S) = TxPosition(e, S)
      BY <2>8, <2>9 DEF Busy, Working, QueueOK, FragmenterOK, TxPosition, Popped
    <3> QED BY <1>1, <2>3, <2>7, <2>8, <2>12, <3>1, <3>2 DEF Accepted, Busy, RxAfter, IsConnected
  <2>13. CASE f.msg # NoMsg
    <3>1. PICK z : z = Append(e.rx, <<f.msg.id, f.part>>)
      OBVIOUS
    <3>2. z \in Seq(Piece) /\ Len(z) = Len(e.rx) + 1 /\ Len(e.rx) \in Nat
      <4>1. <<f.msg.id, f.part>> \in Piece
        BY <1>2 DEF Message, Piece
      <4> QED BY <1>1, <3>1, <4>1
    <3>3. PICK w : w = [y EXCEPT !.rx = z]
      OBVIOUS
    <3>4. w \in Draft
      BY <2>7, <3>2, <3>3 DEF Draft, EndPointWith
    <3>5. /\ w.state = e.state /\ w.queue = e.queue /\ w.confRcvd = e.confRcvd
          /\ w.tx = e.tx /\ w.msg = e.msg /\ w.part = e.part
          /\ w.rx = z /\ w.rxNext = n /\ w.err = e.err
          /\ w.out = e.out /\ w.txNext = e.txNext /\ w.gatt = e.gatt /\ w.ackRcv = e.ackRcv
          /\ w.expecting = y.expecting
      BY <2>7, <2>8, <3>3 DEF Draft, EndPointWith
    <3>6. f.part = Len(e.rx) + 1
      BY <2>13 DEF Link, Reached
    <3>7. ((y.rx = <<>>) <=> (f.part = 1)) /\ Len(w.rx) = f.part
      BY <1>1, <2>8, <3>2, <3>5, <3>6
    <3>8. w = [y EXCEPT !.rx = Append(@, <<f.msg.id, f.part>>)]
      BY <2>7, <2>8, <3>1, <3>3 DEF Draft, EndPointWith
    <3>9. t = w
      <4>1. ~((y.rx = <<>>) # (f.part = 1)) /\ ~(f.part = f.msg.size /\ Len(w.rx) # f.msg.size)
        BY <3>7
      <4> QED BY <1>4, <2>1, <2>10, <2>11, <2>13, <3>8, <4>1 DEF HandleCharacteristicReceived
    <3>10. w.expecting => e.expecting
      BY <2>9, <3>5
    <3>11. Working(r, w, S) /\ TxPosition(w, S) = TxPosition(e, S)
      BY <3>5, <3>10 DEF Busy, Working, QueueOK, FragmenterOK, TxPosition, Popped
    <3> QED BY <1>1, <2>3, <2>13, <3>1, <3>4, <3>5, <3>9, <3>11 DEF Accepted, Busy, RxAfter, IsConnected
  <2> QED BY <2>12, <2>13
<1> QED BY <1>3, <1>4

\* A second handler on an end point that has sent nothing so far.
LEMMA DrivenAfterHold ==
    ASSUME NEW r \in Roles, NEW S, NEW b, NEW c, NEW d,
           Goes(r, b, c, S), Holds(b, c, S), Driven(r, c, d, S)
    PROVE  Driven(r, b, d, S)
BY DEF Driven, Goes, Emits, Holds, Broken, Ended, Over

\* The end of Receive sends at most a bare acknowledgment, and only if nothing
\* was sent before.
LEMMA AcknowledgeFragmentOK ==
    ASSUME NEW r \in Roles, NEW S, NEW b, NEW c, Busy(r, b, S), Driven(r, b, c, S), ~Broken(b, c),
           NEW ok \in BOOLEAN, NEW d, d = AcknowledgeFragment(r, c, ok)
    PROVE  Driven(r, b, d, S)
<1>1. CASE Goes(r, b, c, S)
  <2>1. c \in Draft /\ c.state # "Closed" /\ IsConnected(c) /\ Busy(r, c, S) /\ c.gatt \in BOOLEAN
    BY <1>1 DEF Goes, Busy, IsConnected, Draft, EndPointWith
  <2>2. CASE ~HasUnackedData(c)
    BY <1>1, <2>1, <2>2 DEF AcknowledgeFragment, Driven
  <2>3. CASE HasUnackedData(c) /\ c.lwin <= ImmediateAckThreshold /\ ~c.gatt
    <3>1. d = DriveStandAloneAck(r, c, ok)
      BY <2>1, <2>3 DEF AcknowledgeFragment
    <3>2. Driven(r, c, d, S)
      BY <2>1, <3>1, DriveStandAloneAckOK
    <3>3. Holds(b, c, S)
      BY <1>1, <2>3 DEF Goes, Emits
    <3> QED BY <1>1, <3>2, <3>3, DrivenAfterHold
  <2>4. CASE HasUnackedData(c) /\ ~(c.lwin <= ImmediateAckThreshold /\ ~c.gatt)
    <3>1. d = [c EXCEPT !.sendAck = TRUE]
      BY <2>1, <2>4 DEF AcknowledgeFragment
    <3>2. d \in Draft
      BY <2>1, <3>1 DEF Draft, EndPointWith
    <3>3. /\ Keeps(c, d) /\ d.out = c.out /\ d.txNext = c.txNext
          /\ d.expecting = c.expecting /\ d.ackRcv = c.ackRcv /\ d.gatt = c.gatt
      BY <2>1, <3>1 DEF Draft, EndPointWith, Keeps
    <3>4. Working(r, d, S)
      <4>1. Working(r, c, S)
        BY <1>1 DEF Goes
      <4> QED BY <3>3, <4>1 DEF Keeps, Working, QueueOK, FragmenterOK
    <3>5. TxPosition(d, S) = TxPosition(c, S)
      BY <3>3 DEF TxPosition, Popped, Keeps
    <3>6. Emits(b, d, S) \/ Holds(b, d, S)
      BY <1>1, <3>3, <3>5 DEF Goes, Emits, Holds
    <3> QED BY <1>1, <3>2, <3>3, <3>4, <3>6 DEF Driven, Goes, Keeps
  <2> QED BY <2>2, <2>3, <2>4
<1>2. CASE Ended(r, b, c) /\ b.state = "Closing"
  <2>1. c \in EndPoint /\ c.state = "Closed"
    BY <1>2 DEF Ended, Over
  <2>2. d = [c EXCEPT !.sendAck = TRUE] \/ d = [c EXCEPT !.err = "used_after_free"]
    BY <2>1 DEF AcknowledgeFragment, Fail
  <2>3. CASE d = [c EXCEPT !.sendAck = TRUE]
    <3>1. d \in EndPoint
      BY <2>1, <2>3 DEF EndPoint, EndPointWith
    <3>2. /\ d.state = c.state /\ d.err = c.err /\ d.out = c.out /\ d.rx = c.rx
          /\ d.ackRcv = c.ackRcv /\ d.hsTimer = c.hsTimer
      BY <2>1, <2>3 DEF EndPoint, EndPointWith
    <3> QED BY <1>2, <3>1, <3>2 DEF Ended, Over, Driven
  <2>4. CASE d = [c EXCEPT !.err = "used_after_free"]
    <3>1. "used_after_free" \in {"none", "closed"} \cup ProtocolErrors
      BY DEF ProtocolErrors
    <3>2. d \in EndPoint
      BY <2>1, <2>4, <3>1 DEF EndPoint, EndPointWith
    <3>3. /\ d.state = c.state /\ d.err = "used_after_free" /\ d.out = c.out /\ d.rx = c.rx
          /\ d.ackRcv = c.ackRcv /\ d.hsTimer = c.hsTimer
      BY <2>1, <2>4 DEF EndPoint, EndPointWith
    <3> QED BY <1>2, <3>2, <3>3 DEF Ended, Over, Driven, Harmless
  <2> QED BY <2>2, <2>3, <2>4
<1> QED BY <1>1, <1>2 DEF Driven

\* An ack never finds RestartAckReceivedTimer without its timer.
LEMMA RespondToAckOK ==
    ASSUME NEW r \in Roles, NEW S, NEW e, Busy(r, e, S), NEW ack \in SeqNums,
           NEW ok \in BOOLEAN, NEW t, t = RespondToAck(r, e, ack, ok)
    PROVE  Driven(r, e, t, S)
<1>1. e \in Draft /\ e.expecting \in BOOLEAN /\ e.txNew \in SeqNums /\ (e.expecting => e.ackRcv)
  BY DEF Busy, Working, Draft, EndPointWith
<1>2. PICK w : w = AdjustRemoteReceiveWindow(ack, e.txNew)
  OBVIOUS
<1>3. w \in SeqNums
  <2>1. ack \in Int /\ e.txNew \in Int /\ Window \in Int /\ SeqMod \in Int
    BY <1>1, WindowAssumption, SeqModAssumption DEF SeqNums
  <2>2. /\ ack + Window - (e.txNew + SeqMod - 1) \in Int
        /\ ack + Window - e.txNew \in Int
    BY <2>1
  <2> QED BY <1>2, <2>2, SeqNumFacts DEF AdjustRemoteReceiveWindow
<1>4. PICK x : x = e.expecting
  OBVIOUS
<1>5. PICK u : u = [e EXCEPT !.ackRcv = x, !.rwin = w]
  OBVIOUS
<1>6. t = DriveSending(r, u, ok)
  BY <1>1, <1>2, <1>4, <1>5 DEF RespondToAck
<1>7. u \in Draft
  BY <1>1, <1>3, <1>4, <1>5 DEF Draft, EndPointWith
<1>8. /\ Keeps(e, u) /\ u.out = e.out /\ u.txNext = e.txNext
      /\ u.expecting = e.expecting /\ u.ackRcv = x /\ u.gatt = e.gatt
  BY <1>1, <1>5 DEF Draft, EndPointWith, Keeps
<1>9. u.expecting => u.ackRcv
  BY <1>4, <1>8
<1>10. Busy(r, u, S)
  BY <1>7, <1>8, <1>9 DEF Busy, Keeps, Working, QueueOK, FragmenterOK, IsConnected
<1>11. Goes(r, e, u, S) /\ Holds(e, u, S)
  BY <1>8, <1>10 DEF Busy, Goes, Holds, Keeps, TxPosition, Popped
<1> QED BY <1>6, <1>10, <1>11, DriveSendingOK, DrivenAfterHold

\* Receive on a fragment in its turn: the engine refuses the ack it carries, or
\* accepts it, and what follows is like any other handler.
LEMMA ReceiveFragmentOK ==
    ASSUME NEW r \in Roles, NEW S, NEW e, Busy(r, e, S),
           NEW f \in Item, IsFragment(f), NEW S2, PartOf(f, S2),
           NEW a \in Position, NEW c \in Position, NEW G, Reached(e, a, G), Link(a, f, c),
           NEW ok \in BOOLEAN, NEW t, t = ReceiveFragment(r, e, f, ok)
    PROVE  \/ Broken(e, t)
           \/ \E b : /\ Accepted(r, e, f, b, S) /\ Driven(r, b, t, S)
                     /\ LastAckOfClose(HandleCharacteristicReceived(e, f), f) => t.state = "Closed"
<1>1. PICK h : h = HandleCharacteristicReceived(e, f)
  OBVIOUS
<1>2. (Broken(e, h) /\ h.err = "invalid_ack") \/ Accepted(r, e, f, h, S)
  BY <1>1, EngineAccepts
<1>3. f.ack \in SeqNums \cup {NoAck}
  BY DEF Item, IsFragment, CapsRequest, Subscribe
<1>4. CASE Broken(e, h)
  BY <1>1, <1>4 DEF ReceiveFragment, Broken
<1>5. CASE Accepted(r, e, f, h, S)
  <2>1. h \in Draft /\ h.err = "none" /\ h.lwin \in SeqNums
    BY <1>5 DEF Accepted, Busy, Draft, EndPointWith
  <2>2. PICK w : w = (h.lwin - 1) % SeqMod
    OBVIOUS
  <2>3. w \in SeqNums
    <3>1. h.lwin - 1 \in Int
      BY <2>1 DEF SeqNums
    <3> QED BY <2>2, <3>1, SeqNumFacts
  <2>4. PICK b : b = [h EXCEPT !.lwin = w]
    OBVIOUS
  <2>5. b \in Draft
    BY <2>1, <2>3, <2>4 DEF Draft, EndPointWith
  <2>6. /\ Keeps(h, b) /\ b.out = h.out /\ b.txNext = h.txNext
        /\ b.expecting = h.expecting /\ b.ackRcv = h.ackRcv /\ b.gatt = h.gatt
    BY <2>1, <2>4 DEF Draft, EndPointWith, Keeps
  <2>7. Busy(r, b, S) /\ TxPosition(b, S) = TxPosition(h, S)
    BY <1>5, <2>5, <2>6 DEF Accepted, Busy, Keeps, Working, QueueOK, FragmenterOK, IsConnected,
                            TxPosition, Popped
  <2>8. Accepted(r, e, f, b, S)
    BY <1>5, <2>6, <2>7 DEF Accepted, Keeps
  <2>9. LastAckOfClose(h, f) <=> LastAckOfClose(b, f)
    BY <2>6 DEF LastAckOfClose, Keeps
  <2>10. b = [h EXCEPT !.lwin = (@ - 1) % SeqMod]
    BY <2>1, <2>2, <2>4 DEF Draft, EndPointWith
  <2>11. CASE LastAckOfClose(b, f)
    <3>1. PICK u : u = [b EXCEPT !.ackRcv = FALSE]
      OBVIOUS
    <3>2. u \in Draft
      BY <2>5, <3>1 DEF Draft, EndPointWith
    <3>3. u.out = b.out /\ u.rx = b.rx
      BY <2>5, <3>1 DEF Draft, EndPointWith
    <3>4. t = FinalizeClose(r, u, "app_closed")
      BY <1>1, <2>1, <2>10, <2>11, <3>1 DEF ReceiveFragment
    <3>5. "app_closed" \in Errors /\ "app_closed" # "none" /\ Harmless("app_closed")
      BY DEF Errors, Harmless
    <3>6. Ended(r, u, t)
      BY <3>2, <3>4, <3>5, FinalizeEnds
    <3>7. Ended(r, b, t) /\ b.state = "Closing"
      BY <2>11, <3>3, <3>6 DEF Ended, Over, LastAckOfClose
    <3> QED BY <2>8, <3>7 DEF Driven, Ended, Over
  <2>12. CASE ~LastAckOfClose(b, f)
    <3>1. PICK x : x = IF f.ack = NoAck THEN b ELSE RespondToAck(r, b, f.ack, ok)
      OBVIOUS
    <3>2. PICK d : d = AcknowledgeFragment(r, x, ok)
      OBVIOUS
    <3>3. t = IF x.err # "none" /\ x.state # "Closed" THEN x ELSE d
      BY <1>1, <2>1, <2>10, <2>12, <3>1, <3>2 DEF ReceiveFragment
    <3>4. Driven(r, b, x, S)
      <4>1. CASE f.ack = NoAck
        BY <2>5, <2>7, <3>1, <4>1 DEF Driven, Goes, Holds, Busy
      <4>2. CASE f.ack # NoAck
        BY <1>3, <2>7, <3>1, <4>2, RespondToAckOK
      <4> QED BY <4>1, <4>2
    <3>5. CASE Broken(b, x)
      <4>1. t = x
        BY <2>7, <3>3, <3>5 DEF Broken, Busy, IsConnected
      <4> QED BY <1>1, <2>8, <2>9, <2>12, <3>4, <4>1
    <3>6. CASE ~Broken(b, x)
      <4>1. t = d
        BY <3>3, <3>4, <3>6 DEF Driven, Goes, Ended, Over
      <4>2. Driven(r, b, d, S)
        BY <2>7, <3>2, <3>4, <3>6, AcknowledgeFragmentOK
      <4> QED BY <1>1, <2>8, <2>9, <2>12, <4>1, <4>2
    <3> QED BY <3>5, <3>6
  <2> QED BY <2>11, <2>12
<1> QED BY <1>2, <1>4, <1>5

-----------------------------------------------------------------------------
(* What a step does to the parts of the invariant.                         *)

\* The exit label: an end point with an error is closed, if it is not yet.
LEMMA SettleBroken ==
    ASSUME NEW r \in Roles, NEW e, NEW t, Broken(e, t), e.state # "Closed", NEW u, u = Settle(r, t)
    PROVE  Ended(r, e, u)
<1>1. t \in Draft /\ t.err # "none" /\ Harmless(t.err) /\ t.state # "Closed" /\ t.err \in Errors
  BY DEF Broken, Draft, EndPointWith
<1>2. PICK x : x = [t EXCEPT !.hsTimer = FALSE]
  OBVIOUS
<1>3. x \in Draft
  BY <1>1, <1>2 DEF Draft, EndPointWith
<1>4. x.out = t.out /\ x.rx = t.rx
  BY <1>1, <1>2 DEF Draft, EndPointWith
<1>5. u = FinalizeClose(r, x, t.err)
  BY <1>1, <1>2 DEF Settle, DoClose
<1>6. Ended(r, x, u)
  BY <1>1, <1>3, <1>5, FinalizeEnds
<1> QED BY <1>4, <1>6 DEF Broken, Ended, Over

\* After DriveSending and the exit label the end point goes on or is closed.
LEMMA SettleDriven ==
    ASSUME NEW r \in Roles, NEW S, NEW e, NEW t, Driven(r, e, t, S), e.state # "Closed",
           NEW u, u = Settle(r, t)
    PROVE  Goes(r, e, u, S) \/ (Ended(r, e, u) /\ t.err # "none")
<1>1. CASE Goes(r, e, t, S)
  BY <1>1 DEF Goes, Settle
<1>2. CASE Broken(e, t)
  BY <1>2, SettleBroken DEF Broken
<1>3. CASE Ended(r, e, t)
  <2>1. u = t /\ t.err # "none"
    BY <1>3 DEF Ended, Over, Settle, DoClose
  <2> QED BY <1>3, <2>1
<1> QED BY <1>1, <1>2, <1>3 DEF Driven

\* Without an error, the end point inside a handler is one between two handlers.
LEMMA DraftIsEndPoint ==
    ASSUME NEW e \in Draft, e.err = "none"
    PROVE  e \in EndPoint
<1>1. e.err \in {"none", "closed"} \cup ProtocolErrors
  OBVIOUS
<1> QED BY <1>1 DEF Draft, EndPoint, EndPointWith

\* A handler starts from the end point it finds.
LEMMA EndPointIsDraft ==
    ASSUME NEW e \in EndPoint
    PROVE  e \in Draft
<1>1. e.err \in Errors
  BY DEF EndPoint, EndPointWith, Errors
<1> QED BY <1>1 DEF Draft, EndPoint, EndPointWith

\* An end point that goes on is well formed.
LEMMA GoesRoleOK ==
    ASSUME NEW r \in Roles, NEW S, SentOK(S), NEW e, NEW u, Goes(r, e, u, S), IsConnected(e)
    PROVE  RoleOK(r, u, S)
<1>1. u \in EndPoint
  BY DraftIsEndPoint DEF Goes
<1>2. u.err = "none" /\ Harmless(u.err) /\ IsConnected(u) /\ u.state \notin {"Closed", "Ready", "Connecting", "Aborting"}
  BY DEF Goes, IsConnected, Harmless
<1> QED BY <1>1, <1>2 DEF RoleOK, EndPointOK, Goes

\* So is one that has been closed.
LEMMA EndedRoleOK ==
    ASSUME NEW r \in Roles, NEW S, SentOK(S), NEW e, NEW u, Over(r, e, u)
    PROVE  RoleOK(r, u, S)
<1>1. u.state = "Closed" /\ u.err # "none" /\ ~IsConnected(u)
  BY DEF Over, IsConnected
<1>2. r = "peripheral" => u.out = <<>>
  BY DEF Over
<1> QED BY <1>1, <1>2 DEF RoleOK, EndPointOK, Over

\* What is under way leads from the receiver's position to the sender's.
LEMMA TxTyped ==
    ASSUME NEW r \in Roles, NEW S, NEW e, RoleOK(r, e, S), e.state # "Closed"
    PROVE  TxPosition(e, S) \in Position
<1>1. /\ e.txNext \in SeqNums /\ e.part \in Nat /\ e.queue \in Seq(Message) /\ e.confRcvd \in BOOLEAN
      /\ e.state \in State /\ SentOK(S) /\ EndPointOK(r, e, S)
  BY DEF RoleOK, EndPoint, EndPointWith
<1>2. Len(e.queue) \in Nat /\ Len(S) \in Nat
  BY <1>1 DEF SentOK
<1>3. Popped(e, S) \in Nat /\ (e.tx = "InProgress" => Popped(e, S) \in Nat \ {0})
  <2>1. CASE e.state = "Ready"
    BY <1>1, <2>1 DEF EndPointOK, InitEndPoint, Popped
  <2>2. CASE e.state \in {"Connecting", "Aborting"}
    <3>1. Starting(r, e, S)
      BY <1>1, <2>2 DEF EndPointOK
    <3>2. r = "central" \/ r = "peripheral"
      BY DEF Roles
    <3>3. e.tx # "InProgress" /\ (e.confRcvd => e.queue = <<>>)
      BY <3>1, <3>2 DEF Starting
    <3> QED BY <1>2, <3>3 DEF Popped
  <2>3. CASE IsConnected(e)
    <3>1. Working(r, e, S)
      BY <1>1, <2>3 DEF EndPointOK
    <3> QED BY <1>2, <3>1 DEF Working, QueueOK, FragmenterOK, Popped
  <2> QED BY <1>1, <2>1, <2>2, <2>3 DEF IsConnected, State
<1> QED BY <1>1, <1>3 DEF TxPosition, Position

\* Later messages do not change what earlier fragments belong to.
Extends(S, T) == Len(S) <= Len(T) /\ \A i \in 1 .. Len(S) : T[i] = S[i]

\* From e to u at most one item was sent, the next one.
Sends(e, S, u, T) ==
    \/ u.out = e.out /\ TxPosition(u, T) = TxPosition(e, S)
    \/ \E x \in Item : /\ IsFragment(x) => PartOf(x, T)
                       /\ u.out = Append(e.out, x)
                       /\ Link(TxPosition(e, S), x, TxPosition(u, T))

\* A fragment of a message sent stays one when more are sent.
LEMMA PartOfExtends ==
    ASSUME NEW S, NEW T, SentOK(S), SentOK(T), Extends(S, T), NEW x, PartOf(x, S)
    PROVE  PartOf(x, T)
<1>1. Len(S) \in Nat /\ Len(T) \in Nat
  BY DEF SentOK
<1>2. CASE x.msg = NoMsg
  BY <1>2 DEF PartOf
<1>3. CASE x.msg # NoMsg
  <2>1. x.msg.id \in 1 .. Len(S) /\ x.msg = S[x.msg.id] /\ x.part \in 1 .. x.msg.size
    BY <1>3 DEF PartOf
  <2>2. PICK i : i = x.msg.id
    OBVIOUS
  <2>3. i \in 1 .. Len(T) /\ T[i] = S[i]
    BY <1>1, <2>1, <2>2 DEF Extends
  <2> QED BY <2>1, <2>2, <2>3 DEF PartOf
<1> QED BY <1>2, <1>3

\* The direction of a sender that goes on.
LEMMA FlowSends ==
    ASSUME NEW r \in Roles, NEW S, NEW T, NEW e, NEW u, NEW d, NEW G,
           RoleOK(r, e, S), RoleOK(r, u, T), e.state # "Closed", u.state # "Closed",
           Extends(S, T), Sends(e, S, u, T), Flow(e, S, d, G)
    PROVE  Flow(u, T, d, G)
<1>1. e.out \in Seq(Item) /\ u.out \in Seq(Item) /\ SentOK(S) /\ SentOK(T)
  BY DEF RoleOK, EndPoint, EndPointWith
<1>2. PICK p : p = TxPosition(e, S)
  OBVIOUS
<1>3. PICK q : q = TxPosition(u, T)
  OBVIOUS
<1>4. p \in Position /\ q \in Position
  BY <1>2, <1>3, TxTyped
<1>5. PICK a \in Position : Chain(a, e.out, p) /\ (d.state # "Closed" => Reached(d, a, G))
  BY <1>2 DEF Flow
<1>6. ASSUME NEW i \in 1 .. Len(e.out), IsFragment(e.out[i]) PROVE PartOf(e.out[i], T)
  <2>1. PartOf(e.out[i], S)
    BY <1>6 DEF Flow
  <2> QED BY <1>1, <2>1, PartOfExtends
<1>7. CASE u.out = e.out /\ q = p
  BY <1>3, <1>4, <1>5, <1>6, <1>7 DEF Flow
<1>8. CASE \E x \in Item : (IsFragment(x) => PartOf(x, T)) /\ u.out = Append(e.out, x) /\ Link(p, x, q)
  <2>1. PICK x \in Item : (IsFragment(x) => PartOf(x, T)) /\ u.out = Append(e.out, x) /\ Link(p, x, q)
    BY <1>8
  <2>2. Chain(a, u.out, q)
    BY <1>1, <1>4, <1>5, <2>1, ChainAppend
  <2>3. ASSUME NEW i \in 1 .. Len(u.out), IsFragment(u.out[i]) PROVE PartOf(u.out[i], T)
    <3>1. CASE i \in 1 .. Len(e.out)
      <4>1. u.out[i] = e.out[i]
        BY <1>1, <2>1, <3>1
      <4> QED BY <1>6, <2>3, <3>1, <4>1
    <3>2. CASE i = Len(e.out) + 1
      <4>1. u.out[i] = x
        BY <1>1, <2>1, <3>2
      <4> QED BY <2>1, <2>3, <4>1
    <3>3. Len(u.out) = Len(e.out) + 1 /\ Len(e.out) \in Nat
      BY <1>1, <2>1
    <3> QED BY <3>1, <3>2, <3>3
  <2> QED BY <1>3, <1>4, <1>5, <2>2, <2>3 DEF Flow
<1> QED BY <1>2, <1>3, <1>7, <1>8 DEF Sends

\* The direction of a sender that closes.
LEMMA FlowSenderEnds ==
    ASSUME NEW r, NEW S, NEW e, NEW u, NEW d, NEW G, Over(r, e, u), Flow(e, S, d, G)
    PROVE  Flow(u, S, d, G)
<1>1. PICK a \in Position, b \in Position :
         Chain(a, e.out, b) /\ (d.state # "Closed" => Reached(d, a, G))
  BY DEF Flow
<1>2. CASE u.out = e.out
  BY <1>1, <1>2 DEF Flow, Over
<1>3. CASE u.out = <<>>
  <2>1. Chain(a, u.out, a)
    BY <1>3, ChainEmpty
  <2> QED BY <1>1, <1>3, <2>1 DEF Flow, Over
<1> QED BY <1>2, <1>3 DEF Over

\* The direction of a receiver that closes.
LEMMA FlowReceiverEnds ==
    ASSUME NEW S, NEW e, NEW d, NEW u, NEW G, NEW H, u.state = "Closed", Flow(e, S, d, G)
    PROVE  Flow(e, S, u, H)
BY DEF Flow

\* The direction of a receiver that receives nothing.
LEMMA FlowReceiverKeeps ==
    ASSUME NEW S, NEW e, NEW d, NEW u, NEW G, Flow(e, S, d, G), d.state # "Closed",
           u.rx = d.rx, u.rxNext = d.rxNext, u.state = d.state \/ u.state = "Closing" \/ d.state # "Closing"
    PROVE  Flow(e, S, u, G)
<1>1. PICK a \in Position, b \in Position :
         Chain(a, e.out, b) /\ Reached(d, a, G) /\ (e.state # "Closed" => b = TxPosition(e, S))
  BY DEF Flow
<1>2. Reached(u, a, G)
  BY <1>1 DEF Reached
<1> QED BY <1>1, <1>2 DEF Flow

\* What a received item links.
LEMMA FlowHead ==
    ASSUME NEW S, NEW e, e.out \in Seq(Item), e.out # <<>>, NEW d, NEW G, Flow(e, S, d, G)
    PROVE  /\ IsFragment(Head(e.out)) => PartOf(Head(e.out), S)
           /\ \E a, b, c \in Position :
                 /\ Link(a, Head(e.out), c) /\ Chain(c, Tail(e.out), b)
                 /\ d.state # "Closed" => Reached(d, a, G)
                 /\ e.state # "Closed" => b = TxPosition(e, S)
<1>1. PICK a \in Position, b \in Position :
         /\ Chain(a, e.out, b) /\ (d.state # "Closed" => Reached(d, a, G))
         /\ (e.state # "Closed" => b = TxPosition(e, S))
  BY DEF Flow
<1>2. PICK c \in Position : Link(a, Head(e.out), c) /\ Chain(c, Tail(e.out), b)
  BY <1>1, ChainTail
<1>3. 1 \in 1 .. Len(e.out) /\ Head(e.out) = e.out[1]
  OBVIOUS
<1> QED BY <1>1, <1>2, <1>3 DEF Flow

\* The direction of a receiver that takes the next item.
LEMMA FlowTakes ==
    ASSUME NEW S, NEW e, e.out \in Seq(Item), e.out # <<>>, NEW d, NEW G, Flow(e, S, d, G),
           NEW w, w.out = Tail(e.out), w.state = e.state, TxPosition(w, S) = TxPosition(e, S),
           NEW u, NEW H,
           \A a, c \in Position :
               /\ Link(a, Head(e.out), c)
               /\ d.state # "Closed" => Reached(d, a, G)
               => (u.state # "Closed" => Reached(u, c, H))
    PROVE  Flow(w, S, u, H)
<1>1. PICK a \in Position, b \in Position, c \in Position :
         /\ Link(a, Head(e.out), c) /\ Chain(c, Tail(e.out), b)
         /\ (d.state # "Closed" => Reached(d, a, G))
         /\ (e.state # "Closed" => b = TxPosition(e, S))
  BY FlowHead
<1>2. u.state # "Closed" => Reached(u, c, H)
  BY <1>1
<1>3. ASSUME NEW i \in 1 .. Len(w.out), IsFragment(w.out[i]) PROVE PartOf(w.out[i], S)
  <2>1. i + 1 \in 1 .. Len(e.out) /\ w.out[i] = e.out[i + 1]
    OBVIOUS
  <2> QED BY <1>3, <2>1 DEF Flow
<1> QED BY <1>1, <1>2, <1>3 DEF Flow

-----------------------------------------------------------------------------
(* The handshake.                                                          *)

\* What sending and taking do to a queue that holds fragments only.
LEMMA FragmentsOnly ==
    /\ AllFragments(<<>>)
    /\ \A s \in Seq(Item), x \in Item : AllFragments(s) /\ IsFragment(x) => AllFragments(Append(s, x))
    /\ \A s \in Seq(Item) : s # <<>> /\ AllFragments(s) => AllFragments(Tail(s)) /\ IsFragment(Head(s))
    /\ \A s \in Greetings : s # <<>> /\ ~AllFragments(s) /\ ~IsFragment(Head(s))
<1>1. AllFragments(<<>>)
  BY DEF AllFragments
<1>2. ASSUME NEW s \in Seq(Item), NEW x \in Item, AllFragments(s), IsFragment(x)
      PROVE  AllFragments(Append(s, x))
  <2>1. ASSUME NEW i \in 1 .. Len(s) + 1 PROVE IsFragment(Append(s, x)[i])
    <3>1. CASE i \in 1 .. Len(s)
      BY <1>2, <3>1 DEF AllFragments
    <3>2. CASE i = Len(s) + 1
      BY <1>2, <3>2
    <3> QED BY <3>1, <3>2
  <2>2. Len(Append(s, x)) = Len(s) + 1
    OBVIOUS
  <2> QED BY <2>1, <2>2 DEF AllFragments
<1>3. ASSUME NEW s \in Seq(Item), s # <<>>, AllFragments(s)
      PROVE  AllFragments(Tail(s)) /\ IsFragment(Head(s))
  <2>1. ASSUME NEW i \in 1 .. Len(Tail(s)) PROVE IsFragment(Tail(s)[i])
    <3>1. i + 1 \in 1 .. Len(s) /\ Tail(s)[i] = s[i + 1]
      BY <1>3
    <3> QED BY <1>3, <3>1 DEF AllFragments
  <2>2. 1 \in 1 .. Len(s) /\ Head(s) = s[1]
    BY <1>3
  <2> QED BY <1>3, <2>1, <2>2 DEF AllFragments
<1>4. ASSUME NEW s \in Greetings PROVE s # <<>> /\ ~AllFragments(s) /\ ~IsFragment(Head(s))
  <2>1. CapsRequest.kind # "fragment" /\ Subscribe.kind # "fragment"
    BY DEF CapsRequest, Subscribe
  <2>2. PICK q : q = CapsRequest
    OBVIOUS
  <2>3. PICK y : y = Subscribe
    OBVIOUS
  <2>4. s = <<q>> \/ s = <<q, y>> \/ s = <<y>>
    BY <2>2, <2>3 DEF Greetings
  <2>5. s # <<>> /\ 1 \in 1 .. Len(s) /\ (s[1] = q \/ s[1] = y) /\ Head(s) = s[1]
    BY <2>4
  <2> QED BY <2>1, <2>2, <2>3, <2>5 DEF AllFragments, IsFragment
<1> QED BY <1>1, <1>2, <1>3, <1>4

\* An end point that closes leaves the handshake in order.
LEMMA HandshakeCentralEnds ==
    ASSUME NEW c, NEW p, NEW u, HandshakeOK(c, p), Over("central", c, u)
    PROVE  HandshakeOK(u, p)
<1>1. u.state = "Closed" /\ ~IsConnected(u)
  BY DEF Over, IsConnected
<1>2. CASE u.out = c.out
  BY <1>1, <1>2 DEF HandshakeOK
<1>3. CASE u.out = <<>>
  <2>1. AllFragments(u.out) /\ u.out \notin Greetings
    BY <1>3, FragmentsOnly
  <2>2. u.out \notin {<<CapsRequest>>, <<CapsRequest, Subscribe>>} /\ u.out # <<Subscribe>>
    BY <2>1 DEF Greetings
  <2> QED BY <1>1, <1>3, <2>1, <2>2 DEF HandshakeOK
<1> QED BY <1>2, <1>3 DEF Over

\* The same for the peripheral.
LEMMA HandshakePeripheralEnds ==
    ASSUME NEW c, NEW p, NEW u, HandshakeOK(c, p), p.state # "Ready", Over("peripheral", p, u)
    PROVE  HandshakeOK(c, u)
<1>1. u.state = "Closed" /\ ~IsConnected(u) /\ u.out = <<>>
  BY DEF Over, IsConnected
<1> QED BY <1>1 DEF HandshakeOK

\* A connected end point that goes on sends fragments only.
SendsFragments(e, u) ==
    \/ u.out = e.out
    \/ \E x \in Item : IsFragment(x) /\ u.out = Append(e.out, x)

\* A connected central that sends fragments leaves the handshake in order.
LEMMA HandshakeCentralGoes ==
    ASSUME NEW c, NEW p, NEW u, HandshakeOK(c, p), IsConnected(c), IsConnected(u),
           c.out \in Seq(Item), SendsFragments(c, u), u.confRcvd = c.confRcvd
    PROVE  HandshakeOK(u, p)
<1>1. AllFragments(c.out) /\ (IsConnected(p) \/ p.state = "Closed")
  BY DEF HandshakeOK
<1>2. AllFragments(u.out)
  BY <1>1, FragmentsOnly DEF SendsFragments
<1>3. u.out \notin Greetings
  BY <1>2, FragmentsOnly
<1>4. u.out \notin {<<CapsRequest>>, <<CapsRequest, Subscribe>>} /\ u.out # <<Subscribe>>
  BY <1>3 DEF Greetings
<1>5. u.state \notin {"Aborting", "Ready", "Connecting", "Closed"}
      /\ c.state \notin {"Aborting", "Ready", "Connecting", "Closed"}
  BY DEF IsConnected
<1>6. p.state \notin {"Ready", "Connecting", "Aborting"}
  BY <1>1 DEF IsConnected
<1> QED BY <1>1, <1>2, <1>3, <1>4, <1>5, <1>6 DEF HandshakeOK

\* So does a connected peripheral.
LEMMA HandshakePeripheralGoes ==
    ASSUME NEW c, NEW p, NEW u, HandshakeOK(c, p), IsConnected(p), IsConnected(u),
           p.out \in Seq(Item), SendsFragments(p, u)
    PROVE  HandshakeOK(c, u)
<1>1. u.state \notin {"Aborting", "Ready", "Connecting", "Closed"}
      /\ p.state \notin {"Aborting", "Ready", "Connecting", "Closed"}
  BY DEF IsConnected
<1>2. AllFragments(c.out) /\ (c.state = "Closed" \/ c.confRcvd)
  BY DEF HandshakeOK
<1>3. c.out \notin Greetings
  BY <1>2, FragmentsOnly
<1>4. c.out \notin {<<CapsRequest>>, <<CapsRequest, Subscribe>>} /\ c.out # <<Subscribe>>
  BY <1>3 DEF Greetings
<1>5. CASE u.out = p.out
  BY <1>1, <1>2, <1>3, <1>4, <1>5 DEF HandshakeOK
<1>6. CASE \E x \in Item : IsFragment(x) /\ u.out = Append(p.out, x)
  <2>1. PICK x \in Item : IsFragment(x) /\ u.out = Append(p.out, x)
    BY <1>6
  <2>2. CASE p.out = <<>>
    <3>1. u.out = <<x>>
      BY <2>1, <2>2
    <3>2. u.out # <<>> /\ Tail(u.out) = <<>> /\ u.out[1] = x
      BY <3>1
    <3>3. AllFragments(Tail(u.out)) /\ IsFragment(u.out[1])
      BY <2>1, <3>2, FragmentsOnly
    <3>4. AllFragments(u.out)
      BY <2>1, <2>2, FragmentsOnly
    <3>5. c.state # "Connecting"
      BY <2>2 DEF HandshakeOK
    <3> QED BY <1>1, <1>2, <1>3, <1>4, <3>2, <3>3, <3>4, <3>5 DEF HandshakeOK
  <2>3. CASE p.out # <<>>
    <3>1. Tail(p.out) \in Seq(Item) /\ u.out # <<>> /\ u.out[1] = p.out[1]
          /\ Tail(u.out) = Append(Tail(p.out), x)
      BY <2>1, <2>3
    <3>2. AllFragments(Tail(p.out))
      BY <2>3 DEF HandshakeOK
    <3>3. AllFragments(Tail(u.out))
      BY <2>1, <3>1, <3>2, FragmentsOnly
    <3>4. AllFragments(p.out) => AllFragments(u.out)
      BY <2>1, FragmentsOnly
    <3> QED BY <1>1, <1>2, <1>3, <1>4, <2>3, <3>1, <3>3, <3>4 DEF HandshakeOK
  <2> QED BY <2>2, <2>3
<1> QED BY <1>5, <1>6 DEF SendsFragments

\* A fragment is received.
LEMMA HandshakeFromPeripheral ==
    ASSUME NEW c, NEW p, NEW w, HandshakeOK(c, p), p.out \in Seq(Item), p.out # <<>>,
           IsFragment(Head(p.out)), p.state \in State, p.state # "Closed",
           w.state = p.state, w.out = Tail(p.out)
    PROVE  HandshakeOK(c, w)
<1>1. Head(p.out) = p.out[1] /\ Tail(p.out) \in Seq(Item)
  OBVIOUS
<1>2. CapsResponse(TRUE).kind # "fragment" /\ CapsResponse(FALSE).kind # "fragment"
  BY DEF CapsResponse
<1>3. IsConnected(p)
  <2>1. p.state # "Ready" /\ p.state # "Connecting"
    BY DEF HandshakeOK
  <2>2. ASSUME p.state = "Aborting" PROVE FALSE
    <3>1. p.out = <<CapsResponse(FALSE)>>
      BY <2>2 DEF HandshakeOK
    <3>2. PICK x : x = CapsResponse(FALSE)
      OBVIOUS
    <3>3. Head(p.out) = x
      BY <3>1, <3>2
    <3> QED BY <1>2, <3>2, <3>3 DEF IsFragment
  <2> QED BY <2>1, <2>2 DEF IsConnected, State
<1>4. c.state # "Connecting"
  BY <1>1, <1>2, <1>3 DEF HandshakeOK, IsFragment
<1>5. IsConnected(w) /\ AllFragments(w.out) /\ AllFragments(c.out) /\ c.out \notin Greetings
  BY <1>3, FragmentsOnly DEF HandshakeOK, IsConnected
<1>6. c.out \notin {<<CapsRequest>>, <<CapsRequest, Subscribe>>} /\ c.out # <<Subscribe>>
  BY <1>5 DEF Greetings
<1>7. w.out # <<>> => AllFragments(Tail(w.out)) /\ IsFragment(w.out[1])
  <2>1. w.out # <<>> => Head(w.out) = w.out[1]
    BY <1>1
  <2> QED BY <1>1, <1>5, <2>1, FragmentsOnly
<1>8. w.state \notin {"Ready", "Connecting", "Aborting"}
  BY <1>5 DEF IsConnected
<1> QED BY <1>3, <1>4, <1>5, <1>6, <1>7, <1>8 DEF HandshakeOK

\* The same for a fragment of the central.
LEMMA HandshakeFromCentral ==
    ASSUME NEW c, NEW p, NEW w, HandshakeOK(c, p), c.out \in Seq(Item), c.out # <<>>,
           IsFragment(Head(c.out)), w.state = c.state, w.confRcvd = c.confRcvd, w.out = Tail(c.out)
    PROVE  HandshakeOK(w, p)
<1>1. AllFragments(c.out)
  BY FragmentsOnly DEF HandshakeOK
<1>2. c.out \notin Greetings
  BY FragmentsOnly
<1>3. IsConnected(p) \/ p.state = "Closed"
  BY <1>1 DEF HandshakeOK
<1>4. AllFragments(w.out) /\ w.out \in Seq(Item)
  BY <1>1, FragmentsOnly
<1>5. w.out \notin Greetings
  BY <1>4, FragmentsOnly
<1>6. w.out \notin {<<CapsRequest>>, <<CapsRequest, Subscribe>>} /\ w.out # <<Subscribe>>
  BY <1>5 DEF Greetings
<1>7. p.state \notin {"Ready", "Connecting", "Aborting"}
  BY <1>3 DEF IsConnected
<1>8. c.state # "Connecting" /\ c.state # "Ready"
  BY <1>2, <1>7 DEF HandshakeOK
<1>9. IsConnected(w) <=> IsConnected(c)
  BY DEF IsConnected
<1> QED BY <1>1, <1>2, <1>3, <1>4, <1>5, <1>6, <1>7, <1>8, <1>9 DEF HandshakeOK

-----------------------------------------------------------------------------
(* The invariant, seen from one end point.                                 *)

\* What an application was given stays right when more is sent, and when its
\* end point closes.
LEMMA GivenKeeps ==
    ASSUME NEW r, NEW e, NEW u, NEW G, NEW S, NEW T, SentOK(S), SentOK(T), Extends(S, T),
           GivenOK(r, e, G, S), e.state = "Closed" => u.state = "Closed"
    PROVE  GivenOK(r, u, G, T)
<1>1. Len(S) \in Nat /\ Len(T) \in Nat /\ Len(S) <= Len(T)
  BY DEF SentOK, Extends
<1>2. WholeAndSent(G, T)
  <2>1. ASSUME NEW i \in 1 .. Len(G) PROVE G[i].ok /\ G[i].id \in 1 .. Len(T)
    <3>1. G[i].ok /\ G[i].id \in 1 .. Len(S)
      BY DEF GivenOK, WholeAndSent
    <3> QED BY <1>1, <3>1
  <2> QED BY <2>1 DEF WholeAndSent
<1> QED BY <1>2 DEF GivenOK

\* Sending nothing extends what was sent.
LEMMA ExtendsItself ==
    ASSUME NEW S, SentOK(S)
    PROVE  Extends(S, S)
BY DEF SentOK, Extends

Shakes(r, e, d) == IF r = "central" THEN HandshakeOK(e, d) ELSE HandshakeOK(d, e)

\* End point e of r sent A and was given H; d of its peer sent B and was given K.
Pair(r, e, d, A, B, H, K) ==
    /\ RoleOK(r, e, A) /\ RoleOK(Peer(r), d, B)
    /\ Shakes(r, e, d)
    /\ Flow(e, A, d, K) /\ Flow(d, B, e, H)
    /\ GivenOK(r, e, H, B) /\ GivenOK(Peer(r), d, K, A)

PairAt(r, E, S, G) == Pair(r, E[r], E[Peer(r)], S[r], S[Peer(r)], G[r], G[Peer(r)])

\* There are two roles, each the peer of the other.
LEMMA PeerFacts ==
    ASSUME NEW r \in Roles
    PROVE  /\ Peer(r) \in Roles /\ Peer(r) # r /\ Peer(Peer(r)) = r /\ Roles = {r, Peer(r)}
           /\ r = "central" => Peer(r) = "peripheral"
           /\ r # "central" => r = "peripheral" /\ Peer(r) = "central"
BY DEF Roles, Peer

\* The invariant as seen from one of the roles.
LEMMA GoodIsPair ==
    ASSUME NEW r \in Roles, NEW E, NEW S, NEW G
    PROVE  Good(E, S, G) <=> PairAt(r, E, S, G)
<1>1. CASE r = "central"
  <2>1. Peer(r) = "peripheral" /\ Peer("peripheral") = r /\ Roles = {r, "peripheral"}
    BY <1>1 DEF Peer, Roles
  <2> QED BY <1>1, <2>1 DEF Good, PairAt, Pair, Shakes
<1>2. CASE r = "peripheral"
  <2>1. Peer(r) = "central" /\ Peer("central") = r /\ Roles = {r, "central"} /\ r # "central"
    BY <1>2 DEF Peer, Roles
  <2> QED BY <1>2, <2>1 DEF Good, PairAt, Pair, Shakes
<1> QED BY <1>1, <1>2 DEF Roles

\* A pair that is in order for one role gives the invariant back.
LEMMA Assemble ==
    ASSUME NEW r \in Roles, NEW E, NEW S, NEW G,
           DOMAIN E = Roles, E = [x \in Roles |-> E[x]],
           DOMAIN S = Roles, S = [x \in Roles |-> S[x]],
           DOMAIN G = Roles, G = [x \in Roles |-> G[x]],
           PairAt(r, E, S, G)
    PROVE  IInvOf(E, S, G)
<1>1. Good(E, S, G)
  BY GoodIsPair
<1>2. ASSUME NEW x \in Roles
      PROVE  E[x] \in EndPoint /\ S[x] \in Seq(Message) /\ G[x] \in Seq(Given)
  BY <1>1 DEF Good, RoleOK, SentOK, GivenOK
<1> QED BY <1>1, <1>2 DEF IInvOf

-----------------------------------------------------------------------------
(* What an end point does on its own.                                      *)

\* It closes.
LEMMA PairEnds ==
    ASSUME NEW r \in Roles, NEW e, NEW d, NEW A, NEW B, NEW H, NEW K, Pair(r, e, d, A, B, H, K),
           NEW u, Ended(r, e, u), r = "peripheral" => e.state # "Ready"
    PROVE  Pair(r, u, d, A, B, H, K)
<1>0. Over(r, e, u)
  BY DEF Ended
<1>1. RoleOK(r, u, A)
  BY <1>0, EndedRoleOK DEF Pair, RoleOK
<1>2. Shakes(r, u, d)
  <2>1. CASE r = "central"
    BY <2>1, HandshakeCentralEnds, <1>0 DEF Pair, Shakes
  <2>2. CASE r = "peripheral"
    BY <2>2, HandshakePeripheralEnds, <1>0 DEF Pair, Shakes
  <2> QED BY <2>1, <2>2 DEF Roles
<1>3. Flow(u, A, d, K)
  BY <1>0, FlowSenderEnds DEF Pair
<1>4. u.state = "Closed"
  BY DEF Ended, Over
<1>5. Flow(d, B, u, H)
  BY <1>4, FlowReceiverEnds DEF Pair
<1>6. SentOK(B) /\ Extends(B, B)
  BY ExtendsItself DEF Pair, RoleOK
<1>7. GivenOK(r, u, H, B)
  BY <1>4, <1>6, GivenKeeps DEF Pair
<1> QED BY <1>1, <1>2, <1>3, <1>5, <1>7 DEF Pair

\* It goes on, perhaps with more to send.
LEMMA PairGoes ==
    ASSUME NEW r \in Roles, NEW e, NEW d, NEW A, NEW B, NEW H, NEW K, Pair(r, e, d, A, B, H, K),
           NEW u, NEW T, RoleOK(r, u, T), Extends(A, T), IsConnected(e), IsConnected(u),
           Sends(e, A, u, T), SendsFragments(e, u),
           u.state = e.state \/ u.state = "Closing", u.rx = e.rx, u.rxNext = e.rxNext,
           r = "central" => u.confRcvd = e.confRcvd
    PROVE  Pair(r, u, d, T, B, H, K)
<1>1. e.state # "Closed" /\ u.state # "Closed"
  BY DEF IsConnected
<1>2. e.out \in Seq(Item)
  BY DEF Pair, RoleOK, EndPoint, EndPointWith
<1>3. Shakes(r, u, d)
  <2>1. CASE r = "central"
    BY <1>2, <2>1, HandshakeCentralGoes DEF Pair, Shakes
  <2>2. CASE r = "peripheral"
    BY <1>2, <2>2, HandshakePeripheralGoes DEF Pair, Shakes
  <2> QED BY <2>1, <2>2 DEF Roles
<1>4. Flow(u, T, d, K)
  BY <1>1, FlowSends DEF Pair
<1>5. Flow(d, B, u, H)
  BY <1>1, FlowReceiverKeeps DEF Pair
<1>6. SentOK(A) /\ SentOK(T) /\ SentOK(B) /\ Extends(B, B)
  BY ExtendsItself DEF Pair, RoleOK
<1>7. GivenOK(r, u, H, B)
  BY <1>1, <1>6, GivenKeeps DEF Pair
<1>8. GivenOK(Peer(r), d, K, T)
  BY <1>6, GivenKeeps DEF Pair
<1> QED BY <1>3, <1>4, <1>5, <1>7, <1>8 DEF Pair

\* It is driven by a handler that then settles.
LEMMA PairDriven ==
    ASSUME NEW r \in Roles, NEW e, NEW d, NEW A, NEW B, NEW H, NEW K, Pair(r, e, d, A, B, H, K),
           IsConnected(e), NEW t, Driven(r, e, t, A), NEW u, u = Settle(r, t)
    PROVE  Pair(r, u, d, A, B, H, K)
<1>1. e.state # "Closed" /\ e.state # "Ready"
  BY DEF IsConnected
<1>2. CASE Ended(r, e, u)
  BY <1>1, <1>2, PairEnds
<1>3. CASE Goes(r, e, u, A)
  <2>1. SentOK(A) /\ Extends(A, A)
    BY ExtendsItself DEF Pair, RoleOK
  <2>2. RoleOK(r, u, A)
    BY <1>3, <2>1, GoesRoleOK
  <2>3. IsConnected(u) /\ u.state = e.state /\ u.rx = e.rx /\ u.rxNext = e.rxNext /\ u.confRcvd = e.confRcvd
    BY <1>3 DEF Goes, IsConnected
  <2>4. Sends(e, A, u, A) /\ SendsFragments(e, u)
    <3>1. Emits(e, u, A) \/ Holds(e, u, A)
      BY <1>3 DEF Goes
    <3> QED BY <3>1 DEF Emits, Holds, Sends, SendsFragments
  <2> QED BY <2>1, <2>2, <2>3, <2>4, PairGoes
<1> QED BY <1>1, <1>2, <1>3, SettleDriven

\* An error of a handler closes it.
LEMMA PairFails ==
    ASSUME NEW r \in Roles, NEW e, NEW d, NEW A, NEW B, NEW H, NEW K, Pair(r, e, d, A, B, H, K),
           e.state \notin {"Ready", "Closed"} \/ (r = "central" /\ e.state # "Closed"),
           NEW t, t \in Draft, t.err # "none", Harmless(t.err), t.out = e.out, t.state # "Closed",
           t.rx = e.rx, NEW u, u = Settle(r, t)
    PROVE  Pair(r, u, d, A, B, H, K)
<1>1. Broken(t, t)
  BY DEF Broken
<1>2. Ended(r, t, u)
  BY <1>1, SettleBroken
<1>3. Ended(r, e, u)
  BY <1>2 DEF Ended, Over
<1> QED BY <1>3, PairEnds

\* A connected end point and what it keeps on its way to a handler.
LEMMA PairAdjusted ==
    ASSUME NEW r \in Roles, NEW e, NEW d, NEW A, NEW B, NEW H, NEW K, Pair(r, e, d, A, B, H, K),
           IsConnected(e), NEW T, SentOK(T), Extends(A, T), NEW x \in Draft, x.err = "none",
           Working(r, x, T), x.state = e.state \/ x.state = "Closing", x.out = e.out,
           TxPosition(x, T) = TxPosition(e, A), x.rx = e.rx, x.rxNext = e.rxNext,
           r = "central" => x.confRcvd = e.confRcvd
    PROVE  Pair(r, x, d, T, B, H, K) /\ Busy(r, x, T)
<1>1. IsConnected(x)
  BY DEF IsConnected
<1>2. x \in EndPoint
  BY DraftIsEndPoint
<1>3. RoleOK(r, x, T)
  <2>1. x.state \notin {"Ready", "Connecting", "Aborting", "Closed"} /\ Harmless(x.err)
    BY <1>1 DEF IsConnected, Harmless
  <2> QED BY <1>1, <1>2, <2>1 DEF RoleOK, EndPointOK
<1>4. Sends(e, A, x, T) /\ SendsFragments(e, x)
  BY DEF Sends, SendsFragments
<1> QED BY <1>1, <1>3, <1>4, PairGoes DEF Busy

\* A connected end point of a pair may drive sending.
LEMMA BusyInPair ==
    ASSUME NEW r \in Roles, NEW e, NEW d, NEW A, NEW B, NEW H, NEW K, Pair(r, e, d, A, B, H, K),
           IsConnected(e)
    PROVE  Busy(r, e, A) /\ Extends(A, A)
<1>1. RoleOK(r, e, A)
  BY DEF Pair
<1>2. e \in Draft
  BY <1>1, EndPointIsDraft DEF RoleOK
<1>3. e.err = "none" /\ Working(r, e, A)
  BY <1>1 DEF RoleOK, EndPointOK, IsConnected
<1> QED BY <1>1, <1>2, <1>3, ExtendsItself DEF Busy, RoleOK

-----------------------------------------------------------------------------
(* The handlers of a connected end point.                                  *)

Confirmed(e, y) == [e EXCEPT !.gatt = FALSE, !.ackToSend = y, !.ackFlight = FALSE]
HandshakeConfirmed(e) == [e EXCEPT !.gatt = FALSE, !.confRcvd = TRUE, !.queue = Tail(@)]
WithMessage(e, m) == [e EXCEPT !.queue = Append(@, m)]
WithoutTimer(e) == [e EXCEPT !.sendAck = FALSE]

\* HandleFragmentConfirmationReceived.
LEMMA FragmentConfirmed ==
    ASSUME NEW r \in Roles, NEW e, NEW d, NEW A, NEW B, NEW H, NEW K, Pair(r, e, d, A, B, H, K),
           IsConnected(e), e.confRcvd = TRUE, NEW ok \in BOOLEAN,
           NEW y \in BOOLEAN,
           NEW x, x = Confirmed(e, y),
           NEW t, t \in {DriveStandAloneAck(r, x, ok), DriveSending(r, x, ok)},
           NEW u, u = Settle(r, t)
    PROVE  Pair(r, u, d, A, B, H, K)
<1>1. Busy(r, e, A) /\ Extends(A, A)
  BY BusyInPair
<1>4. x \in Draft
  BY <1>1 DEF Busy, Draft, EndPointWith, Confirmed
<1>5. /\ Keeps(e, x) /\ x.out = e.out /\ x.txNext = e.txNext
      /\ x.expecting = e.expecting /\ x.ackRcv = e.ackRcv
  BY <1>1 DEF Busy, Keeps, Draft, EndPointWith, Confirmed
<1>6. Working(r, x, A) /\ TxPosition(x, A) = TxPosition(e, A)
  <2>1. Working(r, e, A)
    BY <1>1 DEF Busy
  <2> QED BY <1>5, <2>1 DEF Working, Keeps, QueueOK, FragmenterOK, TxPosition, Popped
<1>7. Pair(r, x, d, A, B, H, K) /\ Busy(r, x, A)
  <2>1. SentOK(A) /\ x.err = "none" /\ x.state = e.state /\ x.rx = e.rx /\ x.rxNext = e.rxNext
        /\ x.confRcvd = e.confRcvd
    BY <1>1, <1>5 DEF Busy, Keeps
  <2> QED BY <1>1, <1>4, <1>5, <1>6, <2>1, PairAdjusted
<1>8. Driven(r, x, t, A)
  BY <1>7, DriveSendingOK, DriveStandAloneAckOK
<1> QED BY <1>7, <1>8, PairDriven DEF Busy

\* HandleSendAckTimeout.
LEMMA SendAckTimedOut ==
    ASSUME NEW r \in Roles, NEW e, NEW d, NEW A, NEW B, NEW H, NEW K, Pair(r, e, d, A, B, H, K),
           IsConnected(e), NEW ok \in BOOLEAN,
           NEW x, x = WithoutTimer(e),
           NEW t, t \in {x, DriveStandAloneAck(r, x, ok)},
           NEW u, u = Settle(r, t)
    PROVE  Pair(r, u, d, A, B, H, K)
<1>1. Busy(r, e, A) /\ Extends(A, A)
  BY BusyInPair
<1>2. x \in Draft
  BY <1>1 DEF Busy, Draft, EndPointWith, WithoutTimer
<1>3. /\ Keeps(e, x) /\ x.out = e.out /\ x.txNext = e.txNext /\ x.gatt = e.gatt
      /\ x.expecting = e.expecting /\ x.ackRcv = e.ackRcv
  BY <1>1 DEF Busy, Keeps, Draft, EndPointWith, WithoutTimer
<1>4. Working(r, x, A) /\ TxPosition(x, A) = TxPosition(e, A)
  <2>1. Working(r, e, A)
    BY <1>1 DEF Busy
  <2> QED BY <1>3, <2>1 DEF Working, Keeps, QueueOK, FragmenterOK, TxPosition, Popped
<1>5. Pair(r, x, d, A, B, H, K) /\ Busy(r, x, A)
  BY <1>1, <1>2, <1>3, <1>4, PairAdjusted DEF Busy, Keeps
<1>6. Goes(r, x, x, A)
  BY <1>5 DEF Goes, Busy, Holds
<1>7. Driven(r, x, t, A)
  BY <1>5, <1>6, DriveStandAloneAckOK DEF Driven
<1> QED BY <1>5, <1>7, PairDriven DEF Busy

\* HandleHandshakeConfirmationReceived on a connected peripheral.
LEMMA HandshakeConfirmedToPeripheral ==
    ASSUME NEW r \in Roles, r = "peripheral", NEW e, NEW d, NEW A, NEW B, NEW H, NEW K,
           Pair(r, e, d, A, B, H, K), IsConnected(e), ~e.confRcvd, NEW ok \in BOOLEAN,
           NEW x, x = HandshakeConfirmed(e),
           NEW t, t \in {DriveStandAloneAck(r, x, ok), DriveSending(r, x, ok)},
           NEW u, u = Settle(r, t)
    PROVE  Pair(r, u, d, A, B, H, K)
<1>1. Busy(r, e, A) /\ Extends(A, A)
  BY BusyInPair
<1>2. Working(r, e, A) /\ SentOK(A) /\ e.queue \in Seq(Message)
  BY <1>1 DEF Busy, Draft, EndPointWith
<1>3. Len(A) \in Nat /\ Len(e.queue) = Len(A) + 1
      /\ \A i \in 1 .. Len(e.queue) : i > 1 => e.queue[i] = A[Len(A) - Len(e.queue) + i]
  <2>1. QueueOK(e, A) /\ A \in Seq(Message)
    BY <1>2 DEF Working, SentOK
  <2>2. Len(A) \in Nat
    BY <2>1
  <2>3. Len(e.queue) = Len(A) + 1
    BY <2>1 DEF QueueOK
  <2>4. ASSUME NEW i \in 1 .. Len(e.queue), i > 1 PROVE e.queue[i] = A[Len(A) - Len(e.queue) + i]
    BY <2>1, <2>4 DEF QueueOK
  <2> QED BY <2>2, <2>3, <2>4
<1>4. PICK q : q = Tail(e.queue)
  OBVIOUS
<1>5. q \in Seq(Message) /\ Len(q) = Len(A) /\ \A i \in 1 .. Len(q) : q[i] = e.queue[i + 1]
  BY <1>2, <1>3, <1>4
<1>6. x = [e EXCEPT !.gatt = FALSE, !.confRcvd = TRUE, !.queue = q]
  BY <1>4 DEF HandshakeConfirmed
<1>7. x \in Draft
  BY <1>1, <1>5, <1>6 DEF Busy, Draft, EndPointWith
<1>8. /\ x.state = e.state /\ x.queue = q /\ x.confRcvd = TRUE /\ x.tx = e.tx /\ x.msg = e.msg /\ x.part = e.part
      /\ x.rx = e.rx /\ x.rxNext = e.rxNext /\ x.err = e.err /\ x.out = e.out /\ x.txNext = e.txNext
      /\ x.expecting = e.expecting /\ x.ackRcv = e.ackRcv
  BY <1>1, <1>6 DEF Busy, Draft, EndPointWith
<1>9. e.tx = "Idle" /\ e.msg = NoMsg /\ e.part = 0
  BY <1>2 DEF Working, FragmenterOK
<1>10. QueueOK(x, A)
  <2>1. ASSUME NEW i \in 1 .. Len(q) PROVE q[i] = A[Len(A) - Len(q) + i]
    <3>1. i + 1 \in 1 .. Len(e.queue) /\ i + 1 > 1 /\ Len(A) - Len(e.queue) + (i + 1) = Len(A) - Len(q) + i
      BY <1>3, <1>5
    <3> QED BY <1>3, <1>5, <3>1
  <2>2. Len(q) <= Len(A)
    BY <1>3, <1>5
  <2> QED BY <1>8, <2>1, <2>2 DEF QueueOK
<1>11. TxPosition(x, A) = TxPosition(e, A)
  <2>1. Popped(x, A) = 0 /\ Popped(e, A) = 0
    BY <1>3, <1>5, <1>8 DEF Popped
  <2> QED BY <1>8, <1>9, <2>1 DEF TxPosition
<1>12. Working(r, x, A)
  <2>1. FragmenterOK(x, A)
    BY <1>8, <1>9 DEF FragmenterOK
  <2> QED BY <1>2, <1>8, <1>10, <2>1 DEF Working
<1>13. Pair(r, x, d, A, B, H, K) /\ Busy(r, x, A)
  <2>1. SentOK(A) /\ x.err = "none" /\ r # "central"
    BY <1>1, <1>8 DEF Busy
  <2> QED BY <1>1, <1>7, <1>8, <1>11, <1>12, <2>1, PairAdjusted
<1>14. Driven(r, x, t, A)
  BY <1>13, DriveSendingOK, DriveStandAloneAckOK
<1> QED BY <1>13, <1>14, PairDriven DEF Busy

\* Send: the message joins both the history and the queue.
LEMMA MessageSent ==
    ASSUME NEW r \in Roles, NEW e, NEW d, NEW A, NEW B, NEW H, NEW K, Pair(r, e, d, A, B, H, K),
           IsConnected(e), NEW n \in Nat \ {0}, NEW ok \in BOOLEAN,
           NEW m, m = [id |-> Len(A) + 1, size |-> n],
           NEW x, x = WithMessage(e, m),
           NEW t, t = DriveSending(r, x, ok),
           NEW u, u = Settle(r, t)
    PROVE  Pair(r, u, d, Append(A, m), B, H, K)
<1>1. Busy(r, e, A)
  BY BusyInPair
<1>2. Working(r, e, A) /\ SentOK(A) /\ A \in Seq(Message) /\ e.queue \in Seq(Message) /\ e.confRcvd \in BOOLEAN
  BY <1>1 DEF Busy, Draft, EndPointWith, SentOK
<1>3. PICK T : T = Append(A, m)
  OBVIOUS
<1>4. PICK q : q = Append(e.queue, m)
  OBVIOUS
<1>5. m \in Message /\ Len(A) \in Nat /\ Len(e.queue) \in Nat
  <2>1. Len(A) \in Nat /\ Len(A) + 1 \in Nat
    BY <1>2
  <2> QED BY <1>2, <2>1 DEF Message
<1>6. T \in Seq(Message) /\ Len(T) = Len(A) + 1 /\ T[Len(A) + 1] = m /\ \A i \in 1 .. Len(A) : T[i] = A[i]
  BY <1>2, <1>3, <1>5
<1>7. q \in Seq(Message) /\ Len(q) = Len(e.queue) + 1 /\ q[Len(e.queue) + 1] = m
      /\ \A i \in 1 .. Len(e.queue) : q[i] = e.queue[i]
  BY <1>2, <1>4, <1>5
<1>8. SentOK(T)
  <2>1. ASSUME NEW i \in 1 .. Len(T) PROVE T[i].id = i /\ T[i].size \in Nat \ {0}
    <3>1. CASE i \in 1 .. Len(A)
      BY <1>2, <1>6, <3>1 DEF SentOK
    <3>2. CASE i = Len(A) + 1
      BY <1>6, <3>2
    <3> QED BY <1>5, <1>6, <3>1, <3>2
  <2> QED BY <1>6, <2>1 DEF SentOK
<1>9. Extends(A, T)
  BY <1>5, <1>6 DEF Extends
<1>10. x = [e EXCEPT !.queue = q]
  BY <1>4 DEF WithMessage
<1>11. x \in Draft
  BY <1>1, <1>7, <1>10 DEF Busy, Draft, EndPointWith
<1>12. /\ x.state = e.state /\ x.queue = q /\ x.confRcvd = e.confRcvd /\ x.tx = e.tx /\ x.msg = e.msg
       /\ x.part = e.part /\ x.gatt = e.gatt
       /\ x.rx = e.rx /\ x.rxNext = e.rxNext /\ x.err = e.err /\ x.out = e.out /\ x.txNext = e.txNext
       /\ x.expecting = e.expecting /\ x.ackRcv = e.ackRcv
  BY <1>1, <1>10 DEF Busy, Draft, EndPointWith
<1>13. Len(T) - Len(q) = Len(A) - Len(e.queue)
  BY <1>5, <1>6, <1>7
<1>14. QueueOK(x, T)
  <2>1. (e.confRcvd => Len(q) <= Len(T)) /\ (~e.confRcvd => Len(q) = Len(T) + 1)
    <3>1. (e.confRcvd => Len(e.queue) <= Len(A)) /\ (~e.confRcvd => Len(e.queue) = Len(A) + 1)
      BY <1>2 DEF Working, QueueOK
    <3> QED BY <1>5, <1>6, <1>7, <3>1
  <2>2. ASSUME NEW i \in 1 .. Len(q), e.confRcvd \/ i > 1 PROVE q[i] = T[Len(T) - Len(q) + i]
    <3>1. CASE i \in 1 .. Len(e.queue)
      <4>1. q[i] = A[Len(A) - Len(e.queue) + i]
        BY <1>2, <1>7, <2>2, <3>1 DEF Working, QueueOK
      <4>2. Len(A) - Len(e.queue) + i \in 1 .. Len(A)
        <5>1. (e.confRcvd => Len(e.queue) <= Len(A)) /\ (~e.confRcvd => Len(e.queue) = Len(A) + 1)
          BY <1>2 DEF Working, QueueOK
        <5> QED BY <1>2, <1>5, <2>2, <3>1, <5>1
      <4> QED BY <1>6, <1>13, <4>1, <4>2
    <3>2. CASE i = Len(e.queue) + 1
      <4>1. Len(T) - Len(q) + i = Len(A) + 1
        BY <1>5, <1>13, <3>2
      <4> QED BY <1>6, <1>7, <3>2, <4>1
    <3> QED BY <1>5, <1>7, <3>1, <3>2
  <2> QED BY <1>12, <2>1, <2>2 DEF QueueOK
<1>15. FragmenterOK(x, T)
  <2>1. FragmenterOK(e, A)
    BY <1>2 DEF Working
  <2>2. CASE e.tx = "Idle"
    BY <1>12, <2>1, <2>2 DEF FragmenterOK
  <2>3. CASE e.tx # "Idle"
    <3>1. Len(e.queue) < Len(A) /\ e.msg = A[Len(A) - Len(e.queue)]
      BY <2>1, <2>3 DEF FragmenterOK
    <3>2. Len(q) < Len(T) /\ Len(A) - Len(e.queue) \in 1 .. Len(A)
      BY <1>5, <1>6, <1>7, <3>1
    <3>3. e.msg = T[Len(T) - Len(q)]
      BY <1>6, <1>13, <3>1, <3>2
    <3> QED BY <1>12, <2>1, <2>3, <3>2, <3>3 DEF FragmenterOK
  <2> QED BY <2>2, <2>3
<1>16. TxPosition(x, T) = TxPosition(e, A)
  <2>1. Popped(x, T) = Popped(e, A)
    BY <1>12, <1>13 DEF Popped
  <2> QED BY <1>12, <2>1 DEF TxPosition
<1>17. Working(r, x, T)
  BY <1>2, <1>12, <1>14, <1>15 DEF Working
<1>18. Pair(r, x, d, T, B, H, K) /\ Busy(r, x, T)
  BY <1>1, <1>8, <1>9, <1>11, <1>12, <1>16, <1>17, PairAdjusted DEF Busy
<1>19. Driven(r, x, t, T)
  BY <1>18, DriveSendingOK
<1> QED BY <1>3, <1>18, <1>19, PairDriven DEF Busy

\* The fields that make an end point a working one.
LEMMA SameWorking ==
    ASSUME NEW r, NEW e, NEW x, NEW S, Working(r, e, S),
           x.queue = e.queue, x.confRcvd = e.confRcvd, x.tx = e.tx, x.msg = e.msg, x.part = e.part,
           x.gatt = e.gatt, x.expecting = e.expecting, x.ackRcv = e.ackRcv,
           x.state = e.state \/ r \in Closers
    PROVE  Working(r, x, S)
<1>1. QueueOK(x, S)
  BY DEF Working, QueueOK
<1>2. FragmenterOK(x, S)
  BY DEF Working, FragmenterOK
<1> QED BY <1>1, <1>2 DEF Working

\* A graceful close ends at once or waits for what is under way.
LEMMA ClosedByApplication ==
    ASSUME NEW r \in Roles, NEW e, NEW d, NEW A, NEW B, NEW H, NEW K, Pair(r, e, d, A, B, H, K),
           e.state = "Connected", r \in Closers, NEW u, u = DoClose(r, e, FALSE, "app_closed")
    PROVE  Pair(r, u, d, A, B, H, K)
<1>1. IsConnected(e)
  BY DEF IsConnected
<1>2. Busy(r, e, A) /\ Extends(A, A)
  BY <1>1, BusyInPair
<1>3. e \in Draft /\ e.err = "none" /\ SentOK(A) /\ Working(r, e, A)
  BY <1>2 DEF Busy
<1>4. PICK x : x = [e EXCEPT !.hsTimer = FALSE]
  OBVIOUS
<1>5. x \in Draft
  BY <1>3, <1>4 DEF Draft, EndPointWith
<1>6. /\ Keeps(e, x) /\ x.out = e.out /\ x.txNext = e.txNext /\ x.gatt = e.gatt
      /\ x.expecting = e.expecting /\ x.ackRcv = e.ackRcv
  BY <1>3, <1>4 DEF Keeps, Draft, EndPointWith
<1>7. CASE e.tx = "Idle"
  <2>1. u = FinalizeClose(r, x, "app_closed")
    BY <1>4, <1>7 DEF DoClose
  <2>2. "app_closed" \in Errors /\ "app_closed" # "none" /\ Harmless("app_closed")
    BY DEF Errors, Harmless
  <2>3. Ended(r, x, u)
    BY <1>5, <2>1, <2>2, FinalizeEnds
  <2>4. Ended(r, e, u)
    BY <1>6, <2>3 DEF Ended, Over, Keeps
  <2> QED BY <2>4, PairEnds
<1>8. CASE e.tx # "Idle"
  <2>1. u = [x EXCEPT !.state = "Closing"]
    BY <1>4, <1>8 DEF DoClose
  <2>2. "Closing" \in State
    BY DEF State
  <2>3. u \in Draft
    BY <1>5, <2>1, <2>2 DEF Draft, EndPointWith
  <2>4. /\ u.state = "Closing" /\ u.queue = e.queue /\ u.confRcvd = e.confRcvd /\ u.tx = e.tx /\ u.msg = e.msg
        /\ u.part = e.part /\ u.rx = e.rx /\ u.rxNext = e.rxNext /\ u.err = e.err
        /\ u.out = e.out /\ u.txNext = e.txNext /\ u.gatt = e.gatt
        /\ u.expecting = e.expecting /\ u.ackRcv = e.ackRcv
    BY <1>5, <1>6, <2>1 DEF Keeps, Draft, EndPointWith
  <2>5. Working(r, u, A) /\ TxPosition(u, A) = TxPosition(e, A)
    BY <1>3, <2>4, SameWorking DEF TxPosition, Popped
  <2> QED BY <1>1, <1>2, <1>3, <2>3, <2>4, <2>5, PairAdjusted
<1> QED BY <1>7, <1>8

\* The connection is gone.
LEMMA Disconnected ==
    ASSUME NEW r \in Roles, NEW e, NEW d, NEW A, NEW B, NEW H, NEW K, Pair(r, e, d, A, B, H, K),
           e.state \notin {"Ready", "Closed"}, NEW u, u = DoClose(r, e, TRUE, "disconnected")
    PROVE  Pair(r, u, d, A, B, H, K)
<1>1. e \in Draft
  BY EndPointIsDraft DEF Pair, RoleOK
<1>2. PICK x : x = [e EXCEPT !.hsTimer = FALSE]
  OBVIOUS
<1>3. x \in Draft
  BY <1>1, <1>2 DEF Draft, EndPointWith
<1>4. x.out = e.out /\ x.rx = e.rx
  BY <1>1, <1>2 DEF Draft, EndPointWith
<1>5. u = FinalizeClose(r, x, "disconnected")
  BY <1>2 DEF DoClose
<1>6. "disconnected" \in Errors /\ "disconnected" # "none" /\ Harmless("disconnected")
  BY DEF Errors, Harmless
<1>7. Ended(r, x, u)
  BY <1>3, <1>5, <1>6, FinalizeEnds
<1>8. Ended(r, e, u)
  BY <1>4, <1>7 DEF Ended, Over
<1> QED BY <1>8, PairEnds

-----------------------------------------------------------------------------
(* The handshake.                                                          *)

\* Pair, but for what the handshake has under way.
Rest(r, e, d, A, B, H, K) ==
    /\ RoleOK(r, e, A) /\ RoleOK(Peer(r), d, B)
    /\ Flow(e, A, d, K) /\ Flow(d, B, e, H)
    /\ GivenOK(r, e, H, B) /\ GivenOK(Peer(r), d, K, A)

\* A handshake step of one role keeps everything but the handshake itself.
LEMMA RestMoves ==
    ASSUME NEW r \in Roles, NEW e, NEW d, NEW A, NEW B, NEW H, NEW K, Rest(r, e, d, A, B, H, K),
           NEW u, RoleOK(r, u, A), e.state \notin {"Closed", "Closing"}, u.state # "Closed",
           Sends(e, A, u, A), u.rx = e.rx, u.rxNext = e.rxNext
    PROVE  Rest(r, u, d, A, B, H, K)
<1>1. SentOK(A) /\ SentOK(B) /\ Extends(A, A) /\ Extends(B, B)
  BY ExtendsItself DEF Rest, RoleOK
<1>2. Flow(u, A, d, K)
  BY <1>1, FlowSends DEF Rest
<1>3. Flow(d, B, u, H)
  BY FlowReceiverKeeps DEF Rest
<1>4. GivenOK(r, u, H, B)
  BY <1>1, GivenKeeps DEF Rest
<1> QED BY <1>2, <1>3, <1>4 DEF Rest

\* The peer, without the item it had under way.
Taken(d) == [d EXCEPT !.out = Tail(@)]

\* Its peer taking an item changes nothing else of an end point.
LEMMA TakenOK ==
    ASSUME NEW r \in Roles, NEW d, NEW B, RoleOK(r, d, B), d.out # <<>>, NEW w, w = Taken(d)
    PROVE  /\ RoleOK(r, w, B) /\ w.out = Tail(d.out) /\ w.state = d.state /\ w.confRcvd = d.confRcvd
           /\ TxPosition(w, B) = TxPosition(d, B) /\ w.rx = d.rx /\ w.rxNext = d.rxNext
           /\ d.out \in Seq(Item) /\ w.out \in Seq(Item)
<1>1. d \in EndPoint /\ (d.state = "Closed") = (d.err # "none") /\ Harmless(d.err) /\ SentOK(B) /\ EndPointOK(r, d, B)
  BY DEF RoleOK
<1>2. d.out \in Seq(Item)
  BY <1>1 DEF EndPoint, EndPointWith
<1>3. PICK o : o = Tail(d.out)
  OBVIOUS
<1>4. o \in Seq(Item)
  BY <1>2, <1>3
<1>5. w = [d EXCEPT !.out = o]
  BY <1>3 DEF Taken
<1>6. w \in EndPoint
  BY <1>1, <1>4, <1>5 DEF EndPoint, EndPointWith
<1>7. /\ w.out = o /\ w.state = d.state /\ w.confRcvd = d.confRcvd /\ w.rx = d.rx /\ w.rxNext = d.rxNext
      /\ w.queue = d.queue /\ w.tx = d.tx /\ w.msg = d.msg /\ w.part = d.part /\ w.txNext = d.txNext
      /\ w.expecting = d.expecting /\ w.ackRcv = d.ackRcv /\ w.gatt = d.gatt /\ w.err = d.err
      /\ w.sendAck = d.sendAck /\ w.rwin = d.rwin /\ w.sub = d.sub /\ w.hsTimer = d.hsTimer
  BY <1>1, <1>5 DEF EndPoint, EndPointWith
<1>8. TxPosition(w, B) = TxPosition(d, B)
  BY <1>7 DEF TxPosition, Popped
<1>9. d.state # "Ready"
  BY <1>1 DEF EndPointOK, InitEndPoint
<1>10. d.state \in {"Connecting", "Aborting"} => Starting(r, w, B)
  BY <1>1, <1>7 DEF EndPointOK, Starting
<1>11. IsConnected(d) => Working(r, w, B)
  BY <1>1, <1>7, SameWorking DEF EndPointOK
<1>12. IsConnected(w) <=> IsConnected(d)
  BY <1>7 DEF IsConnected
<1>13. EndPointOK(r, w, B)
  BY <1>1, <1>7, <1>9, <1>10, <1>11, <1>12 DEF EndPointOK
<1> QED BY <1>1, <1>2, <1>3, <1>4, <1>6, <1>7, <1>8, <1>13 DEF RoleOK

\* An item of the handshake is taken.
LEMMA RestTakes ==
    ASSUME NEW r \in Roles, NEW e, NEW d, NEW A, NEW B, NEW H, NEW K, Rest(r, e, d, A, B, H, K),
           d.out # <<>>, ~IsFragment(Head(d.out)), NEW w, w = Taken(d)
    PROVE  Rest(r, e, w, A, B, H, K)
<1>1. Peer(r) \in Roles
  BY PeerFacts
<1>2. /\ RoleOK(Peer(r), w, B) /\ w.out = Tail(d.out) /\ w.state = d.state /\ d.out \in Seq(Item)
      /\ TxPosition(w, B) = TxPosition(d, B) /\ w.rx = d.rx /\ w.rxNext = d.rxNext
  BY <1>1, TakenOK DEF Rest
<1>3. Flow(w, B, e, H)
  <2>1. ASSUME NEW a \in Position, NEW c \in Position, Link(a, Head(d.out), c),
               e.state # "Closed" => Reached(e, a, H), e.state # "Closed"
        PROVE  Reached(e, c, H)
    BY <2>1 DEF Link
  <2> QED BY <1>2, <2>1, FlowTakes DEF Rest
<1>4. Flow(e, A, w, K)
  <2>1. CASE d.state = "Closed"
    BY <1>2, <2>1, FlowReceiverEnds DEF Rest
  <2>2. CASE d.state # "Closed"
    BY <1>2, <2>2, FlowReceiverKeeps DEF Rest
  <2> QED BY <2>1, <2>2
<1>5. GivenOK(Peer(r), w, K, A)
  <2>1. SentOK(A) /\ Extends(A, A)
    BY ExtendsItself DEF Rest, RoleOK
  <2> QED BY <1>2, <2>1, GivenKeeps DEF Rest
<1> QED BY <1>2, <1>3, <1>4, <1>5 DEF Rest

\* The items of the handshake are told apart by their kinds.
LEMMA ItemFacts ==
    /\ CapsRequest \in Item /\ Subscribe \in Item /\ CapsRequest # Subscribe
    /\ CapsRequest.kind = "caps_request" /\ Subscribe.kind = "subscribe"
    /\ \A ok \in BOOLEAN : /\ CapsResponse(ok) \in Item /\ CapsResponse(ok).kind = "caps_response"
                           /\ CapsResponse(ok).ok = ok
<1>1. CapsRequest.kind = "caps_request" /\ Subscribe.kind = "subscribe"
  BY DEF CapsRequest, Subscribe
<1>2. CapsRequest \in Item /\ Subscribe \in Item
  BY DEF Item
<1>3. ASSUME NEW ok \in BOOLEAN
      PROVE  CapsResponse(ok) \in Item /\ CapsResponse(ok).kind = "caps_response" /\ CapsResponse(ok).ok = ok
  <2>1. PICK x : x = CapsResponse(ok)
    OBVIOUS
  <2>2. x = [kind |-> "caps_response", ok |-> ok]
    BY <2>1 DEF CapsResponse
  <2>3. x \in [kind : {"caps_response"}, ok : BOOLEAN]
    BY <2>2
  <2>4. x.kind = "caps_response" /\ x.ok = ok
    BY <2>2
  <2> QED BY <2>1, <2>3, <2>4 DEF Item
<1> QED BY <1>1, <1>2, <1>3

\* What Append does, for the queues of items.
LEMMA AppendFacts ==
    ASSUME NEW q \in Seq(Item), NEW s \in Item, NEW a, a = Append(q, s)
    PROVE  /\ a \in Seq(Item) /\ Len(a) = Len(q) + 1 /\ a[Len(q) + 1] = s
           /\ \A i \in 1 .. Len(q) : a[i] = q[i]
OBVIOUS

\* What sending and taking do to the queue of the central in the handshake.
LEMMA GreetingFacts ==
    /\ Append(<<>>, CapsRequest) = <<CapsRequest>> /\ Append(<<>>, Subscribe) = <<Subscribe>>
    /\ Append(<<CapsRequest>>, Subscribe) = <<CapsRequest, Subscribe>>
    /\ Tail(<<CapsRequest>>) = <<>> /\ Tail(<<Subscribe>>) = <<>>
    /\ Tail(<<CapsRequest, Subscribe>>) = <<Subscribe>>
    /\ Head(<<CapsRequest>>) = CapsRequest /\ Head(<<Subscribe>>) = Subscribe
    /\ Head(<<CapsRequest, Subscribe>>) = CapsRequest
    /\ <<CapsRequest>> # <<Subscribe>> /\ <<CapsRequest, Subscribe>> # <<Subscribe>>
<1>1. PICK c, s : c = CapsRequest /\ s = Subscribe
  OBVIOUS
<1>2. c # s
  BY <1>1, ItemFacts
<1>3. /\ Append(<<>>, c) = <<c>> /\ Append(<<>>, s) = <<s>> /\ Append(<<c>>, s) = <<c, s>>
      /\ Tail(<<c>>) = <<>> /\ Tail(<<s>>) = <<>> /\ Tail(<<c, s>>) = <<s>>
      /\ Head(<<c>>) = c /\ Head(<<s>>) = s /\ Head(<<c, s>>) = c
  <2>1. Append(<<>>, c) = <<c>> /\ Append(<<>>, s) = <<s>>
    OBVIOUS
  <2>2. Append(<<c>>, s) = <<c, s>>
    <3>1. PICK q : q = <<c>>
      OBVIOUS
    <3>2. c \in Item /\ s \in Item /\ q \in Seq(Item) /\ Len(q) = 1 /\ q[1] = c
      BY <1>1, <3>1, ItemFacts
    <3>3. PICK a : a = Append(q, s)
      OBVIOUS
    <3>4. a \in Seq(Item) /\ Len(a) = 2 /\ a[1] = c /\ a[2] = s
      <4>1. PICK n : n = Len(q)
        OBVIOUS
      <4>2. a \in Seq(Item) /\ Len(a) = n + 1 /\ a[n + 1] = s /\ \A i \in 1 .. n : a[i] = q[i]
        BY <3>2, <3>3, <4>1, AppendFacts
      <4>3. n = 1 /\ 1 \in 1 .. n /\ n + 1 = 2
        BY <3>2, <4>1
      <4> QED BY <3>2, <4>2, <4>3
    <3>5. a = <<c, s>>
      BY <3>4
    <3> QED BY <3>1, <3>3, <3>5
  <2>3. Tail(<<c>>) = <<>> /\ Tail(<<s>>) = <<>>
    OBVIOUS
  <2>4. Tail(<<c, s>>) = <<s>>
    OBVIOUS
  <2>5. Head(<<c>>) = c /\ Head(<<s>>) = s /\ Head(<<c, s>>) = c
    OBVIOUS
  <2> QED BY <2>1, <2>2, <2>3, <2>4, <2>5
<1>4. <<c>> # <<s>> /\ <<c, s>> # <<s>>
  BY <1>2, <1>3
<1> QED BY <1>1, <1>3, <1>4

Connecting(e) == [e EXCEPT !.state = "Connecting", !.hsTimer = TRUE, !.gatt = TRUE]
Requesting(e) == [e EXCEPT !.out = Append(@, CapsRequest), !.queue = <<NoMsg>>]

\* StartConnect: the central is in its handshake, and the peripheral is ready.
LEMMA ConnectStarted ==
    ASSUME NEW e, NEW d, NEW A, NEW B, NEW H, NEW K, Pair("central", e, d, A, B, H, K),
           e.state = "Ready", NEW x, x = Connecting(e),
           NEW t, t = Requesting(x) \/ t = Fail(x, "gatt_failed"),
           NEW u, u = Settle("central", t)
    PROVE  Pair("central", u, d, A, B, H, K)
<1>1. e = InitEndPoint("central") /\ A = <<>> /\ e \in Draft /\ RoleOK("central", e, A)
  BY EndPointIsDraft DEF Pair, RoleOK, EndPointOK
<1>2. "Connecting" \in State /\ "central" \in Roles
  BY DEF State, Roles
<1>3. x \in Draft
  BY <1>1, <1>2 DEF Connecting, Draft, EndPointWith
<1>4. /\ x.state = "Connecting" /\ x.out = e.out /\ x.rx = e.rx /\ x.rxNext = e.rxNext /\ x.txNext = e.txNext
      /\ x.tx = e.tx /\ x.msg = e.msg /\ x.part = e.part /\ x.sendAck = e.sendAck /\ x.rwin = e.rwin
      /\ x.expecting = e.expecting /\ x.confRcvd = e.confRcvd /\ x.sub = e.sub /\ x.err = e.err
  BY <1>1 DEF Connecting, Draft, EndPointWith
<1>5. /\ e.out = <<>> /\ e.rx = <<>> /\ e.tx = "Idle" /\ e.msg = NoMsg /\ e.part = 0 /\ ~e.sendAck
      /\ e.rwin = 0 /\ ~e.expecting /\ e.confRcvd = FALSE /\ e.sub = "none" /\ e.err = "none"
  BY <1>1 DEF InitEndPoint
<1>6. CASE t = Fail(x, "gatt_failed")
  <2>1. "gatt_failed" \in Errors /\ Harmless("gatt_failed")
    BY DEF Errors, Harmless
  <2>2. t \in Draft
    BY <1>3, <1>6, <2>1 DEF Fail, Draft, EndPointWith
  <2>3. t.err = "gatt_failed" /\ t.out = x.out /\ t.rx = x.rx /\ t.state = x.state
    BY <1>3, <1>6 DEF Fail, Draft, EndPointWith
  <2> QED BY <1>2, <1>4, <2>1, <2>2, <2>3, PairFails
<1>7. CASE t = Requesting(x)
  <2>1. PICK o : o = <<CapsRequest>>
    OBVIOUS
  <2>2. Append(x.out, CapsRequest) = o
    BY <1>4, <1>5, <2>1, GreetingFacts
  <2>3. CapsRequest \in Item /\ o \in Seq(Item) /\ o \in Greetings /\ o # <<>> /\ ~AllFragments(o)
    BY <2>1, ItemFacts, FragmentsOnly DEF Greetings
  <2>4. PICK q : q = <<NoMsg>>
    OBVIOUS
  <2>5. NoMsg \in Message /\ q \in Seq(Message)
    BY <2>4 DEF NoMsg, Message
  <2>6. t = [x EXCEPT !.out = o, !.queue = q]
    BY <1>7, <2>2, <2>4 DEF Requesting
  <2>7. t \in Draft
    BY <1>3, <2>3, <2>5, <2>6 DEF Draft, EndPointWith
  <2>8. /\ t.state = "Connecting" /\ t.out = o /\ t.queue = q /\ t.rx = <<>> /\ t.rxNext = e.rxNext
        /\ t.txNext = e.txNext /\ t.tx = "Idle" /\ t.msg = NoMsg /\ t.part = 0 /\ ~t.sendAck /\ t.rwin = 0
        /\ ~t.expecting /\ t.confRcvd = FALSE /\ t.sub = "none" /\ t.err = "none"
    BY <1>3, <1>4, <1>5, <2>6 DEF Draft, EndPointWith
  <2>9. u = t /\ u \in EndPoint
    BY <2>7, <2>8, DraftIsEndPoint DEF Settle
  <2>10. Starting("central", u, A)
    BY <1>1, <2>4, <2>8, <2>9 DEF Starting
  <2>11. RoleOK("central", u, A)
    BY <1>1, <2>8, <2>9, <2>10 DEF RoleOK, EndPointOK, IsConnected, Harmless
  <2>12. Sends(e, A, u, A)
    <3>1. TxPosition(u, A) = TxPosition(e, A)
      BY <1>5, <2>8, <2>9 DEF TxPosition, Popped
    <3>2. ~IsFragment(CapsRequest)
      BY ItemFacts DEF IsFragment
    <3> QED BY <1>4, <2>2, <2>3, <2>8, <2>9, <3>1, <3>2 DEF Sends, Link
  <2>13. Shakes("central", u, d)
    <3>1. HandshakeOK(e, d) /\ d.state = "Ready" /\ d.out = <<>>
      BY DEF Pair, Shakes, HandshakeOK
    <3>2. ~IsConnected(u) /\ ~IsConnected(d) /\ o # <<Subscribe>>
      BY <2>1, <2>8, <2>9, <3>1, GreetingFacts DEF IsConnected
    <3>3. HandshakeOK(u, d)
      BY <2>1, <2>3, <2>8, <2>9, <3>1, <3>2 DEF HandshakeOK
    <3> QED BY <3>3 DEF Shakes
  <2>14. Rest("central", e, d, A, B, H, K)
    BY DEF Pair, Rest
  <2>15. Rest("central", u, d, A, B, H, K)
    BY <1>2, <1>5, <2>8, <2>9, <2>11, <2>12, <2>14, RestMoves
  <2> QED BY <2>13, <2>15 DEF Pair, Rest
<1> QED BY <1>6, <1>7

\* Fail changes the error only.
LEMMA FailTyped ==
    ASSUME NEW e \in Draft, NEW why \in Errors, NEW t, t = Fail(e, why)
    PROVE  t \in Draft /\ t.err = why /\ t.out = e.out /\ t.rx = e.rx /\ t.state = e.state
<1>1. t \in Draft
  BY DEF Fail, Draft, EndPointWith
<1>2. t.err = why /\ t.out = e.out /\ t.rx = e.rx /\ t.state = e.state
  BY DEF Fail, Draft, EndPointWith
<1> QED BY <1>1, <1>2

\* The errors of time-outs, closes and the platform are harmless.
LEMMA HarmlessErrors ==
    \A why \in {"gatt_failed", "ack_timeout", "connect_timeout", "incompatible_versions", "app_closed", "disconnected"} :
        why \in Errors /\ why # "none" /\ Harmless(why)
BY DEF Errors, Harmless

\* The end point after a handshake confirmation has its type.
LEMMA ConfirmedTyped ==
    ASSUME NEW e \in Draft, NEW q \in Seq(Message), NEW x,
           x = [e EXCEPT !.gatt = FALSE, !.confRcvd = TRUE, !.queue = q]
    PROVE  x \in Draft
BY DEF Draft, EndPointWith

Subscribing(e) == [e EXCEPT !.sub = "begun", !.gatt = TRUE, !.out = Append(@, Subscribe)]

\* The central subscribes when its capabilities request is confirmed.
LEMMA HandshakeConfirmedToCentral ==
    ASSUME NEW e, NEW d, NEW A, NEW B, NEW H, NEW K, Pair("central", e, d, A, B, H, K),
           e.state # "Closed", e.gatt, ~e.confRcvd, NEW x, x = HandshakeConfirmed(e),
           NEW t, t = Subscribing(x) \/ t = Fail(x, "gatt_failed"),
           NEW u, u = Settle("central", t)
    PROVE  Pair("central", u, d, A, B, H, K)
<1>1. e \in Draft /\ RoleOK("central", e, A) /\ HandshakeOK(e, d) /\ EndPointOK("central", e, A)
  BY EndPointIsDraft DEF Pair, RoleOK, Shakes
<1>2. e.state = "Connecting"
  <2>1. e.state # "Ready"
    BY <1>1 DEF EndPointOK, InitEndPoint
  <2>2. ~IsConnected(e)
    BY <1>1 DEF EndPointOK, Working
  <2>3. e.state \in State
    BY <1>1 DEF Draft, EndPointWith
  <2> QED BY <1>1, <2>1, <2>2, <2>3 DEF HandshakeOK, IsConnected, State
<1>3. Starting("central", e, A)
  BY <1>1, <1>2 DEF EndPointOK
<1>4. /\ A = <<>> /\ e.rx = <<>> /\ e.tx = "Idle" /\ e.msg = NoMsg /\ e.part = 0 /\ ~e.sendAck
      /\ e.rwin = 0 /\ ~e.expecting /\ e.queue = <<NoMsg>>
  BY <1>3 DEF Starting
<1>5. e.err = "none"
  BY <1>1, <1>2 DEF RoleOK
<1>6. PICK q : q = Tail(e.queue)
  OBVIOUS
<1>7. q = <<>>
  <2>1. PICK m : m = NoMsg
    OBVIOUS
  <2>2. e.queue = <<m>>
    BY <1>4, <2>1
  <2> QED BY <1>6, <2>2
<1>8. x = [e EXCEPT !.gatt = FALSE, !.confRcvd = TRUE, !.queue = q]
  BY <1>6 DEF HandshakeConfirmed
<1>9. q \in Seq(Message)
  BY <1>7
<1>10. x \in Draft
  BY <1>1, <1>8, <1>9, ConfirmedTyped
<1>11. /\ x.state = "Connecting" /\ x.queue = q /\ x.confRcvd = TRUE /\ x.out = e.out /\ x.rx = e.rx
       /\ x.rxNext = e.rxNext /\ x.txNext = e.txNext /\ x.tx = e.tx /\ x.msg = e.msg /\ x.part = e.part
       /\ x.sendAck = e.sendAck /\ x.rwin = e.rwin /\ x.expecting = e.expecting /\ x.err = e.err
  BY <1>1, <1>2, <1>8 DEF Draft, EndPointWith
<1>12. "central" \in Roles
  BY DEF Roles
<1>13. CASE t = Fail(x, "gatt_failed")
  <2>1. "gatt_failed" \in Errors /\ "gatt_failed" # "none" /\ Harmless("gatt_failed")
    BY HarmlessErrors
  <2>2. t \in Draft /\ t.err = "gatt_failed" /\ t.out = x.out /\ t.rx = x.rx /\ t.state = x.state
    BY <1>10, <1>13, <2>1, FailTyped
  <2> QED BY <1>2, <1>11, <1>12, <2>1, <2>2, PairFails
<1>14. CASE t = Subscribing(x)
  <2>1. PICK o : o = Append(e.out, Subscribe)
    OBVIOUS
  <2>2. Subscribe \in Item /\ e.out \in Seq(Item) /\ o \in Seq(Item)
    <3>1. Subscribe \in Item /\ e.out \in Seq(Item)
      BY <1>1, ItemFacts DEF Draft, EndPointWith
    <3> QED BY <2>1, <3>1, AppendFacts
  <2>3. e.out = <<>> \/ e.out = <<CapsRequest>>
    BY <1>1, <1>2 DEF HandshakeOK
  <2>4. (e.out = <<>> /\ o = <<Subscribe>>) \/ (e.out = <<CapsRequest>> /\ o = <<CapsRequest, Subscribe>>)
    BY <2>1, <2>3, GreetingFacts
  <2>5. o \in Greetings /\ ~AllFragments(o) /\ o # <<>>
    BY <2>4, FragmentsOnly DEF Greetings
  <2>6. t = [x EXCEPT !.sub = "begun", !.gatt = TRUE, !.out = o]
    BY <1>11, <1>14, <2>1 DEF Subscribing
  <2>7. "begun" \in Subscription
    BY DEF Subscription
  <2>8. t \in Draft
    BY <1>10, <2>2, <2>6, <2>7 DEF Draft, EndPointWith
  <2>9. /\ t.state = "Connecting" /\ t.out = o /\ t.queue = <<>> /\ t.rx = <<>> /\ t.rxNext = e.rxNext
        /\ t.txNext = e.txNext /\ t.tx = "Idle" /\ t.msg = NoMsg /\ t.part = 0 /\ ~t.sendAck /\ t.rwin = 0
        /\ ~t.expecting /\ t.confRcvd = TRUE /\ t.sub = "begun" /\ t.err = "none"
    BY <1>4, <1>5, <1>7, <1>10, <1>11, <2>6 DEF Draft, EndPointWith
  <2>10. u = t /\ u \in EndPoint
    BY <2>8, <2>9, DraftIsEndPoint DEF Settle
  <2>11. Starting("central", u, A)
    BY <1>4, <2>9, <2>10 DEF Starting
  <2>12. RoleOK("central", u, A)
    BY <1>1, <2>9, <2>10, <2>11 DEF RoleOK, EndPointOK, IsConnected, Harmless
  <2>13. Sends(e, A, u, A)
    <3>1. Len(A) - Len(u.queue) = 0
      BY <1>4, <2>9, <2>10
    <3>2. TxPosition(u, A) = TxPosition(e, A)
      BY <1>4, <2>9, <2>10, <3>1 DEF TxPosition, Popped
    <3>3. ~IsFragment(Subscribe)
      BY ItemFacts DEF IsFragment
    <3> QED BY <2>1, <2>2, <2>9, <2>10, <3>2, <3>3 DEF Sends, Link
  <2>14. Shakes("central", u, d)
    <3>1. d.state \in State
      BY DEF Pair, RoleOK, EndPoint, EndPointWith
    <3>2. ~IsConnected(d) /\ d.out = <<>>
      BY <1>1, <1>2 DEF HandshakeOK
    <3>3. o = <<Subscribe>> => d.state \in {"Connecting", "Aborting", "Closed"}
      <4>1. e.out = <<>> => d.state # "Ready"
        BY <1>1, <1>2 DEF HandshakeOK
      <4> QED BY <2>4, <3>1, <3>2, <4>1, GreetingFacts DEF IsConnected, State
    <3>4. o \in {<<CapsRequest>>, <<CapsRequest, Subscribe>>} => d.state = "Ready"
      <4>1. e.out = <<CapsRequest>> => d.state = "Ready"
        BY <1>1 DEF HandshakeOK
      <4> QED BY <2>4, <4>1, GreetingFacts
    <3>5. ~IsConnected(u)
      BY <2>9, <2>10 DEF IsConnected
    <3>6. HandshakeOK(u, d)
      BY <2>5, <2>9, <2>10, <3>2, <3>3, <3>4, <3>5 DEF HandshakeOK
    <3> QED BY <3>6 DEF Shakes
  <2>15. Rest("central", e, d, A, B, H, K)
    BY DEF Pair, Rest
  <2>16. Rest("central", u, d, A, B, H, K)
    BY <1>2, <1>4, <1>12, <2>9, <2>10, <2>12, <2>13, <2>15, RestMoves
  <2> QED BY <2>14, <2>16 DEF Pair, Rest
<1> QED BY <1>13, <1>14

Subscribed(e) == [e EXCEPT !.sub = "done", !.gatt = FALSE]

\* The subscription completes, during the handshake or after it.
LEMMA SubscribeCompleted ==
    ASSUME NEW e, NEW d, NEW A, NEW B, NEW H, NEW K, Pair("central", e, d, A, B, H, K),
           e.state # "Closed", e.sub = "begun", NEW x, x = Subscribed(e), NEW ok \in BOOLEAN,
           NEW t, t = DriveSending("central", x, ok), NEW u, u = Settle("central", t)
    PROVE  Pair("central", u, d, A, B, H, K)
<1>1. /\ e \in Draft /\ RoleOK("central", e, A) /\ HandshakeOK(e, d) /\ EndPointOK("central", e, A)
      /\ SentOK(A) /\ Extends(A, A) /\ "central" \in Roles
  BY EndPointIsDraft, ExtendsItself DEF Pair, RoleOK, Shakes, Roles
<1>2. "done" \in Subscription
  BY DEF Subscription
<1>3. x \in Draft
  BY <1>1, <1>2 DEF Subscribed, Draft, EndPointWith
<1>4. /\ x.state = e.state /\ x.queue = e.queue /\ x.confRcvd = e.confRcvd /\ x.tx = e.tx /\ x.msg = e.msg
      /\ x.part = e.part /\ x.rx = e.rx /\ x.rxNext = e.rxNext /\ x.err = e.err
      /\ x.out = e.out /\ x.txNext = e.txNext /\ x.sub = "done" /\ x.sendAck = e.sendAck
      /\ x.expecting = e.expecting /\ x.ackRcv = e.ackRcv /\ x.rwin = e.rwin
  BY <1>1 DEF Subscribed, Draft, EndPointWith
<1>5. TxPosition(x, A) = TxPosition(e, A)
  BY <1>4 DEF TxPosition, Popped
<1>6. e.err = "none"
  BY <1>1 DEF RoleOK
<1>7. e.state = "Connecting" \/ IsConnected(e)
  <2>1. e.state # "Ready"
    BY <1>1 DEF EndPointOK, InitEndPoint
  <2>2. e.state \in State
    BY <1>1 DEF Draft, EndPointWith
  <2> QED BY <1>1, <2>1, <2>2 DEF HandshakeOK, IsConnected, State
<1>8. CASE IsConnected(e)
  <2>1. Working("central", e, A) /\ e.confRcvd \in BOOLEAN
    BY <1>1, <1>8 DEF EndPointOK, Draft, EndPointWith
  <2>2. QueueOK(e, A) /\ FragmenterOK(e, A) /\ e.confRcvd
    BY <2>1 DEF Working
  <2>3. QueueOK(x, A)
    BY <1>4, <2>2 DEF QueueOK
  <2>4. FragmenterOK(x, A)
    BY <1>4, <2>2 DEF FragmenterOK
  <2>5. Working("central", x, A)
    BY <1>4, <2>1, <2>2, <2>3, <2>4 DEF Working
  <2>6. Pair("central", x, d, A, B, H, K) /\ Busy("central", x, A)
    BY <1>1, <1>3, <1>4, <1>5, <1>6, <1>8, <2>5, PairAdjusted
  <2>7. Driven("central", x, t, A)
    BY <1>1, <2>6, DriveSendingOK
  <2> QED BY <1>1, <2>6, <2>7, PairDriven DEF Busy
<1>9. CASE e.state = "Connecting"
  <2>1. Starting("central", e, A)
    BY <1>1, <1>9 DEF EndPointOK
  <2>2. NoSend(x)
    BY <1>4, <2>1 DEF Starting, NoSend
  <2>3. u = x
    BY <1>4, <1>6, <2>2 DEF DriveSending, Settle
  <2>4. u \in EndPoint
    BY <1>3, <1>4, <1>6, <2>3, DraftIsEndPoint
  <2>5. Starting("central", u, A)
    <3>1. e.confRcvd
      BY <2>1 DEF Starting
    <3> QED BY <1>4, <2>1, <2>3, <3>1 DEF Starting
  <2>6. RoleOK("central", u, A)
    BY <1>1, <1>4, <1>6, <1>9, <2>3, <2>4, <2>5 DEF RoleOK, EndPointOK, IsConnected, Harmless
  <2>7. Sends(e, A, u, A)
    BY <1>4, <1>5, <2>3 DEF Sends
  <2>8. Shakes("central", u, d)
    <3>1. IsConnected(u) <=> IsConnected(e)
      BY <1>4, <2>3 DEF IsConnected
    <3> QED BY <1>1, <1>4, <2>3, <3>1 DEF Shakes, HandshakeOK
  <2>9. Rest("central", e, d, A, B, H, K)
    BY DEF Pair, Rest
  <2>10. Rest("central", u, d, A, B, H, K)
    BY <1>1, <1>4, <1>9, <2>3, <2>6, <2>7, <2>9, RestMoves
  <2> QED BY <2>8, <2>10 DEF Pair, Rest
<1> QED BY <1>7, <1>8, <1>9

Answering(e, state) ==
    [e EXCEPT !.state = state, !.lwin = Window, !.rwin = Window, !.queue = <<NoMsg>>, !.hsTimer = TRUE]

\* The peripheral that keeps its answer has its type.
LEMMA AnsweringTyped ==
    ASSUME NEW e \in Draft, NEW q \in Seq(Message), NEW state \in State, NEW t,
           t = [e EXCEPT !.state = state, !.lwin = Window, !.rwin = Window, !.queue = q, !.hsTimer = TRUE]
    PROVE  t \in Draft
<1>1. Window \in SeqNums
  BY SeqNumFacts
<1> QED BY <1>1 DEF Draft, EndPointWith

\* The first item of the handshake tells where the central is.
LEMMA GreetingTaken ==
    ASSUME NEW c, NEW p, HandshakeOK(c, p), c.out \in Seq(Item), c.out # <<>>, ~IsFragment(Head(c.out))
    PROVE  /\ Head(c.out).kind = "caps_request" =>
                 c.out \in {<<CapsRequest>>, <<CapsRequest, Subscribe>>} /\ p.state = "Ready"
           /\ Head(c.out).kind = "subscribe" => c.out = <<Subscribe>> /\ p.out = <<>>
           /\ c.out \in Greetings
<1>1. c.out \in Greetings
  BY FragmentsOnly DEF HandshakeOK
<1>2. "caps_request" # "subscribe"
  OBVIOUS
<1>3. c.out = <<CapsRequest>> \/ c.out = <<CapsRequest, Subscribe>> \/ c.out = <<Subscribe>>
  BY <1>1 DEF Greetings
<1>4. CASE c.out = <<Subscribe>>
  BY <1>1, <1>2, <1>4, GreetingFacts, ItemFacts DEF HandshakeOK
<1>5. CASE c.out = <<CapsRequest>>
  BY <1>1, <1>2, <1>5, GreetingFacts, ItemFacts DEF HandshakeOK
<1>6. CASE c.out = <<CapsRequest, Subscribe>>
  BY <1>1, <1>2, <1>6, GreetingFacts, ItemFacts DEF HandshakeOK
<1> QED BY <1>3, <1>4, <1>5, <1>6

\* The peripheral receives the capabilities request.
LEMMA RequestReceived ==
    ASSUME NEW e, NEW d, NEW A, NEW B, NEW H, NEW K, Pair("peripheral", e, d, A, B, H, K),
           d.out # <<>>, Head(d.out).kind = "caps_request", NEW w, w = Taken(d),
           NEW state \in {"Connecting", "Aborting"},
           NEW t, t = IF e.state # "Ready" THEN Fail(e, "incorrect_state") ELSE Answering(e, state),
           NEW u, u = Settle("peripheral", t)
    PROVE  Pair("peripheral", u, w, A, B, H, K)
<1>1. Peer("peripheral") = "central" /\ "central" \in Roles /\ "peripheral" \in Roles /\ "peripheral" # "central"
  BY DEF Peer, Roles
<1>2. e \in Draft /\ RoleOK("peripheral", e, A) /\ HandshakeOK(d, e) /\ RoleOK("central", d, B)
  BY <1>1, EndPointIsDraft DEF Pair, RoleOK, Shakes
<1>3. d.out \in Seq(Item) /\ ~IsFragment(Head(d.out))
  <2>1. d.out \in Seq(Item)
    BY <1>2 DEF RoleOK, EndPoint, EndPointWith
  <2> QED BY <2>1 DEF IsFragment
<1>4. d.out \in {<<CapsRequest>>, <<CapsRequest, Subscribe>>} /\ e.state = "Ready"
  BY <1>2, <1>3, GreetingTaken
<1>5. e = InitEndPoint("peripheral") /\ A = <<>>
  BY <1>2, <1>4 DEF RoleOK, EndPointOK
<1>6. /\ e.out = <<>> /\ e.rx = <<>> /\ e.tx = "Idle" /\ e.msg = NoMsg /\ e.part = 0 /\ ~e.sendAck
      /\ e.confRcvd = FALSE /\ ~e.gatt /\ e.err = "none"
  BY <1>5 DEF InitEndPoint
<1>7. PICK q : q = <<NoMsg>>
  OBVIOUS
<1>8. q \in Seq(Message) /\ Window \in SeqNums /\ state \in State
  <2>1. NoMsg \in Message
    BY DEF NoMsg, Message
  <2> QED BY <1>7, <2>1, SeqNumFacts DEF State
<1>9. t = [e EXCEPT !.state = state, !.lwin = Window, !.rwin = Window, !.queue = q, !.hsTimer = TRUE]
  BY <1>4, <1>7 DEF Answering
<1>10. t \in Draft
  BY <1>2, <1>8, <1>9, AnsweringTyped
<1>11. /\ t.state = state /\ t.queue = q /\ t.out = <<>> /\ t.rx = <<>> /\ t.rxNext = e.rxNext /\ t.txNext = e.txNext
       /\ t.tx = "Idle" /\ t.msg = NoMsg /\ t.part = 0 /\ ~t.sendAck
       /\ t.confRcvd = FALSE /\ ~t.gatt /\ t.err = "none"
  BY <1>2, <1>6, <1>9 DEF Draft, EndPointWith
<1>12. u = t /\ u \in EndPoint
  BY <1>10, <1>11, DraftIsEndPoint DEF Settle
<1>13. Starting("peripheral", u, A)
  BY <1>1, <1>5, <1>7, <1>11, <1>12 DEF Starting
<1>14. u.state \notin {"Ready", "Connected", "Closing", "Closed"}
  BY <1>11, <1>12
<1>15. RoleOK("peripheral", u, A)
  BY <1>2, <1>11, <1>12, <1>13, <1>14 DEF RoleOK, EndPointOK, IsConnected, Harmless
<1>16. Sends(e, A, u, A)
  BY <1>6, <1>11, <1>12 DEF Sends, TxPosition, Popped
<1>17. w.out = Tail(d.out) /\ w.state = d.state /\ w.confRcvd = d.confRcvd
  <2>1. PICK c \in Roles : c = "central"
    BY <1>1
  <2>2. RoleOK(c, d, B)
    BY <1>2, <2>1
  <2>3. ASSUME NEW r \in Roles, RoleOK(r, d, B)
        PROVE  w.out = Tail(d.out) /\ w.state = d.state /\ w.confRcvd = d.confRcvd
    BY <2>3, TakenOK
  <2> QED BY <2>2, <2>3
<1>18. Shakes("peripheral", u, w)
  <2>1. (d.out = <<CapsRequest>> /\ w.out = <<>>) \/ (d.out = <<CapsRequest, Subscribe>> /\ w.out = <<Subscribe>>)
    BY <1>4, <1>17, GreetingFacts
  <2>2. d.state # "Ready"
    BY <1>2 DEF RoleOK, EndPointOK, InitEndPoint
  <2>3. d.state # "Aborting" /\ ~IsConnected(d)
    BY <1>2, <1>4 DEF HandshakeOK, IsConnected
  <2>4. ~IsConnected(u) /\ ~IsConnected(w)
    BY <1>14, <1>17, <2>3 DEF IsConnected
  <2>5. w.state = "Connecting" /\ ~w.confRcvd => w.out = <<>>
    <3>1. d.state = "Connecting" /\ ~d.confRcvd => d.out \in {<<>>, <<CapsRequest>>}
      BY <1>2 DEF HandshakeOK
    <3>2. <<CapsRequest, Subscribe>> # <<CapsRequest>> /\ d.out # <<>>
      BY GreetingFacts
    <3> QED BY <1>17, <2>1, <3>1, <3>2
  <2>6. w.out \in Greetings \/ w.out = <<>>
    BY <2>1 DEF Greetings
  <2>7. w.out \notin {<<CapsRequest>>, <<CapsRequest, Subscribe>>}
    BY <2>1, GreetingFacts
  <2>8. AllFragments(w.out) <=> w.out = <<>>
    BY <2>6, FragmentsOnly
  <2>9. HandshakeOK(w, u)
    BY <1>11, <1>12, <1>14, <1>17, <2>2, <2>3, <2>4, <2>5, <2>6, <2>7, <2>8 DEF HandshakeOK
  <2> QED BY <1>1, <2>9 DEF Shakes
<1>19. Rest("peripheral", e, d, A, B, H, K)
  BY DEF Pair, Rest
<1>20. Rest("peripheral", u, d, A, B, H, K)
  BY <1>1, <1>4, <1>6, <1>11, <1>12, <1>14, <1>15, <1>16, <1>19, RestMoves
<1>21. Rest("peripheral", u, w, A, B, H, K)
  BY <1>1, <1>3, <1>20, RestTakes
<1> QED BY <1>18, <1>21 DEF Pair, Rest

\* The fields of TakenOK that the handshake looks at.
LEMMA TakenFields ==
    ASSUME NEW r \in Roles, NEW d, NEW B, RoleOK(r, d, B), d.out # <<>>, NEW w, w = Taken(d)
    PROVE  w.out = Tail(d.out) /\ w.state = d.state /\ w.confRcvd = d.confRcvd
BY TakenOK

\* What the handshake looks like once the subscription has arrived.
LEMMA SubscriptionTaken ==
    ASSUME NEW e, NEW d, NEW A, NEW B, NEW H, NEW K, Pair("peripheral", e, d, A, B, H, K),
           d.out # <<>>, Head(d.out).kind = "subscribe", NEW w, w = Taken(d)
    PROVE  /\ w.out = <<>> /\ w.state = d.state /\ w.confRcvd = d.confRcvd
           /\ e.out = <<>> /\ e.state \in {"Connecting", "Aborting", "Closed"}
           /\ w.state \in {"Connecting", "Closed"}
           /\ w.state = "Connecting" => w.confRcvd
           /\ ~IsFragment(Head(d.out))
<1>1. PICK c \in Roles, p \in Roles : p = "peripheral" /\ c = "central" /\ Peer(p) = c /\ c # p
  BY DEF Peer, Roles
<1>2. HandshakeOK(d, e) /\ RoleOK(c, d, B)
  BY <1>1 DEF Pair, Shakes
<1>3. d.out \in Seq(Item)
  BY <1>2 DEF RoleOK, EndPoint, EndPointWith
<1>4. ~IsFragment(Head(d.out))
  BY DEF IsFragment
<1>5. d.out = <<Subscribe>> /\ e.out = <<>> /\ d.out \in Greetings
  BY <1>2, <1>3, <1>4, GreetingTaken
<1>6. w.out = Tail(d.out) /\ w.state = d.state /\ w.confRcvd = d.confRcvd
  BY <1>2, TakenFields
<1>7. w.out = <<>>
  BY <1>5, <1>6, GreetingFacts
<1>8. e.state \in {"Connecting", "Aborting", "Closed"}
  BY <1>2, <1>5 DEF HandshakeOK
<1>9. d.state # "Ready"
  BY <1>2 DEF RoleOK, EndPointOK, InitEndPoint
<1>10. d.state # "Aborting" /\ ~IsConnected(d)
  BY <1>2, <1>5, FragmentsOnly DEF HandshakeOK
<1>11. d.state \in State
  BY <1>2 DEF RoleOK, EndPoint, EndPointWith
<1>12. d.state \in {"Connecting", "Closed"}
  BY <1>9, <1>10, <1>11 DEF IsConnected, State
<1>13. d.state = "Connecting" => d.confRcvd
  <2>1. d.state = "Connecting" /\ ~d.confRcvd => d.out \in {<<>>, <<CapsRequest>>}
    BY <1>2 DEF HandshakeOK
  <2> QED BY <1>5, <2>1, GreetingFacts
<1> QED BY <1>4, <1>5, <1>6, <1>7, <1>8, <1>12, <1>13

\* A closed peripheral ignores it.
LEMMA SubscriptionIgnored ==
    ASSUME NEW e, NEW d, NEW A, NEW B, NEW H, NEW K, Pair("peripheral", e, d, A, B, H, K),
           d.out # <<>>, ~IsFragment(Head(d.out)), NEW w, w = Taken(d),
           w.out = <<>>, w.state \in {"Connecting", "Closed"}, e.state = "Closed", e.out = <<>>
    PROVE  Pair("peripheral", e, w, A, B, H, K)
<1>1. PICK p \in Roles : p = "peripheral"
  BY DEF Roles
<1>2. Rest(p, e, d, A, B, H, K)
  BY <1>1 DEF Pair, Rest
<1>3. Rest(p, e, w, A, B, H, K)
  BY <1>2, RestTakes
<1>4. ~IsConnected(e) /\ ~IsConnected(w) /\ w.out \notin Greetings /\ AllFragments(w.out)
  BY FragmentsOnly DEF IsConnected
<1>5. HandshakeOK(w, e)
  <2>1. w.out \notin {<<CapsRequest>>, <<CapsRequest, Subscribe>>} /\ w.out # <<Subscribe>>
    BY <1>4 DEF Greetings
  <2> QED BY <1>4, <2>1 DEF HandshakeOK
<1> QED BY <1>1, <1>3, <1>5 DEF Pair, Rest, Shakes

Connect(e) == [e EXCEPT !.state = "Connected", !.hsTimer = FALSE]

\* The peripheral that is connected has its type.
LEMMA ConnectTyped ==
    ASSUME NEW s \in Draft, NEW t, t = Connect(s)
    PROVE  /\ t \in Draft
           /\ t.state = "Connected" /\ t.out = s.out /\ t.rx = s.rx /\ t.rxNext = s.rxNext /\ t.err = s.err
           /\ t.queue = s.queue /\ t.confRcvd = s.confRcvd /\ t.tx = s.tx /\ t.msg = s.msg /\ t.part = s.part
           /\ t.gatt = s.gatt /\ t.ackRcv = s.ackRcv /\ t.txNext = s.txNext /\ t.sendAck = s.sendAck
<1>1. "Connected" \in State
  BY DEF State
<1>2. t \in Draft
  BY <1>1 DEF Connect, Draft, EndPointWith
<1> QED BY <1>2 DEF Connect, Draft, EndPointWith

\* An item the platform accepts is under way.
LEMMA ItemSent ==
    ASSUME NEW e \in Draft, NEW x \in Item, NEW t, t = SendCharacteristic(e, x, TRUE)
    PROVE  /\ t \in Draft /\ Keeps(e, t)
           /\ t.out = Append(e.out, x) /\ t.txNext = e.txNext
           /\ t.gatt /\ t.ackRcv
BY SendItem

\* HandleSubscribeReceived on a peripheral that is not closed.
LEMMA ResponseSent ==
    ASSUME NEW e, NEW d, NEW A, NEW B, NEW H, NEW K, Pair("peripheral", e, d, A, B, H, K),
           d.out # <<>>, Head(d.out).kind = "subscribe", NEW w, w = Taken(d),
           NEW ok \in BOOLEAN, NEW b \in BOOLEAN, b = (e.state = "Connecting"),
           NEW s, s = SendCharacteristic(e, CapsResponse(b), ok), e.state # "Closed",
           NEW t, t = IF ok /\ b THEN Connect(s) ELSE s,
           NEW u, u = Settle("peripheral", t)
    PROVE  Pair("peripheral", u, w, A, B, H, K)
<1>1. PICK p \in Roles : p = "peripheral" /\ Peer(p) = "central" /\ p # "central"
  BY DEF Roles, Peer
<1>2. /\ w.out = <<>> /\ w.state = d.state /\ w.confRcvd = d.confRcvd
      /\ e.out = <<>> /\ e.state \in {"Connecting", "Aborting"} /\ w.state \in {"Connecting", "Closed"}
      /\ w.state = "Connecting" => w.confRcvd
      /\ ~IsFragment(Head(d.out))
  BY SubscriptionTaken
<1>3. RoleOK(p, e, A) /\ e \in Draft /\ Pair(p, e, d, A, B, H, K)
  BY <1>1, EndPointIsDraft DEF Pair, RoleOK
<1>4. Starting(p, e, A) /\ e.err = "none" /\ SentOK(A)
  BY <1>2, <1>3 DEF RoleOK, EndPointOK
<1>5. /\ A = <<>> /\ e.rx = <<>> /\ e.tx = "Idle" /\ e.msg = NoMsg /\ e.part = 0 /\ ~e.sendAck
      /\ e.queue = <<NoMsg>> /\ e.confRcvd \in BOOLEAN /\ ~e.confRcvd
  BY <1>1, <1>3, <1>4 DEF Starting, Draft, EndPointWith
<1>6. PICK x \in Item : x = CapsResponse(b)
  BY ItemFacts
<1>7. x.kind = "caps_response" /\ x.ok = b /\ ~IsFragment(x)
  BY <1>6, ItemFacts DEF IsFragment
<1>8. CASE ~ok
  <2>1. s \in Draft /\ s.err = "gatt_failed" /\ s.state = e.state /\ s.out = e.out /\ s.rx = e.rx
    BY <1>3, <1>8, SendRefused
  <2>2. t = s /\ "gatt_failed" # "none" /\ Harmless("gatt_failed")
    BY <1>8, HarmlessErrors
  <2>3. Broken(e, t)
    BY <2>1, <2>2 DEF Broken
  <2>4. u = Settle(p, t)
    BY <1>1
  <2>5. Ended(p, e, u)
    BY <2>3, <2>4, SettleBroken
  <2>6. Pair(p, u, d, A, B, H, K)
    BY <1>2, <1>3, <2>5, PairEnds
  <2>7. u.state = "Closed" /\ u.out = <<>>
    BY <1>2, <2>5 DEF Ended, Over
  <2> QED BY <1>1, <1>2, <2>6, <2>7, SubscriptionIgnored
<1>9. CASE ok
  <2>1. /\ s \in Draft /\ Keeps(e, s) /\ s.out = Append(e.out, x) /\ s.txNext = e.txNext /\ s.gatt /\ s.ackRcv
    <3>1. ok = TRUE
      BY <1>9
    <3>2. s = SendCharacteristic(e, x, TRUE)
      BY <1>6, <3>1
    <3> QED BY <1>3, <3>2, ItemSent
  <2>2. PICK o : o = <<x>>
    OBVIOUS
  <2>3. s.out = o /\ o # <<>> /\ Tail(o) = <<>> /\ o[1] = x /\ Head(o) = x
    <3>1. o # <<>> /\ Tail(o) = <<>> /\ o[1] = x /\ Head(o) = x /\ Append(<<>>, x) = o
      BY <2>2
    <3> QED BY <1>2, <2>1, <3>1
  <2>4. ~AllFragments(o)
    <3>1. 1 \in 1 .. Len(o)
      BY <2>2
    <3> QED BY <1>7, <2>3, <3>1 DEF AllFragments
  <2>6. t \in Draft
    <3>1. t = Connect(s) \/ t = s
      OBVIOUS
    <3> QED BY <2>1, <3>1, ConnectTyped
  <2>7. /\ t.state = IF b THEN "Connected" ELSE "Aborting"
        /\ t.out = o /\ t.rx = e.rx /\ t.rxNext = e.rxNext /\ t.err = e.err /\ t.queue = e.queue
        /\ t.confRcvd = e.confRcvd /\ t.tx = e.tx /\ t.msg = e.msg /\ t.part = e.part
        /\ t.gatt = s.gatt /\ t.ackRcv = s.ackRcv /\ t.txNext = e.txNext /\ t.sendAck = s.sendAck
    <3>1. CASE b
      <4>1. t = Connect(s)
        BY <1>9, <3>1
      <4>2. /\ t.state = "Connected" /\ t.out = s.out /\ t.rx = s.rx /\ t.rxNext = s.rxNext /\ t.err = s.err
            /\ t.queue = s.queue /\ t.confRcvd = s.confRcvd /\ t.tx = s.tx /\ t.msg = s.msg /\ t.part = s.part
            /\ t.gatt = s.gatt /\ t.ackRcv = s.ackRcv /\ t.txNext = s.txNext /\ t.sendAck = s.sendAck
        BY <2>1, <4>1, ConnectTyped
      <4> QED BY <2>1, <2>3, <3>1, <4>2 DEF Keeps
    <3>2. CASE ~b
      <4>1. t = s /\ e.state = "Aborting"
        BY <1>2, <3>2
      <4> QED BY <2>1, <2>3, <3>2, <4>1 DEF Keeps
    <3> QED BY <3>1, <3>2
  <2>8. s.sendAck = e.sendAck
    BY <1>3, <1>9 DEF SendCharacteristic, Draft, EndPointWith
  <2>9. u = t /\ u \in EndPoint /\ u.err = "none"
    BY <1>4, <2>6, <2>7, DraftIsEndPoint DEF Settle
  <2>10. Sends(e, A, u, A)
    <3>1. TxPosition(u, A) = TxPosition(e, A)
      BY <1>5, <2>7, <2>9 DEF TxPosition, Popped
    <3>2. u.out = Append(e.out, x)
      BY <2>1, <2>3, <2>7, <2>9
    <3> QED BY <1>7, <3>1, <3>2 DEF Sends, Link
  <2>11. RoleOK(p, u, A)
    <3>1. CASE b
      <4>1. Working(p, u, A)
        <5>1. PICK m : m = NoMsg
          OBVIOUS
        <5>2. Len(u.queue) = 1 /\ Len(A) = 0
          <6>1. u.queue = <<m>>
            BY <1>5, <2>7, <2>9, <5>1
          <6> QED BY <1>5, <6>1
        <5>3. QueueOK(u, A)
          <6>1. ASSUME NEW i \in 1 .. Len(u.queue), u.confRcvd \/ i > 1
                PROVE  u.queue[i] = A[Len(A) - Len(u.queue) + i]
            BY <1>5, <2>7, <2>9, <5>2, <6>1
          <6> QED BY <1>5, <2>7, <2>9, <5>2, <6>1 DEF QueueOK
        <5>4. FragmenterOK(u, A)
          BY <1>5, <2>7, <2>9 DEF FragmenterOK
        <5>5. u.state = "Connected" /\ u.gatt /\ u.ackRcv
          BY <2>1, <2>7, <2>9, <3>1
        <5> QED BY <1>1, <5>3, <5>4, <5>5 DEF Working
      <4>2. u.state = "Connected"
        BY <2>7, <2>9, <3>1
      <4> QED BY <1>4, <2>9, <4>1, <4>2 DEF RoleOK, EndPointOK, Harmless
    <3>2. CASE ~b
      <4>1. u.state = "Aborting"
        BY <2>7, <2>9, <3>2
      <4>2. Starting(p, u, A)
        BY <1>1, <1>5, <2>7, <2>8, <2>9, <4>1 DEF Starting
      <4> QED BY <1>4, <2>9, <4>1, <4>2 DEF RoleOK, EndPointOK, Harmless, IsConnected
    <3> QED BY <3>1, <3>2
  <2>12. Rest(p, e, d, A, B, H, K)
    BY <1>3 DEF Pair, Rest
  <2>13. u.state # "Closed" /\ e.state \notin {"Closed", "Closing"} /\ u.rx = e.rx /\ u.rxNext = e.rxNext
    BY <1>2, <2>7, <2>9
  <2>14. Rest(p, u, d, A, B, H, K)
    BY <2>10, <2>11, <2>12, <2>13, RestMoves
  <2>15. Rest(p, u, w, A, B, H, K)
    BY <1>2, <2>14, RestTakes
  <2>16. HandshakeOK(w, u)
    <3>1. ~IsConnected(w) /\ w.out \notin Greetings /\ AllFragments(w.out)
      BY <1>2, FragmentsOnly DEF IsConnected
    <3>2. w.out \notin {<<CapsRequest>>, <<CapsRequest, Subscribe>>} /\ w.out # <<Subscribe>>
      BY <3>1 DEF Greetings
    <3>3. CASE b
      <4>1. u.state = "Connected" /\ IsConnected(u) /\ u.out = o /\ o[1] = CapsResponse(TRUE)
        BY <1>6, <2>3, <2>7, <2>9, <3>3 DEF IsConnected
      <4>2. AllFragments(Tail(u.out)) /\ u.out # <<>>
        BY <2>3, <4>1, FragmentsOnly
      <4> QED BY <1>2, <3>1, <3>2, <4>1, <4>2 DEF HandshakeOK
    <3>4. CASE ~b
      <4>1. u.state = "Aborting" /\ ~IsConnected(u) /\ u.out = <<CapsResponse(FALSE)>>
        BY <1>6, <2>2, <2>7, <2>9, <3>4 DEF IsConnected
      <4> QED BY <1>2, <3>1, <3>2, <4>1 DEF HandshakeOK
    <3> QED BY <3>3, <3>4
  <2> QED BY <1>1, <2>15, <2>16 DEF Pair, Rest, Shakes
<1> QED BY <1>8, <1>9

\* The capabilities response is the first thing the peripheral sends.
LEMMA ResponseTaken ==
    ASSUME NEW e, NEW d, NEW A, NEW B, NEW H, NEW K, Pair("central", e, d, A, B, H, K),
           d.out # <<>>, Head(d.out).kind = "caps_response", NEW w, w = Taken(d)
    PROVE  /\ ~IsFragment(Head(d.out)) /\ w.state = d.state
           /\ e.out \notin Greetings
           /\ \/ d.state = "Aborting" /\ w.out = <<>> /\ Head(d.out).ok = FALSE
              \/ IsConnected(d) /\ AllFragments(w.out) /\ w.out \in Seq(Item) /\ AllFragments(e.out)
           /\ e.state = "Closed" \/ e.confRcvd
<1>1. PICK c \in Roles, p \in Roles : c = "central" /\ p = "peripheral" /\ Peer(c) = p
  BY DEF Peer, Roles
<1>2. HandshakeOK(e, d) /\ RoleOK(p, d, B)
  BY <1>1 DEF Pair, Shakes
<1>3. d.out \in Seq(Item) /\ d.state \in State
  BY <1>2 DEF RoleOK, EndPoint, EndPointWith
<1>4. ~IsFragment(Head(d.out))
  BY DEF IsFragment
<1>5. w.out = Tail(d.out) /\ w.state = d.state
  BY <1>2, TakenFields
<1>6. d.state # "Closed"
  BY <1>1, <1>2 DEF RoleOK, EndPointOK
<1>7. d.state \notin {"Ready", "Connecting"} /\ e.out \notin Greetings /\ (e.state = "Closed" \/ e.confRcvd)
  BY <1>2 DEF HandshakeOK
<1>8. CASE d.state = "Aborting"
  <2>1. PICK x : x = CapsResponse(FALSE)
    OBVIOUS
  <2>2. d.out = <<x>> /\ x.ok = FALSE
    BY <1>2, <1>8, <2>1, ItemFacts DEF HandshakeOK
  <2>3. Tail(d.out) = <<>> /\ Head(d.out) = x
    BY <2>2
  <2> QED BY <1>4, <1>5, <1>7, <1>8, <2>2, <2>3
<1>9. CASE IsConnected(d)
  <2>1. AllFragments(Tail(d.out)) /\ AllFragments(e.out)
    BY <1>2, <1>9 DEF HandshakeOK
  <2>2. Tail(d.out) \in Seq(Item)
    BY <1>3
  <2> QED BY <1>4, <1>5, <1>7, <1>9, <2>1, <2>2
<1> QED BY <1>3, <1>6, <1>7, <1>8, <1>9 DEF IsConnected, State

\* A closed central ignores it.
LEMMA ResponseIgnored ==
    ASSUME NEW e, NEW d, NEW A, NEW B, NEW H, NEW K, Pair("central", e, d, A, B, H, K),
           d.out # <<>>, Head(d.out).kind = "caps_response", NEW w, w = Taken(d), e.state = "Closed"
    PROVE  Pair("central", e, w, A, B, H, K)
<1>1. PICK c \in Roles : c = "central"
  BY DEF Roles
<1>2. /\ ~IsFragment(Head(d.out)) /\ w.state = d.state
      /\ e.out \notin Greetings
      /\ \/ d.state = "Aborting" /\ w.out = <<>>
         \/ IsConnected(d) /\ AllFragments(w.out) /\ w.out \in Seq(Item) /\ AllFragments(e.out)
  BY ResponseTaken
<1>3. Rest(c, e, w, A, B, H, K)
  <2>1. Rest(c, e, d, A, B, H, K)
    BY <1>1 DEF Pair, Rest
  <2> QED BY <1>2, <2>1, RestTakes
<1>4. HandshakeOK(e, d) /\ ~IsConnected(e)
  BY DEF Pair, Shakes, IsConnected
<1>5. e.out \notin {<<CapsRequest>>, <<CapsRequest, Subscribe>>} /\ e.out # <<Subscribe>>
  BY <1>2 DEF Greetings
<1>6. CASE d.state = "Aborting" /\ w.out = <<>>
  <2>1. ~IsConnected(w) /\ ~IsConnected(d)
    BY <1>2, <1>6 DEF IsConnected
  <2>2. HandshakeOK(e, w)
    BY <1>2, <1>4, <1>5, <1>6, <2>1 DEF HandshakeOK
  <2> QED BY <1>1, <1>3, <2>2 DEF Pair, Rest, Shakes
<1>7. CASE IsConnected(d) /\ AllFragments(w.out) /\ w.out \in Seq(Item) /\ AllFragments(e.out)
  <2>1. IsConnected(w) /\ w.state \notin {"Ready", "Connecting", "Aborting"}
    BY <1>2, <1>7 DEF IsConnected
  <2>2. w.out # <<>> => AllFragments(Tail(w.out)) /\ IsFragment(w.out[1])
    <3>1. w.out # <<>> => Head(w.out) = w.out[1]
      BY <1>7
    <3> QED BY <1>7, <3>1, FragmentsOnly
  <2>3. HandshakeOK(e, w)
    BY <1>2, <1>4, <1>5, <1>7, <2>1, <2>2 DEF HandshakeOK
  <2> QED BY <1>1, <1>3, <2>3 DEF Pair, Rest, Shakes
<1> QED BY <1>2, <1>6, <1>7

Welcomed(e) ==
    [e EXCEPT !.state = "Connected", !.hsTimer = FALSE, !.lwin = Window - 1, !.rwin = Window, !.sendAck = TRUE]

\* The central that is connected has its type.
LEMMA WelcomedTyped ==
    ASSUME NEW e \in Draft, NEW t, t = Welcomed(e)
    PROVE  /\ t \in Draft
           /\ t.state = "Connected" /\ t.out = e.out /\ t.rx = e.rx /\ t.rxNext = e.rxNext /\ t.err = e.err
           /\ t.queue = e.queue /\ t.confRcvd = e.confRcvd /\ t.tx = e.tx /\ t.msg = e.msg /\ t.part = e.part
           /\ t.gatt = e.gatt /\ t.ackRcv = e.ackRcv /\ t.txNext = e.txNext /\ t.expecting = e.expecting
<1>1. "Connected" \in State
  BY DEF State
<1>2. PICK n : n = Window - 1
  OBVIOUS
<1>3. n \in SeqNums /\ Window \in SeqNums
  BY <1>2, SeqNumFacts
<1>4. t = [e EXCEPT !.state = "Connected", !.hsTimer = FALSE, !.lwin = n, !.rwin = Window, !.sendAck = TRUE]
  BY <1>2 DEF Welcomed
<1>5. t \in Draft
  <2>1. PICK y : y = [e EXCEPT !.state = "Connected", !.hsTimer = FALSE, !.sendAck = TRUE]
    OBVIOUS
  <2>2. y \in Draft
    BY <1>1, <2>1 DEF Draft, EndPointWith
  <2>3. t = [y EXCEPT !.lwin = n, !.rwin = Window]
    BY <1>4, <2>1 DEF Draft, EndPointWith
  <2> QED BY <1>3, <2>2, <2>3 DEF Draft, EndPointWith
<1> QED BY <1>4, <1>5 DEF Draft, EndPointWith

\* The central is connected, unless the versions do not fit.
LEMMA ResponseReceived ==
    ASSUME NEW e, NEW d, NEW A, NEW B, NEW H, NEW K, Pair("central", e, d, A, B, H, K),
           d.out # <<>>, Head(d.out).kind = "caps_response", NEW w, w = Taken(d), e.state # "Closed",
           NEW t, \/ t = Fail(e, "incompatible_versions")
                  \/ t = Welcomed(e) /\ e.state = "Connecting" /\ Head(d.out).ok,
           NEW u, u = Settle("central", t)
    PROVE  Pair("central", u, w, A, B, H, K)
<1>1. PICK c \in Roles : c = "central"
  BY DEF Roles
<1>2. e \in Draft /\ RoleOK(c, e, A) /\ HandshakeOK(e, d) /\ Pair(c, e, d, A, B, H, K) /\ u = Settle(c, t)
  BY <1>1, EndPointIsDraft DEF Pair, RoleOK, Shakes
<1>3. CASE t = Fail(e, "incompatible_versions")
  <2>1. "incompatible_versions" \in Errors /\ "incompatible_versions" # "none" /\ Harmless("incompatible_versions")
    BY HarmlessErrors
  <2>2. t \in Draft /\ t.err = "incompatible_versions" /\ t.out = e.out /\ t.rx = e.rx /\ t.state = e.state
    BY <1>2, <1>3, <2>1, FailTyped
  <2>3. Broken(e, t)
    BY <2>1, <2>2 DEF Broken
  <2>4. Ended(c, e, u)
    BY <1>2, <2>3, SettleBroken
  <2>5. Pair(c, u, d, A, B, H, K) /\ u.state = "Closed"
    BY <1>1, <1>2, <2>4, PairEnds DEF Ended, Over
  <2> QED BY <1>1, <2>5, ResponseIgnored
<1>4. CASE t = Welcomed(e) /\ e.state = "Connecting" /\ Head(d.out).ok
  <2>1. /\ ~IsFragment(Head(d.out)) /\ w.state = d.state /\ e.out \notin Greetings
        /\ IsConnected(d) /\ AllFragments(w.out) /\ w.out \in Seq(Item) /\ AllFragments(e.out)
        /\ e.confRcvd
    BY <1>4, ResponseTaken
  <2>2. Starting(c, e, A) /\ e.err = "none" /\ SentOK(A)
    BY <1>2, <1>4 DEF RoleOK, EndPointOK
  <2>3. /\ A = <<>> /\ e.tx = "Idle" /\ e.msg = NoMsg /\ e.part = 0 /\ ~e.expecting /\ e.queue = <<>>
    BY <1>1, <2>1, <2>2 DEF Starting
  <2>4. /\ t \in Draft
        /\ t.state = "Connected" /\ t.out = e.out /\ t.rx = e.rx /\ t.rxNext = e.rxNext /\ t.err = e.err
        /\ t.queue = e.queue /\ t.confRcvd = e.confRcvd /\ t.tx = e.tx /\ t.msg = e.msg /\ t.part = e.part
        /\ t.gatt = e.gatt /\ t.ackRcv = e.ackRcv /\ t.txNext = e.txNext /\ t.expecting = e.expecting
    BY <1>2, <1>4, WelcomedTyped
  <2>5. u = t /\ u \in EndPoint
    BY <2>2, <2>4, DraftIsEndPoint DEF Settle
  <2>6. Working(c, u, A)
    <3>1. Len(u.queue) = 0 /\ Len(A) = 0
      BY <2>3, <2>4, <2>5
    <3>2. QueueOK(u, A)
      <4>1. \A i \in 1 .. Len(u.queue) : FALSE
        BY <3>1
      <4>2. Len(u.queue) <= Len(A)
        BY <3>1
      <4>3. u.confRcvd
        BY <2>1, <2>4, <2>5
      <4> QED BY <4>1, <4>2, <4>3 DEF QueueOK
    <3>3. FragmenterOK(u, A)
      BY <2>3, <2>4, <2>5 DEF FragmenterOK
    <3> QED BY <2>1, <2>3, <2>4, <2>5, <3>2, <3>3 DEF Working
  <2>7. RoleOK(c, u, A)
    BY <2>2, <2>4, <2>5, <2>6 DEF RoleOK, EndPointOK, Harmless
  <2>8. Sends(e, A, u, A)
    BY <2>4, <2>5 DEF Sends, TxPosition, Popped
  <2>9. Rest(c, e, d, A, B, H, K)
    BY <1>2 DEF Pair, Rest
  <2>10. u.state # "Closed" /\ e.state \notin {"Closed", "Closing"} /\ u.rx = e.rx /\ u.rxNext = e.rxNext
    BY <1>4, <2>4, <2>5
  <2>11. Rest(c, u, d, A, B, H, K)
    BY <2>7, <2>8, <2>9, <2>10, RestMoves
  <2>12. Rest(c, u, w, A, B, H, K)
    BY <2>1, <2>11, RestTakes
  <2>13. HandshakeOK(u, w)
    <3>1. IsConnected(u) /\ IsConnected(w) /\ u.state = "Connected"
      BY <2>1, <2>4, <2>5 DEF IsConnected
    <3>2. w.state \notin {"Ready", "Connecting", "Aborting", "Closed"}
      BY <3>1 DEF IsConnected
    <3>3. w.out # <<>> => AllFragments(Tail(w.out)) /\ IsFragment(w.out[1])
      <4>1. w.out # <<>> => Head(w.out) = w.out[1]
        BY <2>1
      <4> QED BY <2>1, <4>1, FragmentsOnly
    <3>4. u.out \notin {<<CapsRequest>>, <<CapsRequest, Subscribe>>} /\ u.out # <<Subscribe>> /\ u.out \notin Greetings
      BY <2>1, <2>4, <2>5 DEF Greetings
    <3>5. AllFragments(u.out) /\ u.confRcvd
      BY <2>1, <2>4, <2>5
    <3> QED BY <2>1, <3>1, <3>2, <3>3, <3>4, <3>5 DEF HandshakeOK
  <2> QED BY <1>1, <2>12, <2>13 DEF Pair, Rest, Shakes
<1> QED BY <1>3, <1>4

-----------------------------------------------------------------------------
(* Receiving a fragment.                                                   *)

\* A fragment carries a message and a part.
LEMMA FragmentTyped ==
    ASSUME NEW f \in Item, IsFragment(f)
    PROVE  f.msg \in Message /\ f.msg.id \in Nat /\ f.msg.size \in Nat /\ f.part \in Nat
<1>1. CapsRequest.kind # "fragment" /\ Subscribe.kind # "fragment"
  BY ItemFacts
<1>2. f \in [kind : {"fragment"}, seq : SeqNums, ack : SeqNums \cup {NoAck}, msg : Message, part : Nat]
  BY <1>1 DEF Item, IsFragment
<1>3. f.msg \in Message /\ f.part \in Nat
  BY <1>2
<1> QED BY <1>3 DEF Message

\* The fragment that completes a message leaves the whole message reassembled.
LEMMA MessageComplete ==
    ASSUME NEW e, e.rx \in Seq(Piece), NEW f \in Item, IsFragment(f), f.msg # NoMsg, f.part = f.msg.size,
           NEW a \in Position, NEW c \in Position, NEW H, Reached(e, a, H), Link(a, f, c)
    PROVE  /\ RxAfter(e, f) = Whole(f.msg) /\ RxAfter(e, f) # <<>>
           /\ f.msg.id = a.done + 1 /\ c.done = a.done + 1 /\ c.part = 0
<1>1. f.msg.id = a.done + 1 /\ f.part = a.part + 1 /\ c.done = a.done + 1 /\ c.part = 0
  BY DEF Link
<1>2. a.part = Len(e.rx) /\ \A i \in 1 .. Len(e.rx) : e.rx[i] = <<a.done + 1, i>>
  BY DEF Reached
<1>3. PICK x : x = <<f.msg.id, f.part>>
  OBVIOUS
<1>4. x \in Piece /\ f.part \in Nat
  BY <1>3, FragmentTyped DEF Piece
<1>5. PICK s : s = RxAfter(e, f)
  OBVIOUS
<1>6. s = Append(e.rx, x)
  BY <1>3, <1>5 DEF RxAfter
<1>7. s \in Seq(Piece) /\ Len(s) = Len(e.rx) + 1 /\ s[Len(e.rx) + 1] = x /\ \A i \in 1 .. Len(e.rx) : s[i] = e.rx[i]
  BY <1>4, <1>6
<1>8. Len(e.rx) \in Nat
  OBVIOUS
<1>9. Len(s) = f.part
  BY <1>1, <1>2, <1>7
<1>10. ASSUME NEW i \in 1 .. f.part PROVE s[i] = <<f.msg.id, i>>
  <2>1. CASE i \in 1 .. Len(e.rx)
    BY <1>1, <1>2, <1>7, <2>1
  <2>2. CASE i = Len(e.rx) + 1
    BY <1>1, <1>2, <1>3, <1>7, <2>2
  <2> QED BY <1>1, <1>2, <1>8, <2>1, <2>2
<1>11. s = [i \in 1 .. f.part |-> <<f.msg.id, i>>]
  <2>1. s = [i \in 1 .. Len(s) |-> s[i]]
    BY <1>7
  <2> QED BY <1>9, <1>10, <2>1
<1>12. s # <<>>
  BY <1>7, <1>8
<1> QED BY <1>1, <1>5, <1>11, <1>12 DEF Whole

\* Any other fragment moves the receiver's position on.
LEMMA MessageGoesOn ==
    ASSUME NEW e, e.rx \in Seq(Piece), NEW f \in Item, IsFragment(f), f.msg = NoMsg \/ f.part # f.msg.size,
           NEW a \in Position, NEW c \in Position, NEW H, Reached(e, a, H), Link(a, f, c),
           NEW u, u.rx = RxAfter(e, f), u.rxNext = IncSeqNum(e.rxNext), u.state = e.state
    PROVE  Reached(u, c, H)
<1>1. c.seq = u.rxNext
  BY DEF Link, Reached
<1>2. CASE f.msg = NoMsg
  BY <1>1, <1>2 DEF Link, Reached, RxAfter
<1>3. CASE f.msg # NoMsg
  <2>1. f.msg.id = a.done + 1 /\ f.part = a.part + 1 /\ c.done = a.done /\ c.part = a.part + 1
    BY <1>3 DEF Link
  <2>2. a.part = Len(e.rx) /\ \A i \in 1 .. Len(e.rx) : e.rx[i] = <<a.done + 1, i>>
    BY DEF Reached
  <2>3. PICK x : x = <<f.msg.id, f.part>>
    OBVIOUS
  <2>4. x \in Piece /\ Len(e.rx) \in Nat
    BY <2>3, FragmentTyped DEF Piece
  <2>5. u.rx = Append(e.rx, x)
    BY <1>3, <2>3 DEF RxAfter
  <2>6. Len(u.rx) = Len(e.rx) + 1 /\ u.rx[Len(e.rx) + 1] = x /\ \A i \in 1 .. Len(e.rx) : u.rx[i] = e.rx[i]
    BY <2>4, <2>5
  <2>7. ASSUME NEW i \in 1 .. Len(u.rx) PROVE u.rx[i] = <<c.done + 1, i>>
    <3>1. CASE i \in 1 .. Len(e.rx)
      BY <2>1, <2>2, <2>6, <3>1
    <3>2. CASE i = Len(e.rx) + 1
      BY <2>1, <2>2, <2>3, <2>6, <3>2
    <3> QED BY <2>4, <2>6, <3>1, <3>2
  <2>8. c.part = Len(u.rx)
    BY <2>1, <2>2, <2>6
  <2>9. Len(H) <= c.done /\ (u.state # "Closing" => Len(H) = c.done)
    BY <2>1 DEF Reached
  <2> QED BY <1>1, <2>7, <2>8, <2>9 DEF Reached
<1> QED BY <1>2, <1>3

\* The next message is added to what was given, in its place or, if the
\* connection is closed on it, after a gap.
LEMMA GivenGrows ==
    ASSUME NEW r, NEW e, NEW u, NEW H, NEW B, GivenOK(r, e, H, B), e.state # "Closed", SentOK(B),
           NEW n \in Nat, Len(H) < n, n \in 1 .. Len(B), n = Len(H) + 1 \/ (u.state = "Closed" /\ ~Exact(r)),
           NEW N, N = Append(H, [id |-> n, ok |-> TRUE])
    PROVE  GivenOK(r, u, N, B)
<1>1. H \in Seq(Given) /\ WholeAndSent(H, B) /\ InOrder(H) /\ (\A i \in 1 .. Len(H) : H[i].id = i)
  BY DEF GivenOK
<1>2. PICK g : g = [id |-> n, ok |-> TRUE]
  OBVIOUS
<1>3. g \in Given /\ g.id = n /\ g.ok = TRUE
  BY <1>2 DEF Given
<1>4. PICK m : m = Len(H)
  OBVIOUS
<1>5. N \in Seq(Given) /\ m \in Nat /\ Len(N) = m + 1 /\ N[m + 1] = g /\ \A i \in 1 .. m : N[i] = H[i]
  BY <1>1, <1>2, <1>3, <1>4
<1>6. \A i \in 1 .. m + 1 : i \in 1 .. m \/ i = m + 1
  BY <1>5
<1>7. WholeAndSent(N, B)
  <2>1. ASSUME NEW i \in 1 .. m + 1 PROVE N[i].ok /\ N[i].id \in 1 .. Len(B)
    <3>1. CASE i \in 1 .. m
      BY <1>1, <1>4, <1>5, <3>1 DEF WholeAndSent
    <3>2. CASE i = m + 1
      BY <1>3, <1>5, <3>2
    <3> QED BY <1>6, <3>1, <3>2
  <2> QED BY <1>5, <2>1 DEF WholeAndSent
<1>8. InOrder(N)
  <2>1. ASSUME NEW i \in 1 .. m + 1, NEW j \in 1 .. m + 1, i < j PROVE N[i].id < N[j].id
    <3>1. i \in 1 .. m /\ N[i].id = i
      BY <1>1, <1>4, <1>5, <2>1
    <3>2. CASE j \in 1 .. m
      BY <1>1, <1>4, <1>5, <2>1, <3>1, <3>2
    <3>3. CASE j = m + 1
      <4>1. N[j].id = n /\ m < n
        BY <1>3, <1>4, <1>5, <3>3
      <4> QED BY <1>5, <3>1, <4>1
    <3> QED BY <1>6, <3>2, <3>3
  <2> QED BY <1>5, <2>1 DEF InOrder
<1>9. u.state # "Closed" \/ Exact(r) => \A i \in 1 .. Len(N) : N[i].id = i
  BY <1>1, <1>3, <1>4, <1>5, <1>6
<1> QED BY <1>5, <1>7, <1>8, <1>9 DEF GivenOK

Passed(t, whole) == whole /\ (t.err = "none" \/ t.state = "Closed") /\ t.state # "Closing"
Emptied(t, whole) == IF whole THEN [t EXCEPT !.rx = <<>>] ELSE t
GivenAlso(H, t, f) == Append(H, [id |-> f.msg.id, ok |-> t.rx = Whole(f.msg)])

\* Passing a message up empties the reassembler only.
LEMMA EmptiedFields ==
    ASSUME NEW t, t \in Draft \/ t \in EndPoint, NEW whole \in BOOLEAN, NEW v, v = Emptied(t, whole)
    PROVE  /\ t \in Draft => v \in Draft
           /\ t \in EndPoint => v \in EndPoint
           /\ v.rx = IF whole THEN <<>> ELSE t.rx
           /\ v.state = t.state /\ v.queue = t.queue /\ v.confRcvd = t.confRcvd
           /\ v.tx = t.tx /\ v.msg = t.msg /\ v.part = t.part /\ v.rxNext = t.rxNext /\ v.err = t.err
           /\ v.gatt = t.gatt /\ v.expecting = t.expecting /\ v.ackRcv = t.ackRcv /\ v.hsTimer = t.hsTimer
           /\ v.txNext = t.txNext /\ v.out = t.out
<1>1. CASE whole
  <2>1. v = [t EXCEPT !.rx = <<>>]
    BY <1>1 DEF Emptied
  <2>2. <<>> \in Seq(Piece)
    OBVIOUS
  <2>3. t \in Draft => v \in Draft
    BY <2>1, <2>2 DEF Draft, EndPointWith
  <2>4. t \in EndPoint => v \in EndPoint
    BY <2>1, <2>2 DEF EndPoint, EndPointWith
  <2>5. t \in Draft
    BY EndPointIsDraft
  <2>6. /\ v.rx = <<>>
        /\ v.state = t.state /\ v.queue = t.queue /\ v.confRcvd = t.confRcvd
        /\ v.tx = t.tx /\ v.msg = t.msg /\ v.part = t.part /\ v.rxNext = t.rxNext /\ v.err = t.err
        /\ v.gatt = t.gatt /\ v.expecting = t.expecting /\ v.ackRcv = t.ackRcv /\ v.hsTimer = t.hsTimer
        /\ v.txNext = t.txNext /\ v.out = t.out
    BY <2>1, <2>5 DEF Draft, EndPointWith
  <2> QED BY <1>1, <2>3, <2>4, <2>6
<1>2. CASE ~whole
  BY <1>2 DEF Emptied
<1> QED BY <1>1, <1>2

\* The end point goes on after a fragment.
Continues(r, e, u, S) ==
    /\ u \in Draft /\ u.err = "none"
    /\ Working(r, u, S)
    /\ u.state = e.state /\ u.confRcvd = e.confRcvd
    /\ Emits(e, u, S) \/ Holds(e, u, S)

\* A handler that fails on the way closes the end point, and nothing is passed up.
LEMMA ReceiveBroken ==
    ASSUME NEW r \in Roles, NEW e, e.state # "Closed", NEW t, Broken(e, t), NEW whole \in BOOLEAN,
           NEW v, v = Emptied(t, whole), NEW u, u = Settle(r, v)
    PROVE  Over(r, e, u) /\ ~Passed(t, whole)
<1>1. t \in Draft /\ t.err # "none" /\ Harmless(t.err) /\ t.state = e.state /\ t.out = e.out
  BY DEF Broken
<1>2. v \in Draft /\ v.err = t.err /\ v.state = t.state /\ v.out = t.out
  BY <1>1, EmptiedFields
<1>3. Broken(v, v) /\ v.state # "Closed"
  BY <1>1, <1>2 DEF Broken
<1>4. Ended(r, v, u)
  BY <1>3, SettleBroken
<1>5. Over(r, e, u)
  BY <1>1, <1>2, <1>4 DEF Ended, Over
<1> QED BY <1>1, <1>5 DEF Passed

\* The fragment is accepted and the end point goes on.
LEMMA ReceiveGoes ==
    ASSUME NEW r \in Roles, NEW A, NEW B, NEW e, NEW H, Busy(r, e, A), SentOK(B), GivenOK(r, e, H, B),
           NEW f \in Item, IsFragment(f), PartOf(f, B),
           NEW a \in Position, NEW c \in Position, Reached(e, a, H), Link(a, f, c),
           NEW b, Accepted(r, e, f, b, A), NEW t, Goes(r, b, t, A),
           NEW whole \in BOOLEAN, whole <=> Reassembled(t, f),
           NEW v, v = Emptied(t, whole), NEW u, u = Settle(r, v),
           NEW N, N = IF Passed(t, whole) THEN GivenAlso(H, t, f) ELSE H
    PROVE  GivenOK(r, u, N, B) /\ Continues(r, e, u, A) /\ Reached(u, c, N)
<1>1. e.rx \in Seq(Piece) /\ e.state # "Closed" /\ a.done \in Nat
  BY DEF Busy, Draft, EndPointWith, IsConnected, Position
<1>2. /\ t \in Draft /\ t.err = "none" /\ Working(r, t, A) /\ t.state = e.state /\ t.confRcvd = e.confRcvd
      /\ t.rx = RxAfter(e, f) /\ t.rxNext = IncSeqNum(e.rxNext)
      /\ TxPosition(b, A) = TxPosition(e, A) /\ b.out = e.out
  BY DEF Goes, Accepted
<1>3. Emits(b, t, A) \/ Holds(b, t, A)
  BY DEF Goes
<1>4. /\ v \in Draft
      /\ v.rx = IF whole THEN <<>> ELSE t.rx
      /\ v.state = t.state /\ v.queue = t.queue /\ v.confRcvd = t.confRcvd
      /\ v.tx = t.tx /\ v.msg = t.msg /\ v.part = t.part /\ v.rxNext = t.rxNext /\ v.err = t.err
      /\ v.gatt = t.gatt /\ v.expecting = t.expecting /\ v.ackRcv = t.ackRcv
      /\ v.txNext = t.txNext /\ v.out = t.out
  BY <1>2, EmptiedFields
<1>5. u = v
  BY <1>2, <1>4 DEF Settle
<1>6. Continues(r, e, u, A)
  <2>1. Working(r, v, A)
    BY <1>2, <1>4, SameWorking
  <2>2. TxPosition(v, A) = TxPosition(t, A)
    BY <1>4 DEF TxPosition, Popped
  <2>3. Emits(e, v, A) \/ Holds(e, v, A)
    BY <1>2, <1>3, <1>4, <2>2 DEF Emits, Holds
  <2> QED BY <1>2, <1>4, <1>5, <2>1, <2>3 DEF Continues
<1>7. Extends(B, B)
  BY ExtendsItself
<1>8. CASE f.msg # NoMsg /\ f.part = f.msg.size
  <2>1. /\ t.rx = Whole(f.msg) /\ t.rx # <<>>
        /\ f.msg.id = a.done + 1 /\ c.done = a.done + 1 /\ c.part = 0
    BY <1>1, <1>2, <1>8, MessageComplete
  <2>2. whole
    BY <1>8, <2>1 DEF Reassembled
  <2>3. u.rx = <<>> /\ u.state = e.state /\ c.seq = u.rxNext
    <3>1. c.seq = IncSeqNum(e.rxNext)
      BY DEF Link, Reached
    <3> QED BY <1>2, <1>4, <1>5, <2>2, <3>1
  <2>4. CASE e.state = "Closing"
    <3>1. N = H
      BY <1>2, <2>4 DEF Passed
    <3>2. Len(H) <= c.done
      <4>1. Len(H) <= a.done /\ Len(H) \in Nat
        BY DEF Reached, GivenOK
      <4> QED BY <1>1, <2>1, <4>1
    <3>3. Reached(u, c, N)
      BY <2>1, <2>3, <2>4, <3>1, <3>2 DEF Reached
    <3>4. GivenOK(r, u, N, B)
      BY <1>1, <1>7, <3>1, GivenKeeps
    <3> QED BY <1>6, <3>3, <3>4
  <2>5. CASE e.state # "Closing"
    <3>1. Len(H) = a.done
      BY <2>5 DEF Reached
    <3>2. PICK n : n = a.done + 1
      OBVIOUS
    <3>3. N = Append(H, [id |-> n, ok |-> TRUE])
      BY <1>2, <2>1, <2>2, <2>5, <3>2 DEF Passed, GivenAlso
    <3>4. n \in Nat /\ Len(H) < n /\ n = Len(H) + 1
      BY <1>1, <3>1, <3>2
    <3>5. n \in 1 .. Len(B)
      BY <1>8, <2>1, <3>2 DEF PartOf
    <3>6. GivenOK(r, u, N, B)
      BY <1>1, <3>3, <3>4, <3>5, GivenGrows
    <3>7. Len(N) = n
      <4>1. H \in Seq(Given)
        BY DEF GivenOK
      <4> QED BY <3>3, <3>4, <4>1
    <3>8. Reached(u, c, N)
      <4>1. Len(N) = c.done /\ Len(N) <= c.done
        BY <2>1, <3>2, <3>4, <3>7
      <4> QED BY <2>1, <2>3, <4>1 DEF Reached
    <3> QED BY <1>6, <3>6, <3>8
  <2> QED BY <2>4, <2>5
<1>9. CASE f.msg = NoMsg \/ f.part # f.msg.size
  <2>1. ~whole /\ N = H
    BY <1>9 DEF Reassembled, Passed
  <2>2. u.rx = RxAfter(e, f) /\ u.rxNext = IncSeqNum(e.rxNext) /\ u.state = e.state
    BY <1>2, <1>4, <1>5, <2>1
  <2>3. Reached(u, c, N)
    BY <1>1, <1>9, <2>1, <2>2, MessageGoesOn
  <2>4. GivenOK(r, u, N, B)
    BY <1>1, <1>7, <2>1, GivenKeeps
  <2> QED BY <1>6, <2>3, <2>4
<1> QED BY <1>8, <1>9

\* The fragment is accepted and ends a graceful close.
LEMMA ReceiveEnds ==
    ASSUME NEW r \in Roles, NEW A, NEW B, NEW e, NEW H, Busy(r, e, A), SentOK(B), GivenOK(r, e, H, B),
           NEW f \in Item, IsFragment(f), PartOf(f, B),
           NEW a \in Position, NEW c \in Position, Reached(e, a, H), Link(a, f, c),
           NEW b, Accepted(r, e, f, b, A), NEW t, Ended(r, b, t), b.state = "Closing",
           NEW whole \in BOOLEAN, whole => Reassembled(t, f),
           NEW v, v = Emptied(t, whole), NEW u, u = Settle(r, v),
           NEW N, N = IF Passed(t, whole) THEN GivenAlso(H, t, f) ELSE H
    PROVE  GivenOK(r, u, N, B) /\ Over(r, e, u)
<1>1. e.rx \in Seq(Piece) /\ e.state # "Closed" /\ a.done \in Nat /\ b.out = e.out /\ b.rx = RxAfter(e, f)
  BY DEF Busy, Draft, EndPointWith, IsConnected, Position, Accepted
<1>2. Over(r, b, t) /\ t \in EndPoint /\ t.state = "Closed" /\ t.err # "none"
  BY DEF Ended, Over
<1>3. /\ v \in EndPoint /\ v.state = t.state /\ v.err = t.err /\ v.out = t.out /\ v.ackRcv = t.ackRcv
      /\ v.hsTimer = t.hsTimer
  BY <1>2, EmptiedFields
<1>4. u = v
  BY <1>2, <1>3 DEF Settle, DoClose
<1>5. Over(r, e, u)
  BY <1>1, <1>2, <1>3, <1>4 DEF Over
<1>6. CASE ~Passed(t, whole)
  <2>1. Extends(B, B)
    BY ExtendsItself
  <2> QED BY <1>1, <1>5, <1>6, <2>1, GivenKeeps
<1>7. CASE Passed(t, whole)
  <2>1. t.rx # <<>> /\ f.msg # NoMsg /\ f.part = f.msg.size
    BY <1>7 DEF Passed, Reassembled
  <2>2. t.rx = b.rx /\ r = "central"
    BY <2>1 DEF Ended
  <2>3. t.rx = Whole(f.msg) /\ f.msg.id = a.done + 1
    BY <1>1, <2>1, <2>2, MessageComplete
  <2>4. PICK n : n = a.done + 1
    OBVIOUS
  <2>5. N = Append(H, [id |-> n, ok |-> TRUE])
    BY <1>7, <2>3, <2>4 DEF GivenAlso
  <2>6. n \in Nat /\ Len(H) < n
    <3>1. Len(H) <= a.done /\ Len(H) \in Nat
      BY DEF Reached, GivenOK
    <3> QED BY <1>1, <2>4, <3>1
  <2>7. n \in 1 .. Len(B)
    BY <2>1, <2>3, <2>4 DEF PartOf
  <2>8. ~Exact(r)
    BY <2>2 DEF Accepted, Busy, Working, Exact
  <2>9. u.state = "Closed"
    BY <1>5 DEF Over
  <2>10. GivenOK(r, u, N, B)
    BY <1>1, <2>5, <2>6, <2>7, <2>8, <2>9, GivenGrows
  <2> QED BY <1>5, <2>10
<1> QED BY <1>6, <1>7

\* The peer without the fragment that is being received.
LEMMA FragmentTaken ==
    ASSUME NEW r \in Roles, NEW e, NEW d, NEW A, NEW B, NEW H, NEW K, Pair(r, e, d, A, B, H, K),
           d.out # <<>>, IsFragment(Head(d.out)), NEW w, w = Taken(d)
    PROVE  /\ Shakes(r, e, w) /\ RoleOK(Peer(r), w, B)
           /\ Flow(e, A, w, K) /\ GivenOK(Peer(r), w, K, A)
           /\ IsConnected(e) \/ e.state = "Closed"
           /\ d.out \in Seq(Item) /\ Head(d.out) \in Item /\ PartOf(Head(d.out), B)
           /\ w.out = Tail(d.out) /\ w.state = d.state /\ TxPosition(w, B) = TxPosition(d, B)
<1>1. Peer(r) \in Roles /\ RoleOK(Peer(r), d, B)
  BY PeerFacts DEF Pair
<1>2. /\ RoleOK(Peer(r), w, B) /\ w.out = Tail(d.out) /\ w.state = d.state /\ w.confRcvd = d.confRcvd
      /\ TxPosition(w, B) = TxPosition(d, B) /\ w.rx = d.rx /\ w.rxNext = d.rxNext
      /\ d.out \in Seq(Item)
  BY <1>1, TakenOK
<1>3. Head(d.out) \in Item /\ PartOf(Head(d.out), B)
  <2>1. Head(d.out) \in Item
    BY <1>2
  <2> QED BY <1>2, <2>1, FlowHead DEF Pair
<1>4. Flow(e, A, w, K)
  <2>1. CASE d.state = "Closed"
    BY <1>2, <2>1, FlowReceiverEnds DEF Pair
  <2>2. CASE d.state # "Closed"
    BY <1>2, <2>2, FlowReceiverKeeps DEF Pair
  <2> QED BY <2>1, <2>2
<1>5. GivenOK(Peer(r), w, K, A)
  <2>1. SentOK(A) /\ Extends(A, A)
    BY ExtendsItself DEF Pair, RoleOK
  <2> QED BY <1>2, <2>1, GivenKeeps DEF Pair
<1>6. e.state \in State /\ d.state \in State
  BY <1>1 DEF Pair, RoleOK, EndPoint, EndPointWith
<1>7. CASE r = "central"
  <2>1. HandshakeOK(e, d) /\ Peer(r) = "peripheral"
    BY <1>7, PeerFacts DEF Pair, Shakes
  <2>2. d.state # "Closed"
    BY <1>1, <2>1 DEF RoleOK, EndPointOK
  <2>3. HandshakeOK(e, w)
    BY <1>2, <1>6, <2>1, <2>2, HandshakeFromPeripheral
  <2>4. d.state \notin {"Ready", "Connecting"}
    BY <2>1 DEF HandshakeOK
  <2>5. \A b \in BOOLEAN : Head(d.out) # CapsResponse(b)
    BY ItemFacts DEF IsFragment
  <2>6. Head(d.out) = d.out[1]
    BY <1>2
  <2>7. d.state # "Aborting"
    <3>1. PICK x : x = CapsResponse(FALSE)
      OBVIOUS
    <3>2. d.state = "Aborting" => d.out = <<x>>
      BY <2>1, <3>1 DEF HandshakeOK
    <3>3. d.out = <<x>> => d.out[1] = x
      OBVIOUS
    <3> QED BY <2>5, <2>6, <3>1, <3>2, <3>3
  <2>8. IsConnected(d)
    BY <1>6, <2>2, <2>4, <2>7 DEF IsConnected, State
  <2>9. e.state # "Connecting"
    BY <2>1, <2>5, <2>6, <2>8 DEF HandshakeOK
  <2>10. e.state # "Ready" /\ e.state # "Aborting"
    BY <2>1, <2>4 DEF HandshakeOK
  <2> QED BY <1>2, <1>3, <1>4, <1>5, <1>6, <1>7, <2>3, <2>9, <2>10 DEF IsConnected, State, Shakes
<1>8. CASE r # "central"
  <2>1. HandshakeOK(d, e)
    BY <1>8 DEF Pair, Shakes
  <2>2. HandshakeOK(w, e)
    BY <1>2, <2>1, HandshakeFromCentral
  <2>3. AllFragments(d.out)
    BY <2>1, FragmentsOnly DEF HandshakeOK
  <2>4. IsConnected(e) \/ e.state = "Closed"
    BY <2>1, <2>3 DEF HandshakeOK
  <2> QED BY <1>2, <1>3, <1>4, <1>5, <1>8, <2>2, <2>4 DEF Shakes
<1> QED BY <1>7, <1>8

\* Receive on a closed end point drops the fragment.
LEMMA FragmentDropped ==
    ASSUME NEW r \in Roles, NEW e, NEW d, NEW A, NEW B, NEW H, NEW K, Pair(r, e, d, A, B, H, K),
           d.out # <<>>, IsFragment(Head(d.out)), NEW w, w = Taken(d), e.state = "Closed"
    PROVE  Pair(r, e, w, A, B, H, K)
<1>1. /\ Shakes(r, e, w) /\ RoleOK(Peer(r), w, B)
      /\ Flow(e, A, w, K) /\ GivenOK(Peer(r), w, K, A) /\ d.out \in Seq(Item)
      /\ w.out = Tail(d.out) /\ w.state = d.state /\ TxPosition(w, B) = TxPosition(d, B)
  BY FragmentTaken
<1>2. Flow(w, B, e, H)
  <2>1. Flow(d, B, e, H)
    BY DEF Pair
  <2> QED BY <1>1, <2>1, FlowTakes
<1> QED BY <1>1, <1>2 DEF Pair

\* Receive on a connected one.
LEMMA FragmentReceived ==
    ASSUME NEW r \in Roles, NEW e, NEW d, NEW A, NEW B, NEW H, NEW K, Pair(r, e, d, A, B, H, K),
           d.out # <<>>, NEW f, f = Head(d.out), IsFragment(f), NEW w, w = Taken(d), IsConnected(e),
           NEW ok \in BOOLEAN, NEW t, t = ReceiveFragment(r, e, f, ok),
           NEW whole \in BOOLEAN,
           whole <=> Reassembled(t, f) /\ ~LastAckOfClose(HandleCharacteristicReceived(e, f), f),
           NEW v, v = Emptied(t, whole), NEW u, u = Settle(r, v),
           NEW N, N = IF Passed(t, whole) THEN GivenAlso(H, t, f) ELSE H
    PROVE  Pair(r, u, w, A, B, N, K)
<1>1. /\ Shakes(r, e, w) /\ RoleOK(Peer(r), w, B)
      /\ Flow(e, A, w, K) /\ GivenOK(Peer(r), w, K, A) /\ d.out \in Seq(Item)
      /\ f \in Item /\ PartOf(f, B)
      /\ w.out = Tail(d.out) /\ w.state = d.state /\ TxPosition(w, B) = TxPosition(d, B)
  BY FragmentTaken
<1>2. Busy(r, e, A) /\ Extends(A, A)
  BY BusyInPair
<1>3. RoleOK(r, e, A) /\ Flow(d, B, e, H) /\ SentOK(A) /\ SentOK(B) /\ GivenOK(r, e, H, B) /\ Extends(B, B)
  BY ExtendsItself DEF Pair, RoleOK
<1>4. e.state # "Closed" /\ e.state # "Ready"
  BY DEF IsConnected
<1>5. ASSUME NEW a \in Position, NEW c \in Position, Link(a, f, c), Reached(e, a, H)
      PROVE  GivenOK(r, u, N, B) /\ (Over(r, e, u) \/ (Continues(r, e, u, A) /\ Reached(u, c, N)))
  <2>1. \/ Broken(e, t)
        \/ \E b : /\ Accepted(r, e, f, b, A) /\ Driven(r, b, t, A)
                  /\ LastAckOfClose(HandleCharacteristicReceived(e, f), f) => t.state = "Closed"
    BY <1>1, <1>2, <1>5, ReceiveFragmentOK
  <2>2. CASE Broken(e, t)
    <3>1. Over(r, e, u) /\ N = H
      BY <1>4, <2>2, ReceiveBroken
    <3>2. GivenOK(r, u, N, B)
      BY <1>3, <1>4, <3>1, GivenKeeps
    <3> QED BY <3>1, <3>2
  <2>3. CASE \E b : /\ Accepted(r, e, f, b, A) /\ Driven(r, b, t, A)
                    /\ LastAckOfClose(HandleCharacteristicReceived(e, f), f) => t.state = "Closed"
    <3>1. PICK b : /\ Accepted(r, e, f, b, A) /\ Driven(r, b, t, A)
                   /\ LastAckOfClose(HandleCharacteristicReceived(e, f), f) => t.state = "Closed"
      BY <2>3
    <3>2. b.state = e.state /\ b.out = e.out
      BY <3>1 DEF Accepted
    <3>3. CASE Broken(b, t)
      <4>1. Over(r, b, u) /\ N = H
        BY <1>4, <3>2, <3>3, ReceiveBroken
      <4>2. Over(r, e, u)
        BY <3>2, <4>1 DEF Over
      <4>3. GivenOK(r, u, N, B)
        BY <1>3, <1>4, <4>1, GivenKeeps
      <4> QED BY <4>2, <4>3
    <3>4. CASE Goes(r, b, t, A)
      <4>1. t.state # "Closed"
        BY <1>4, <3>2, <3>4 DEF Goes
      <4>2. whole <=> Reassembled(t, f)
        BY <3>1, <4>1
      <4> QED BY <1>1, <1>2, <1>3, <1>5, <3>1, <3>4, <4>2, ReceiveGoes
    <3>5. CASE Ended(r, b, t) /\ b.state = "Closing"
      <4>1. whole => Reassembled(t, f)
        OBVIOUS
      <4> QED BY <1>1, <1>2, <1>3, <1>5, <3>1, <3>5, <4>1, ReceiveEnds
    <3> QED BY <3>1, <3>3, <3>4, <3>5 DEF Driven
  <2> QED BY <2>1, <2>2, <2>3
<1>6. PICK a \in Position, b \in Position, c \in Position : Link(a, f, c) /\ Reached(e, a, H)
  BY <1>1, <1>3, <1>4, FlowHead
<1>7. GivenOK(r, u, N, B) /\ (Over(r, e, u) \/ Continues(r, e, u, A))
  BY <1>5, <1>6
<1>8. Flow(w, B, u, N)
  <2>1. ASSUME NEW x \in Position, NEW y \in Position, Link(x, Head(d.out), y),
               e.state # "Closed" => Reached(e, x, H), u.state # "Closed"
        PROVE  Reached(u, y, N)
    <3>1. ~Over(r, e, u)
      BY <2>1 DEF Over
    <3> QED BY <1>4, <1>5, <2>1, <3>1
  <2> QED BY <1>1, <1>3, <2>1, FlowTakes
<1>9. CASE Over(r, e, u)
  <2>1. RoleOK(r, u, A)
    BY <1>3, <1>9, EndedRoleOK
  <2>2. Flow(u, A, w, K)
    BY <1>1, <1>9, FlowSenderEnds
  <2>3. Shakes(r, u, w)
    <3>1. CASE r = "central"
      BY <1>1, <1>9, <3>1, HandshakeCentralEnds DEF Shakes
    <3>2. CASE r = "peripheral"
      BY <1>1, <1>4, <1>9, <3>2, HandshakePeripheralEnds DEF Shakes
    <3> QED BY <3>1, <3>2 DEF Roles
  <2> QED BY <1>1, <1>7, <1>8, <2>1, <2>2, <2>3 DEF Pair
<1>10. CASE Continues(r, e, u, A)
  <2>1. IsConnected(u) /\ u.state # "Closed" /\ u.confRcvd = e.confRcvd
    BY <1>10 DEF Continues, IsConnected
  <2>2. Goes(r, u, u, A)
    BY <1>10 DEF Continues, Goes, Holds
  <2>3. RoleOK(r, u, A)
    BY <1>3, <2>1, <2>2, GoesRoleOK
  <2>4. Sends(e, A, u, A) /\ SendsFragments(e, u)
    <3>1. Emits(e, u, A) \/ Holds(e, u, A)
      BY <1>10 DEF Continues
    <3> QED BY <3>1 DEF Emits, Holds, Sends, SendsFragments
  <2>5. Flow(u, A, w, K)
    BY <1>1, <1>2, <1>3, <1>4, <2>1, <2>3, <2>4, FlowSends
  <2>6. e.out \in Seq(Item)
    BY <1>3 DEF RoleOK, EndPoint, EndPointWith
  <2>7. Shakes(r, u, w)
    <3>1. CASE r = "central"
      BY <1>1, <2>1, <2>4, <2>6, <3>1, HandshakeCentralGoes DEF Shakes
    <3>2. CASE r = "peripheral"
      BY <1>1, <2>1, <2>4, <2>6, <3>2, HandshakePeripheralGoes DEF Shakes
    <3> QED BY <3>1, <3>2 DEF Roles
  <2> QED BY <1>1, <1>7, <1>8, <2>3, <2>5, <2>7 DEF Pair
<1> QED BY <1>7, <1>9, <1>10

-----------------------------------------------------------------------------
(* The actions.                                                            *)

\* The invariant gives a pair for either role.
LEMMA PairBefore ==
    ASSUME IInv, NEW r \in Roles
    PROVE  Pair(r, ep[r], ep[Peer(r)], sent[r], sent[Peer(r)], got[r], got[Peer(r)])
<1>1. PICK E, S, G : E = ep /\ S = sent /\ G = got
  OBVIOUS
<1>2. Good(E, S, G)
  BY <1>1 DEF IInv, IInvOf
<1>3. PairAt(r, E, S, G)
  BY <1>2, GoodIsPair
<1> QED BY <1>1, <1>3 DEF PairAt

\* Both end points after a step.
LEMMA BothStep ==
    ASSUME IInv, NEW r \in Roles, NEW u, NEW w, NEW A, NEW H,
           ep' = [ep EXCEPT ![r] = u, ![Peer(r)] = w],
           sent' = [sent EXCEPT ![r] = A], got' = [got EXCEPT ![r] = H],
           Pair(r, u, w, A, sent[Peer(r)], H, got[Peer(r)])
    PROVE  IInv'
<1>1. PICK q : q = Peer(r)
  OBVIOUS
<1>2. q \in Roles /\ q # r
  BY <1>1, PeerFacts
<1>3. /\ ep \in [Roles -> EndPoint] /\ sent \in [Roles -> Seq(Message)] /\ got \in [Roles -> Seq(Given)]
  BY DEF IInv, IInvOf
<1>4. PICK F, T, U : F = ep' /\ T = sent' /\ U = got'
  OBVIOUS
<1>5. DOMAIN F = Roles /\ F = [x \in Roles |-> F[x]] /\ F[r] = u /\ F[q] = w
  BY <1>1, <1>2, <1>3, <1>4
<1>6. DOMAIN T = Roles /\ T = [x \in Roles |-> T[x]] /\ T[r] = A /\ T[q] = sent[q]
  BY <1>2, <1>3, <1>4
<1>7. DOMAIN U = Roles /\ U = [x \in Roles |-> U[x]] /\ U[r] = H /\ U[q] = got[q]
  BY <1>2, <1>3, <1>4
<1>8. PairAt(r, F, T, U)
  BY <1>1, <1>5, <1>6, <1>7 DEF PairAt
<1>9. IInvOf(F, T, U)
  BY <1>5, <1>6, <1>7, <1>8, Assemble
<1> QED BY <1>4, <1>9 DEF IInv

Becomes(r, u) == ep' = [ep EXCEPT ![r] = u]

\* One end point after a step that sends and receives no message.
LEMMA OneStep ==
    ASSUME IInv, NEW r \in Roles, NEW u, Becomes(r, u), UNCHANGED <<sent, got>>,
           Pair(r, u, ep[Peer(r)], sent[r], sent[Peer(r)], got[r], got[Peer(r)])
    PROVE  IInv'
<1>1. /\ ep \in [Roles -> EndPoint] /\ sent \in [Roles -> Seq(Message)] /\ got \in [Roles -> Seq(Given)]
  BY DEF IInv, IInvOf
<1>2. Peer(r) \in Roles /\ Peer(r) # r
  BY PeerFacts
<1>3. PICK w, A, H : w = ep[Peer(r)] /\ A = sent[r] /\ H = got[r]
  OBVIOUS
<1>4. ep' = [ep EXCEPT ![r] = u, ![Peer(r)] = w]
  BY <1>1, <1>2, <1>3 DEF Becomes
<1>5. sent' = [sent EXCEPT ![r] = A] /\ got' = [got EXCEPT ![r] = H]
  BY <1>1, <1>3
<1>6. Pair(r, u, w, A, sent[Peer(r)], H, got[Peer(r)])
  BY <1>3
<1> QED BY <1>4, <1>5, <1>6, BothStep

\* The same when an item of the peer is taken.
LEMMA InputStep ==
    ASSUME IInv, NEW r \in Roles, NEW t, NEW w, UpdateWithInput(r, t), ep[Peer(r)].out # <<>>,
           w = Taken(ep[Peer(r)]), UNCHANGED <<sent, got>>,
           Pair(r, Settle(r, t), w, sent[r], sent[Peer(r)], got[r], got[Peer(r)])
    PROVE  IInv'
<1>1. /\ ep \in [Roles -> EndPoint] /\ sent \in [Roles -> Seq(Message)] /\ got \in [Roles -> Seq(Given)]
  BY DEF IInv, IInvOf
<1>2. Peer(r) \in Roles /\ Peer(r) # r
  BY PeerFacts
<1>3. PICK u, A, H : u = Settle(r, t) /\ A = sent[r] /\ H = got[r]
  OBVIOUS
<1>4. ep' = [ep EXCEPT ![r] = u, ![Peer(r)] = w]
  BY <1>1, <1>2, <1>3 DEF UpdateWithInput, Taken
<1>5. sent' = [sent EXCEPT ![r] = A] /\ got' = [got EXCEPT ![r] = H]
  BY <1>1, <1>3
<1>6. Pair(r, u, w, A, sent[Peer(r)], H, got[Peer(r)])
  BY <1>3
<1> QED BY <1>4, <1>5, <1>6, BothStep

\* The platform accepts or refuses.
LEMMA OutcomesAreBoolean == Outcomes \subseteq BOOLEAN
BY DEF Outcomes

\* From here on one lemma for each action: it preserves the invariant.
LEMMA CloseStep ==
    ASSUME IInv, NEW r \in Roles, Close(r)
    PROVE  IInv'
<1>1. PICK e, d, A, B, H, K : /\ e = ep[r] /\ d = ep[Peer(r)] /\ A = sent[r] /\ B = sent[Peer(r)]
                              /\ H = got[r] /\ K = got[Peer(r)]
  OBVIOUS
<1>2. Pair(r, e, d, A, B, H, K)
  BY <1>1, PairBefore
<1>3. PICK u : u = DoClose(r, e, FALSE, "app_closed")
  OBVIOUS
<1>4. e.state = "Connected" /\ r \in Closers /\ Becomes(r, u) /\ UNCHANGED <<sent, got>>
  BY <1>1, <1>3 DEF Close, Becomes
<1>5. Pair(r, u, d, A, B, H, K)
  BY <1>2, <1>3, <1>4, ClosedByApplication
<1> QED BY <1>1, <1>4, <1>5, OneStep

LEMMA PeerClosedStep ==
    ASSUME IInv, NEW r \in Roles, PeerClosed(r)
    PROVE  IInv'
<1>1. PICK e, d, A, B, H, K : /\ e = ep[r] /\ d = ep[Peer(r)] /\ A = sent[r] /\ B = sent[Peer(r)]
                              /\ H = got[r] /\ K = got[Peer(r)]
  OBVIOUS
<1>2. Pair(r, e, d, A, B, H, K)
  BY <1>1, PairBefore
<1>3. PICK u : u = DoClose(r, e, TRUE, "disconnected")
  OBVIOUS
<1>4. e.state \notin {"Ready", "Closed"} /\ Becomes(r, u) /\ UNCHANGED <<sent, got>>
  BY <1>1, <1>3 DEF PeerClosed, Becomes
<1>5. Pair(r, u, d, A, B, H, K)
  BY <1>2, <1>3, <1>4, Disconnected
<1> QED BY <1>1, <1>4, <1>5, OneStep

LEMMA UnsubscribeStep ==
    ASSUME IInv, HandleUnsubscribeComplete
    PROVE  IInv'
<1>0. PICK r \in Roles : r = "central"
  BY DEF Roles
<1>1. PICK e, d, A, B, H, K : /\ e = ep[r] /\ d = ep[Peer(r)] /\ A = sent[r] /\ B = sent[Peer(r)]
                              /\ H = got[r] /\ K = got[Peer(r)]
  OBVIOUS
<1>2. Pair(r, e, d, A, B, H, K)
  BY <1>1, PairBefore
<1>3. PICK u : u = Free(e)
  OBVIOUS
<1>4. Becomes(r, u) /\ UNCHANGED <<sent, got>>
  BY <1>0, <1>1, <1>3 DEF HandleUnsubscribeComplete, Becomes
<1>5. e \in Draft /\ Harmless(e.err)
  BY <1>2, EndPointIsDraft DEF Pair, RoleOK
<1>6. Ended(r, e, u)
  BY <1>3, <1>5, FreeEnds
<1>7. Pair(r, u, d, A, B, H, K)
  BY <1>0, <1>2, <1>6, PairEnds
<1> QED BY <1>1, <1>4, <1>7, OneStep

\* A timer that runs belongs to an end point that is not closed.
LEMMA TimersRun ==
    ASSUME NEW r \in Roles, NEW e, NEW A, RoleOK(r, e, A), e.ackRcv \/ e.hsTimer
    PROVE  e.state \notin {"Ready", "Closed"}
<1>1. EndPointOK(r, e, A)
  BY DEF RoleOK
<1>2. e.state # "Closed"
  BY <1>1 DEF EndPointOK
<1>3. e.state # "Ready"
  BY <1>1 DEF EndPointOK, InitEndPoint
<1> QED BY <1>2, <1>3

\* Stopping a timer keeps the type.
LEMMA TimeoutTyped ==
    ASSUME NEW e \in Draft, NEW why \in Errors, NEW x, x = [e EXCEPT !.ackRcv = FALSE] \/ x = [e EXCEPT !.hsTimer = FALSE],
           NEW t, t = Fail(x, why)
    PROVE  t \in Draft /\ t.err = why /\ t.out = e.out /\ t.rx = e.rx /\ t.state = e.state
<1>1. CASE x = [e EXCEPT !.ackRcv = FALSE]
  <2>1. x \in Draft
    BY <1>1 DEF Draft, EndPointWith
  <2>2. x.out = e.out /\ x.rx = e.rx /\ x.state = e.state
    BY <1>1 DEF Draft, EndPointWith
  <2> QED BY <2>1, <2>2, FailTyped
<1>2. CASE x = [e EXCEPT !.hsTimer = FALSE]
  <2>1. x \in Draft
    BY <1>2 DEF Draft, EndPointWith
  <2>2. x.out = e.out /\ x.rx = e.rx /\ x.state = e.state
    BY <1>2 DEF Draft, EndPointWith
  <2> QED BY <2>1, <2>2, FailTyped
<1> QED BY <1>1, <1>2

LEMMA AckReceivedTimeoutStep ==
    ASSUME IInv, NEW r \in Roles, HandleAckReceivedTimeout(r)
    PROVE  IInv'
<1>1. PICK e, d, A, B, H, K : /\ e = ep[r] /\ d = ep[Peer(r)] /\ A = sent[r] /\ B = sent[Peer(r)]
                              /\ H = got[r] /\ K = got[Peer(r)]
  OBVIOUS
<1>2. Pair(r, e, d, A, B, H, K)
  BY <1>1, PairBefore
<1>3. PICK x, t, u : x = [e EXCEPT !.ackRcv = FALSE] /\ t = Fail(x, "ack_timeout") /\ u = Settle(r, t)
  OBVIOUS
<1>4. e.ackRcv /\ Becomes(r, u) /\ UNCHANGED <<sent, got>>
  BY <1>1, <1>3 DEF HandleAckReceivedTimeout, Update, Becomes
<1>5. RoleOK(r, e, A) /\ e \in Draft
  BY <1>2, EndPointIsDraft DEF Pair, RoleOK
<1>6. e.state \notin {"Ready", "Closed"}
  BY <1>4, <1>5, TimersRun
<1>7. "ack_timeout" \in Errors /\ "ack_timeout" # "none" /\ Harmless("ack_timeout")
  BY HarmlessErrors
<1>8. t \in Draft /\ t.err = "ack_timeout" /\ t.out = e.out /\ t.rx = e.rx /\ t.state = e.state
  BY <1>3, <1>5, <1>7, TimeoutTyped
<1>9. Pair(r, u, d, A, B, H, K)
  BY <1>2, <1>3, <1>6, <1>7, <1>8, PairFails
<1> QED BY <1>1, <1>4, <1>9, OneStep

LEMMA ConnectTimeoutStep ==
    ASSUME IInv, NEW r \in Roles, HandleConnectTimeout(r)
    PROVE  IInv'
<1>1. PICK e, d, A, B, H, K : /\ e = ep[r] /\ d = ep[Peer(r)] /\ A = sent[r] /\ B = sent[Peer(r)]
                              /\ H = got[r] /\ K = got[Peer(r)]
  OBVIOUS
<1>2. Pair(r, e, d, A, B, H, K)
  BY <1>1, PairBefore
<1>3. PICK x, t, u : x = [e EXCEPT !.hsTimer = FALSE] /\ t = Fail(x, "connect_timeout") /\ u = Settle(r, t)
  OBVIOUS
<1>4. e.hsTimer /\ Becomes(r, u) /\ UNCHANGED <<sent, got>>
  BY <1>1, <1>3 DEF HandleConnectTimeout, Update, Becomes
<1>5. RoleOK(r, e, A) /\ e \in Draft
  BY <1>2, EndPointIsDraft DEF Pair, RoleOK
<1>6. e.state \notin {"Ready", "Closed"}
  BY <1>4, <1>5, TimersRun
<1>7. "connect_timeout" \in Errors /\ "connect_timeout" # "none" /\ Harmless("connect_timeout")
  BY HarmlessErrors
<1>8. t \in Draft /\ t.err = "connect_timeout" /\ t.out = e.out /\ t.rx = e.rx /\ t.state = e.state
  BY <1>3, <1>5, <1>7, TimeoutTyped
<1>9. Pair(r, u, d, A, B, H, K)
  BY <1>2, <1>3, <1>6, <1>7, <1>8, PairFails
<1> QED BY <1>1, <1>4, <1>9, OneStep

LEMMA SendAckTimeoutStep ==
    ASSUME IInv, NEW r \in Roles, HandleSendAckTimeout(r)
    PROVE  IInv'
<1>1. PICK e, d, A, B, H, K : /\ e = ep[r] /\ d = ep[Peer(r)] /\ A = sent[r] /\ B = sent[Peer(r)]
                              /\ H = got[r] /\ K = got[Peer(r)]
  OBVIOUS
<1>2. Pair(r, e, d, A, B, H, K)
  BY <1>1, PairBefore
<1>3. PICK x : x = WithoutTimer(e)
  OBVIOUS
<1>4. PICK ok \in BOOLEAN : Update(r, IF x.ackFlight THEN x ELSE DriveStandAloneAck(r, x, ok))
  BY <1>1, <1>3, OutcomesAreBoolean DEF HandleSendAckTimeout, WithoutTimer
<1>5. PICK t, u : t = (IF x.ackFlight THEN x ELSE DriveStandAloneAck(r, x, ok)) /\ u = Settle(r, t)
  OBVIOUS
<1>6. e.sendAck /\ e.state # "Closed" /\ Becomes(r, u) /\ UNCHANGED <<sent, got>>
  BY <1>1, <1>4, <1>5 DEF HandleSendAckTimeout, Update, Becomes
<1>7. RoleOK(r, e, A) /\ e.state \in State
  BY <1>2 DEF Pair, RoleOK, EndPoint, EndPointWith
<1>8. IsConnected(e)
  <2>1. e.state # "Ready"
    BY <1>6, <1>7 DEF RoleOK, EndPointOK, InitEndPoint
  <2>2. e.state \notin {"Connecting", "Aborting"}
    BY <1>6, <1>7 DEF RoleOK, EndPointOK, Starting
  <2> QED BY <1>6, <1>7, <2>1, <2>2 DEF IsConnected, State
<1>9. t \in {x, DriveStandAloneAck(r, x, ok)}
  BY <1>5
<1>10. Pair(r, u, d, A, B, H, K)
  BY <1>2, <1>3, <1>5, <1>8, <1>9, SendAckTimedOut
<1> QED BY <1>1, <1>6, <1>10, OneStep

LEMMA FragmentConfirmationStep ==
    ASSUME IInv, NEW r \in Roles, HandleFragmentConfirmationReceived(r)
    PROVE  IInv'
<1>1. PICK e, d, A, B, H, K : /\ e = ep[r] /\ d = ep[Peer(r)] /\ A = sent[r] /\ B = sent[Peer(r)]
                              /\ H = got[r] /\ K = got[Peer(r)]
  OBVIOUS
<1>2. Pair(r, e, d, A, B, H, K)
  BY <1>1, PairBefore
<1>3. PICK y : y = (e.ackToSend /\ ~e.ackFlight)
  OBVIOUS
<1>4. y \in BOOLEAN
  BY <1>3
<1>5. PICK x : x = Confirmed(e, y)
  OBVIOUS
<1>6. x = [ep[r] EXCEPT !.gatt = FALSE, !.ackToSend = @ /\ ~ep[r].ackFlight, !.ackFlight = FALSE]
  BY <1>1, <1>3, <1>5 DEF Confirmed
<1>7. PICK ok, t : /\ ok \in BOOLEAN /\ Update(r, t)
                   /\ t \in {DriveStandAloneAck(r, x, ok), DriveSending(r, x, ok)}
  BY <1>6, OutcomesAreBoolean DEF HandleFragmentConfirmationReceived
<1>8. PICK u : u = Settle(r, t)
  OBVIOUS
<1>9. e.confRcvd /\ IsConnected(e) /\ Becomes(r, u) /\ UNCHANGED <<sent, got>>
  BY <1>1, <1>7, <1>8 DEF HandleFragmentConfirmationReceived, Update, Becomes
<1>10. e.confRcvd = TRUE
  BY <1>2, <1>9 DEF Pair, RoleOK, EndPoint, EndPointWith
<1>11. Pair(r, u, d, A, B, H, K)
  BY <1>2, <1>4, <1>5, <1>7, <1>8, <1>9, <1>10, FragmentConfirmed
<1> QED BY <1>1, <1>9, <1>11, OneStep

LEMMA HandshakeConfirmationStep ==
    ASSUME IInv, NEW r \in Roles, HandleHandshakeConfirmationReceived(r)
    PROVE  IInv'
<1>1. PICK e, d, A, B, H, K : /\ e = ep[r] /\ d = ep[Peer(r)] /\ A = sent[r] /\ B = sent[Peer(r)]
                              /\ H = got[r] /\ K = got[Peer(r)]
  OBVIOUS
<1>2. Pair(r, e, d, A, B, H, K)
  BY <1>1, PairBefore
<1>3. PICK x : x = HandshakeConfirmed(e)
  OBVIOUS
<1>4. x = [ep[r] EXCEPT !.gatt = FALSE, !.confRcvd = TRUE, !.queue = Tail(@)]
  BY <1>1, <1>3 DEF HandshakeConfirmed
<1>5. PICK ok, t :
         /\ ok \in BOOLEAN /\ Update(r, t)
         /\ t = IF r = "central"
                THEN IF ok THEN Subscribing(x) ELSE Fail(x, "gatt_failed")
                ELSE CASE x.state = "Aborting" -> Fail(x, "incompatible_versions")
                       [] x.state # "Aborting" /\ x.lwin <= ImmediateAckThreshold /\ x.queue = <<>> ->
                            DriveStandAloneAck(r, x, ok)
                       [] OTHER -> DriveSending(r, x, ok)
  BY <1>4, OutcomesAreBoolean DEF HandleHandshakeConfirmationReceived, Subscribing
<1>6. PICK u : u = Settle(r, t)
  OBVIOUS
<1>7. e.gatt /\ ~e.confRcvd /\ e.state # "Closed" /\ Becomes(r, u) /\ UNCHANGED <<sent, got>>
  BY <1>1, <1>5, <1>6 DEF HandleHandshakeConfirmationReceived, Update, Becomes
<1>8. CASE r = "central"
  <2>1. t = Subscribing(x) \/ t = Fail(x, "gatt_failed")
    BY <1>5, <1>8
  <2>2. Pair("central", e, d, A, B, H, K) /\ u = Settle("central", t)
    BY <1>2, <1>6, <1>8
  <2>3. Pair("central", u, d, A, B, H, K)
    BY <1>3, <1>7, <2>1, <2>2, HandshakeConfirmedToCentral
  <2>4. Pair(r, u, d, A, B, H, K)
    BY <1>8, <2>3
  <2> QED BY <1>1, <1>7, <2>4, OneStep
<1>9. CASE r # "central"
  <2>1. r = "peripheral"
    BY <1>9, PeerFacts
  <2>2. RoleOK(r, e, A) /\ e \in Draft /\ e.state \in State /\ e.queue \in Seq(Message)
    BY <1>2, EndPointIsDraft DEF Pair, RoleOK, EndPoint, EndPointWith
  <2>3. e.state # "Ready"
    BY <1>7, <2>2 DEF RoleOK, EndPointOK, InitEndPoint
  <2>4. e.state # "Connecting"
    BY <1>7, <2>1, <2>2 DEF RoleOK, EndPointOK, Starting
  <2>5. e.state = "Aborting" \/ IsConnected(e)
    BY <1>7, <2>2, <2>3, <2>4 DEF IsConnected, State
  <2>6. CASE e.state = "Aborting"
    <3>1. PICK q : q = Tail(e.queue)
      OBVIOUS
    <3>2. PICK m : m = NoMsg
      OBVIOUS
    <3>3. e.queue = <<m>>
      BY <2>1, <2>2, <2>6, <3>2 DEF RoleOK, EndPointOK, Starting
    <3>4. q \in Seq(Message)
      BY <3>1, <3>3
    <3>5. x = [e EXCEPT !.gatt = FALSE, !.confRcvd = TRUE, !.queue = q]
      BY <1>3, <3>1 DEF HandshakeConfirmed
    <3>6. x \in Draft
      BY <2>2, <3>4, <3>5, ConfirmedTyped
    <3>7. x.state = e.state /\ x.out = e.out /\ x.rx = e.rx
      BY <2>2, <3>5 DEF Draft, EndPointWith
    <3>8. t = Fail(x, "incompatible_versions")
      BY <1>5, <1>9, <2>6, <3>7
    <3>9. /\ "incompatible_versions" \in Errors /\ "incompatible_versions" # "none"
          /\ Harmless("incompatible_versions")
      BY HarmlessErrors
    <3>10. t \in Draft /\ t.err = "incompatible_versions" /\ t.out = e.out /\ t.rx = e.rx /\ t.state = e.state
      BY <3>6, <3>7, <3>8, <3>9, FailTyped
    <3>11. Pair(r, u, d, A, B, H, K)
      BY <1>2, <1>6, <2>6, <3>9, <3>10, PairFails
    <3> QED BY <1>1, <1>7, <3>11, OneStep
  <2>7. CASE IsConnected(e)
    <3>1. x.state = e.state
      BY <1>3, <2>2 DEF HandshakeConfirmed, Draft, EndPointWith
    <3>2. x.state # "Aborting"
      BY <2>7, <3>1 DEF IsConnected
    <3>3. t \in {DriveStandAloneAck(r, x, ok), DriveSending(r, x, ok)}
      BY <1>5, <1>9, <3>2
    <3>4. Pair(r, u, d, A, B, H, K)
      BY <1>2, <1>3, <1>5, <1>6, <1>7, <2>1, <2>7, <3>3, HandshakeConfirmedToPeripheral
    <3> QED BY <1>1, <1>7, <3>4, OneStep
  <2> QED BY <2>5, <2>6, <2>7
<1> QED BY <1>8, <1>9

LEMMA SubscribeCompleteStep ==
    ASSUME IInv, HandleSubscribeComplete
    PROVE  IInv'
<1>0. PICK r \in Roles : r = "central"
  BY DEF Roles
<1>1. PICK e, d, A, B, H, K : /\ e = ep[r] /\ d = ep[Peer(r)] /\ A = sent[r] /\ B = sent[Peer(r)]
                              /\ H = got[r] /\ K = got[Peer(r)]
  OBVIOUS
<1>2. Pair(r, e, d, A, B, H, K)
  BY <1>1, PairBefore
<1>3. PICK x : x = Subscribed(e)
  OBVIOUS
<1>4. PICK ok \in BOOLEAN : Update(r, DriveSending("central", x, ok))
  BY <1>0, <1>1, <1>3, OutcomesAreBoolean DEF HandleSubscribeComplete, Subscribed
<1>5. PICK t, u : t = DriveSending("central", x, ok) /\ u = Settle("central", t)
  OBVIOUS
<1>6. e.sub = "begun" /\ e.state # "Closed" /\ Becomes(r, u) /\ UNCHANGED <<sent, got>>
  BY <1>0, <1>1, <1>4, <1>5 DEF HandleSubscribeComplete, Update, Becomes
<1>7. Pair("central", e, d, A, B, H, K)
  BY <1>0, <1>2
<1>8. Pair("central", u, d, A, B, H, K)
  BY <1>3, <1>5, <1>6, <1>7, SubscribeCompleted
<1>9. Pair(r, u, d, A, B, H, K)
  BY <1>0, <1>8
<1> QED BY <1>1, <1>6, <1>9, OneStep

LEMMA StartConnectStep ==
    ASSUME IInv, StartConnect
    PROVE  IInv'
<1>0. PICK r \in Roles : r = "central"
  BY DEF Roles
<1>1. PICK e, d, A, B, H, K : /\ e = ep[r] /\ d = ep[Peer(r)] /\ A = sent[r] /\ B = sent[Peer(r)]
                              /\ H = got[r] /\ K = got[Peer(r)]
  OBVIOUS
<1>2. Pair(r, e, d, A, B, H, K)
  BY <1>1, PairBefore
<1>3. PICK x : x = Connecting(e)
  OBVIOUS
<1>4. PICK ok, t : ok \in BOOLEAN /\ Update(r, t) /\ t = IF ok THEN Requesting(x) ELSE Fail(x, "gatt_failed")
  BY <1>0, <1>1, <1>3, OutcomesAreBoolean DEF StartConnect, Connecting, Requesting
<1>5. PICK u : u = Settle("central", t)
  OBVIOUS
<1>6. e.state = "Ready" /\ Becomes(r, u) /\ UNCHANGED <<sent, got>>
  BY <1>0, <1>1, <1>4, <1>5 DEF StartConnect, Update, Becomes
<1>7. Pair("central", e, d, A, B, H, K)
  BY <1>0, <1>2
<1>8. t = Requesting(x) \/ t = Fail(x, "gatt_failed")
  BY <1>4
<1>9. Pair("central", u, d, A, B, H, K)
  BY <1>3, <1>5, <1>6, <1>7, <1>8, ConnectStarted
<1>10. Pair(r, u, d, A, B, H, K)
  BY <1>0, <1>9
<1> QED BY <1>1, <1>6, <1>10, OneStep

LEMMA SendStep ==
    ASSUME IInv, NEW r \in Roles, NEW n \in Sizes[r], Send(r, n)
    PROVE  IInv'
<1>1. PICK e, d, A, B, H, K : /\ e = ep[r] /\ d = ep[Peer(r)] /\ A = sent[r] /\ B = sent[Peer(r)]
                              /\ H = got[r] /\ K = got[Peer(r)]
  OBVIOUS
<1>2. Pair(r, e, d, A, B, H, K)
  BY <1>1, PairBefore
<1>3. PICK m, x : m = [id |-> Len(A) + 1, size |-> n] /\ x = WithMessage(e, m)
  OBVIOUS
<1>4. PICK ok \in BOOLEAN : Update(r, DriveSending(r, x, ok))
  BY <1>1, <1>3, OutcomesAreBoolean DEF Send, WithMessage
<1>5. PICK t, u : t = DriveSending(r, x, ok) /\ u = Settle(r, t)
  OBVIOUS
<1>6. PICK T : T = Append(A, m)
  OBVIOUS
<1>7. e.state = "Connected" /\ ep' = [ep EXCEPT ![r] = u] /\ sent' = [sent EXCEPT ![r] = T] /\ got' = got
  BY <1>1, <1>3, <1>4, <1>5, <1>6 DEF Send, Update
<1>8. n \in Nat \ {0} /\ IsConnected(e)
  BY <1>7, SizesAssumption DEF IsConnected
<1>9. Pair(r, u, d, T, B, H, K)
  BY <1>2, <1>3, <1>5, <1>6, <1>8, MessageSent
<1>10. ep \in [Roles -> EndPoint] /\ got \in [Roles -> Seq(Given)] /\ Peer(r) \in Roles /\ Peer(r) # r
  BY PeerFacts DEF IInv, IInvOf
<1>11. ep' = [ep EXCEPT ![r] = u, ![Peer(r)] = d] /\ got' = [got EXCEPT ![r] = H]
  BY <1>1, <1>7, <1>10
<1>12. Pair(r, u, d, T, sent[Peer(r)], H, got[Peer(r)])
  BY <1>1, <1>9
<1>13. sent' = [sent EXCEPT ![r] = T]
  BY <1>7
<1> QED BY <1>11, <1>12, <1>13, BothStep

LEMMA RequestStep ==
    ASSUME IInv, HandleCapabilitiesRequestReceived
    PROVE  IInv'
<1>0. PICK r \in Roles : r = "peripheral"
  BY DEF Roles
<1>1. PICK e, d, A, B, H, K : /\ e = ep[r] /\ d = ep[Peer(r)] /\ A = sent[r] /\ B = sent[Peer(r)]
                              /\ H = got[r] /\ K = got[Peer(r)]
  OBVIOUS
<1>2. Pair(r, e, d, A, B, H, K)
  BY <1>1, PairBefore
<1>3. PICK state, t :
         /\ state \in {"Connecting", "Aborting"} /\ UpdateWithInput(r, t)
         /\ t = IF e.state # "Ready" THEN Fail(e, "incorrect_state") ELSE Answering(e, state)
  BY <1>0, <1>1 DEF HandleCapabilitiesRequestReceived, Answering
<1>4. d.out # <<>> /\ Head(d.out).kind = "caps_request" /\ UNCHANGED <<sent, got>>
  BY <1>0, <1>1 DEF HandleCapabilitiesRequestReceived, Incoming
<1>5. PICK u, w : u = Settle("peripheral", t) /\ w = Taken(d)
  OBVIOUS
<1>6. Pair("peripheral", e, d, A, B, H, K)
  BY <1>0, <1>2
<1>7. Pair("peripheral", u, w, A, B, H, K)
  BY <1>3, <1>4, <1>5, <1>6, RequestReceived
<1>8. Pair(r, Settle(r, t), w, A, B, H, K)
  BY <1>0, <1>5, <1>7
<1> QED BY <1>1, <1>3, <1>4, <1>5, <1>8, InputStep

\* A handler that does nothing on a closed end point.
LEMMA SettleClosed ==
    ASSUME NEW r, NEW e, e.state = "Closed"
    PROVE  Settle(r, e) = e
BY DEF Settle, DoClose

LEMMA SubscribeStep ==
    ASSUME IInv, HandleSubscribeReceived
    PROVE  IInv'
<1>0. PICK r \in Roles : r = "peripheral"
  BY DEF Roles
<1>1. PICK e, d, A, B, H, K : /\ e = ep[r] /\ d = ep[Peer(r)] /\ A = sent[r] /\ B = sent[Peer(r)]
                              /\ H = got[r] /\ K = got[Peer(r)]
  OBVIOUS
<1>2. Pair(r, e, d, A, B, H, K)
  BY <1>1, PairBefore
<1>3. Pair("peripheral", e, d, A, B, H, K)
  BY <1>0, <1>2
<1>4. d.out # <<>> /\ Head(d.out).kind = "subscribe" /\ UNCHANGED <<sent, got>>
  BY <1>0, <1>1 DEF HandleSubscribeReceived, Incoming
<1>5. PICK w : w = Taken(d)
  OBVIOUS
<1>6. /\ w.out = <<>> /\ e.out = <<>> /\ e.state \in {"Connecting", "Aborting", "Closed"}
      /\ w.state \in {"Connecting", "Closed"} /\ ~IsFragment(Head(d.out))
  BY <1>3, <1>4, <1>5, SubscriptionTaken
<1>7. CASE e.state = "Closed"
  <2>1. UpdateWithInput(r, e)
    BY <1>0, <1>1, <1>7 DEF HandleSubscribeReceived
  <2>2. Pair("peripheral", e, w, A, B, H, K)
    BY <1>3, <1>4, <1>5, <1>6, <1>7, SubscriptionIgnored
  <2>3. Pair(r, Settle(r, e), w, A, B, H, K)
    BY <1>0, <1>7, <2>2, SettleClosed
  <2> QED BY <1>1, <1>4, <1>5, <2>1, <2>3, InputStep
<1>8. CASE e.state # "Closed"
  <2>1. PICK b : b = (e.state = "Connecting")
    OBVIOUS
  <2>2. b \in BOOLEAN
    BY <2>1
  <2>2a. PICK ok \in BOOLEAN : \E s, t :
           /\ s = SendCharacteristic(e, CapsResponse(b), ok)
           /\ t = IF ok /\ b THEN Connect(s) ELSE s
           /\ UpdateWithInput(r, t)
    BY <1>0, <1>1, <1>6, <1>8, <2>1, OutcomesAreBoolean DEF HandleSubscribeReceived, Connect
  <2>3. PICK s, t :
           /\ s = SendCharacteristic(e, CapsResponse(b), ok)
           /\ t = IF ok /\ b THEN Connect(s) ELSE s
           /\ UpdateWithInput(r, t)
    BY <2>2a
  <2>4. PICK u : u = Settle("peripheral", t)
    OBVIOUS
  <2>5. Pair("peripheral", u, w, A, B, H, K)
    BY <1>3, <1>4, <1>5, <1>8, <2>1, <2>2, <2>3, <2>4, ResponseSent
  <2>6. Pair(r, Settle(r, t), w, A, B, H, K)
    BY <1>0, <2>4, <2>5
  <2> QED BY <1>1, <1>4, <1>5, <2>3, <2>6, InputStep
<1> QED BY <1>7, <1>8

LEMMA ResponseStep ==
    ASSUME IInv, HandleCapabilitiesResponseReceived
    PROVE  IInv'
<1>0. PICK r \in Roles : r = "central" /\ Peer(r) = "peripheral"
  BY DEF Roles, Peer
<1>1. PICK e, d, A, B, H, K : /\ e = ep[r] /\ d = ep[Peer(r)] /\ A = sent[r] /\ B = sent[Peer(r)]
                              /\ H = got[r] /\ K = got[Peer(r)]
  OBVIOUS
<1>2. Pair(r, e, d, A, B, H, K)
  BY <1>1, PairBefore
<1>3. Pair("central", e, d, A, B, H, K)
  BY <1>0, <1>2
<1>4. d.out # <<>> /\ Head(d.out).kind = "caps_response" /\ UNCHANGED <<sent, got>>
  BY <1>0, <1>1 DEF HandleCapabilitiesResponseReceived, Incoming
<1>5. PICK w : w = Taken(d)
  OBVIOUS
<1>6. CASE e.state = "Closed"
  <2>1. UpdateWithInput(r, e)
    BY <1>0, <1>1, <1>6 DEF HandleCapabilitiesResponseReceived
  <2>2. Pair("central", e, w, A, B, H, K)
    BY <1>3, <1>4, <1>5, <1>6, ResponseIgnored
  <2>3. Pair(r, Settle(r, e), w, A, B, H, K)
    BY <1>0, <1>6, <2>2, SettleClosed
  <2> QED BY <1>1, <1>4, <1>5, <2>1, <2>3, InputStep
<1>7. CASE e.state # "Closed"
  <2>1. PICK t : /\ UpdateWithInput(r, t)
                 /\ \/ t = Fail(e, "incompatible_versions")
                    \/ t = Welcomed(e) /\ e.state = "Connecting" /\ Head(d.out).ok
    BY <1>0, <1>1, <1>7 DEF HandleCapabilitiesResponseReceived, Welcomed
  <2>2. PICK u : u = Settle("central", t)
    OBVIOUS
  <2>3. Pair("central", u, w, A, B, H, K)
    BY <1>3, <1>4, <1>5, <1>7, <2>1, <2>2, ResponseReceived
  <2>4. Pair(r, Settle(r, t), w, A, B, H, K)
    BY <1>0, <2>2, <2>3
  <2> QED BY <1>1, <1>4, <1>5, <2>1, <2>4, InputStep
<1> QED BY <1>6, <1>7

LEMMA ReceiveStep ==
    ASSUME IInv, NEW r \in Roles, Receive(r)
    PROVE  IInv'
<1>1. PICK e, d, A, B, H, K : /\ e = ep[r] /\ d = ep[Peer(r)] /\ A = sent[r] /\ B = sent[Peer(r)]
                              /\ H = got[r] /\ K = got[Peer(r)]
  OBVIOUS
<1>2. Pair(r, e, d, A, B, H, K)
  BY <1>1, PairBefore
<1>3. d.out # <<>> /\ IsFragment(Head(d.out)) /\ sent' = sent
  BY <1>1 DEF Receive, Incoming, IsFragment
<1>4. PICK w, f : w = Taken(d) /\ f = Head(d.out)
  OBVIOUS
<1>5. IsConnected(e) \/ e.state = "Closed"
  BY <1>2, <1>3, <1>4, FragmentTaken
<1>6. CASE e.state = "Closed"
  <2>1. ~IsConnected(e)
    BY <1>6 DEF IsConnected
  <2>2. UpdateWithInput(r, e) /\ got' = got
    BY <1>1, <2>1 DEF Receive
  <2>3. Pair(r, e, w, A, B, H, K)
    BY <1>2, <1>3, <1>4, <1>6, FragmentDropped
  <2>4. Pair(r, Settle(r, e), w, A, B, H, K)
    BY <1>6, <2>3, SettleClosed
  <2> QED BY <1>1, <1>3, <1>4, <2>2, <2>4, InputStep
<1>7. CASE IsConnected(e)
  <2>1. got \in [Roles -> Seq(Given)]
    BY DEF IInv, IInvOf
  <2>2. PICK ok \in BOOLEAN : \E t, whole :
           /\ t = ReceiveFragment(r, e, f, ok)
           /\ whole = (Reassembled(t, f) /\ ~LastAckOfClose(HandleCharacteristicReceived(e, f), f))
           /\ UpdateWithInput(r, IF whole THEN [t EXCEPT !.rx = <<>>] ELSE t)
           /\ got' = IF Passed(t, whole)
                     THEN [got EXCEPT ![r] = Append(@, [id |-> f.msg.id, ok |-> t.rx = Whole(f.msg)])]
                     ELSE got
    BY <1>1, <1>4, <1>7, OutcomesAreBoolean DEF Receive, Passed
  <2>2a. PICK t, whole :
           /\ t = ReceiveFragment(r, e, f, ok)
           /\ whole = (Reassembled(t, f) /\ ~LastAckOfClose(HandleCharacteristicReceived(e, f), f))
           /\ UpdateWithInput(r, IF whole THEN [t EXCEPT !.rx = <<>>] ELSE t)
           /\ got' = IF Passed(t, whole)
                     THEN [got EXCEPT ![r] = Append(@, [id |-> f.msg.id, ok |-> t.rx = Whole(f.msg)])]
                     ELSE got
    BY <2>2
  <2>3. PICK v, u, N : /\ v = Emptied(t, whole) /\ u = Settle(r, v)
                       /\ N = IF Passed(t, whole) THEN GivenAlso(H, t, f) ELSE H
    OBVIOUS
  <2>4. UpdateWithInput(r, v)
    BY <2>2a, <2>3 DEF Emptied
  <2>5. got' = [got EXCEPT ![r] = N]
    BY <1>1, <2>1, <2>2a, <2>3 DEF GivenAlso
  <2>6. whole \in BOOLEAN /\ (whole <=> Reassembled(t, f) /\ ~LastAckOfClose(HandleCharacteristicReceived(e, f), f))
    BY <2>2a
  <2>7. Pair(r, u, w, A, B, N, K)
    <3>1. t = ReceiveFragment(r, e, f, ok) /\ IsFragment(f)
      BY <1>3, <1>4, <2>2a
    <3> QED BY <1>2, <1>3, <1>4, <1>7, <2>3, <2>6, <3>1, FragmentReceived
  <2>8. ep \in [Roles -> EndPoint] /\ sent \in [Roles -> Seq(Message)] /\ Peer(r) \in Roles /\ Peer(r) # r
    BY PeerFacts DEF IInv, IInvOf
  <2>9. ep' = [ep EXCEPT ![r] = u, ![Peer(r)] = w]
    BY <1>1, <1>3, <1>4, <2>3, <2>4, <2>8 DEF UpdateWithInput, Taken
  <2>10. sent' = [sent EXCEPT ![r] = A]
    BY <1>1, <1>3, <2>8
  <2>11. Pair(r, u, w, A, sent[Peer(r)], N, got[Peer(r)])
    BY <1>1, <2>7
  <2> QED BY <2>5, <2>9, <2>10, <2>11, BothStep
<1> QED BY <1>5, <1>6, <1>7

-----------------------------------------------------------------------------
(* The invariant.                                                          *)

\* A connection starts in the invariant: nothing is under way, and each
\* reassembler expects the number the other fragmenter is at.
LEMMA InitIInv == Init => IInv
<1> SUFFICES ASSUME Init PROVE IInv
  OBVIOUS
<1>1. PICK c, p, S : c = InitEndPoint("central") /\ p = InitEndPoint("peripheral") /\ S = <<>>
  OBVIOUS
<1>2. c \in EndPoint /\ p \in EndPoint
  BY <1>1, SeqNumFacts, SeqModAssumption, WindowAssumption
     DEF InitEndPoint, EndPoint, EndPointWith, State, TxState, Subscription, Message, NoMsg, SeqNums
<1>3. /\ c.state = "Ready" /\ c.err = "none" /\ c.out = <<>> /\ c.rx = <<>> /\ c.tx = "Idle"
      /\ ~c.confRcvd /\ c.txNext = 0 /\ c.rxNext = 1
  BY <1>1 DEF InitEndPoint
<1>4. /\ p.state = "Ready" /\ p.err = "none" /\ p.out = <<>> /\ p.rx = <<>> /\ p.tx = "Idle"
      /\ ~p.confRcvd /\ p.txNext = 1 /\ p.rxNext = 0
  BY <1>1 DEF InitEndPoint
<1>5. /\ S \in Seq(Message) /\ S \in Seq(Given) /\ Len(S) = 0
  BY <1>1
<1>6. RoleOK("central", c, S) /\ RoleOK("peripheral", p, S)
  BY <1>1, <1>2, <1>3, <1>4, <1>5 DEF RoleOK, Harmless, SentOK, EndPointOK, IsConnected
<1>7. HandshakeOK(c, p)
  BY <1>3, <1>4 DEF HandshakeOK, IsConnected, Greetings, AllFragments
<1>8. ASSUME NEW e, NEW d, e \in {c, p}, d \in {c, p}, e.txNext = d.rxNext
      PROVE  Flow(e, S, d, S)
  <2>1. PICK a : a = TxPosition(e, S)
    OBVIOUS
  <2>2. a \in Position /\ a.seq = d.rxNext /\ a.done = 0 /\ a.part = 0
    BY <1>2, <1>3, <1>4, <1>8, <2>1, SeqNumFacts DEF TxPosition, Popped, Position, EndPoint, EndPointWith
  <2>3. e.out = <<>> /\ d.rx = <<>> /\ e.out \in Seq(Item)
    BY <1>2, <1>3, <1>4, <1>8 DEF EndPoint, EndPointWith
  <2>4. Chain(a, e.out, a)
    BY <2>2, <2>3, ChainEmpty
  <2>5. Reached(d, a, S)
    BY <1>5, <2>2, <2>3 DEF Reached
  <2> QED BY <2>1, <2>2, <2>3, <2>4, <2>5 DEF Flow
<1>9. Flow(c, S, p, S) /\ Flow(p, S, c, S)
  BY <1>3, <1>4, <1>8
<1>10. GivenOK("central", c, S, S) /\ GivenOK("peripheral", p, S, S)
  BY <1>5 DEF GivenOK, WholeAndSent, InOrder
<1>11. PICK E, T : E = [r \in Roles |-> InitEndPoint(r)] /\ T = [r \in Roles |-> S]
  OBVIOUS
<1>12. /\ E["central"] = c /\ E["peripheral"] = p /\ T["central"] = S /\ T["peripheral"] = S
       /\ Peer("central") = "peripheral" /\ Peer("peripheral") = "central"
  BY <1>1, <1>11 DEF Roles, Peer
<1>13. E \in [Roles -> EndPoint] /\ T \in [Roles -> Seq(Message)] /\ T \in [Roles -> Seq(Given)]
  BY <1>1, <1>2, <1>5, <1>11 DEF Roles
<1>14. Good(E, T, T)
  BY <1>6, <1>7, <1>9, <1>10, <1>12 DEF Good, Roles
<1>15. ep = E /\ sent = T /\ got = T
  BY <1>1, <1>11 DEF Init
<1> QED BY <1>13, <1>14, <1>15 DEF IInv, IInvOf

\* Every action preserves the invariant.
LEMMA NextIInv == IInv /\ [Next]_vars => IInv'
<1> SUFFICES ASSUME IInv, [Next]_vars PROVE IInv'
  OBVIOUS
<1>1. CASE UNCHANGED vars
  BY <1>1 DEF vars, IInv
<1>2. CASE StartConnect
  BY <1>2, StartConnectStep
<1>3. CASE HandleUnsubscribeComplete
  BY <1>3, UnsubscribeStep
<1>4. ASSUME NEW r \in Roles, NEW n \in Sizes[r], Send(r, n) PROVE IInv'
  BY <1>4, SendStep
<1>5. ASSUME NEW r \in Roles, Close(r) PROVE IInv'
  BY <1>5, CloseStep
<1>6. ASSUME NEW r \in Roles, HandleConnectTimeout(r) PROVE IInv'
  BY <1>6, ConnectTimeoutStep
<1>7. ASSUME NEW r \in Roles, HandleAckReceivedTimeout(r) PROVE IInv'
  BY <1>7, AckReceivedTimeoutStep
<1>8. ASSUME NEW r \in Roles, PeerClosed(r) PROVE IInv'
  BY <1>8, PeerClosedStep
<1>9. ASSUME NEW r \in Roles, HandleSendAckTimeout(r) PROVE IInv'
  BY <1>9, SendAckTimeoutStep
<1>10. ASSUME NEW r \in Roles, Confirm(r) PROVE IInv'
  BY <1>10, HandshakeConfirmationStep, FragmentConfirmationStep, SubscribeCompleteStep DEF Confirm
<1>11. ASSUME NEW r \in Roles, Deliver(r) PROVE IInv'
  BY <1>11, ReceiveStep, RequestStep, SubscribeStep, ResponseStep DEF Deliver
<1>12. CASE SystemStep
  BY <1>12, <1>3, <1>6, <1>7, <1>8, <1>9, <1>10, <1>11 DEF SystemStep
<1> QED BY <1>1, <1>2, <1>4, <1>5, <1>12 DEF Next

\* In every reachable state both end points are well formed, the handshake is
\* consistent, and what is under way in either direction leads from the
\* reassembler's position to the fragmenter's.
THEOREM InvariantHolds == SafetySpec => []IInv
<1>1. Init => IInv
  BY InitIInv
<1>2. IInv /\ [Next]_vars => IInv'
  BY NextIInv
<1> QED BY <1>1, <1>2, PTL DEF SafetySpec

\* What the invariant says of one end point.
LEMMA RolesOK ==
    ASSUME IInv, NEW r \in Roles
    PROVE  RoleOK(r, ep[r], sent[r])
BY DEF IInv, IInvOf, Good

\* Between two handlers the end points have the shape BLEEndPoint.h declares,
\* and an end point has an error exactly if it has been closed.
THEOREM TypeCorrect == SafetySpec => []TypeOK
<1>1. IInv => TypeOK
  BY RolesOK DEF IInv, IInvOf, TypeOK, RoleOK
<1> QED BY <1>1, InvariantHolds, PTL

\* HandleCharacteristicReceived never refuses a fragment of a correct peer for
\* its sequence number, its flags or missing data, whatever the order of
\* fragments, confirmations, time-outs, failures and closes.
THEOREM EnginesAlwaysAgree == SafetySpec => []EnginesAgree
<1>1. IInv => EnginesAgree
  BY RolesOK DEF EnginesAgree, RoleOK, Harmless
<1> QED BY <1>1, InvariantHolds, PTL

\* A connected end point that waits for an acknowledgment has its ack-received
\* timer running.
THEOREM AckTimerRuns == SafetySpec => []AckExpectedHasTimer
<1>1. IInv => AckExpectedHasTimer
  BY RolesOK DEF AckExpectedHasTimer, RoleOK, EndPointOK, Working
<1> QED BY <1>1, InvariantHolds, PTL

\* Whoever closes and whenever: what an application is given are messages that
\* its peer sent, put together from all their fragments and no others, in the
\* order they were sent and each at most once.
THEOREM WholeMessagesInOrder ==
    SafetySpec => [](\A r \in Roles : WholeAndSent(got[r], sent[Peer(r)]) /\ InOrder(got[r]))
<1>1. IInv => \A r \in Roles : WholeAndSent(got[r], sent[Peer(r)]) /\ InOrder(got[r])
  BY DEF IInv, IInvOf, Good, GivenOK
<1> QED BY <1>1, InvariantHolds, PTL

-----------------------------------------------------------------------------
(* The connection implements the pipe, unless the central may close it     *)
(* gracefully: a message that it drops while it closes may be followed by  *)
(* one that it passes up.                                                  *)

\* The pipe's view of what an application was given.
Seen(H, B) == [i \in 1 .. Len(H) |-> IF H[i].ok THEN B[H[i].id] ELSE NoMsg]

\* Every step passes a message to Send, passes one up, or does neither.
LEMMA StepsOfPipe ==
    ASSUME [Next]_vars
    PROVE  \/ UNCHANGED <<sent, got>>
           \/ \E r \in Roles : \E m : sent' = [sent EXCEPT ![r] = Append(@, m)] /\ got' = got
           \/ \E r \in Roles : \E g : got' = [got EXCEPT ![r] = Append(@, g)] /\ sent' = sent
<1>1. ASSUME NEW r \in Roles, Receive(r)
      PROVE  \/ UNCHANGED <<sent, got>>
             \/ \E g : got' = [got EXCEPT ![r] = Append(@, g)] /\ sent' = sent
  BY <1>1 DEF Receive
<1>2. ASSUME NEW r \in Roles, NEW n \in Sizes[r], Send(r, n)
      PROVE  \E m : sent' = [sent EXCEPT ![r] = Append(@, m)] /\ got' = got
  BY <1>2 DEF Send
<1>3. ASSUME NEW r \in Roles, Deliver(r), ~Receive(r)
      PROVE  UNCHANGED <<sent, got>>
  BY <1>3 DEF Deliver, HandleCapabilitiesRequestReceived, HandleSubscribeReceived,
              HandleCapabilitiesResponseReceived
<1>4. ASSUME NEW r \in Roles, Confirm(r)
      PROVE  UNCHANGED <<sent, got>>
  BY <1>4 DEF Confirm, HandleHandshakeConfirmationReceived, HandleFragmentConfirmationReceived,
              HandleSubscribeComplete
<1>5. ASSUME NEW r \in Roles,
             \/ HandleConnectTimeout(r) \/ HandleAckReceivedTimeout(r) \/ PeerClosed(r)
             \/ HandleSendAckTimeout(r) \/ Close(r)
      PROVE  UNCHANGED <<sent, got>>
  BY <1>5 DEF HandleConnectTimeout, HandleAckReceivedTimeout, PeerClosed, HandleSendAckTimeout, Close
<1>6. CASE StartConnect \/ HandleUnsubscribeComplete \/ UNCHANGED vars
  BY <1>6 DEF StartConnect, HandleUnsubscribeComplete, vars
<1> QED BY <1>1, <1>2, <1>3, <1>4, <1>5, <1>6 DEF Next, SystemStep

\* A message sent does not change what was given before.
LEMMA SeenKept ==
    ASSUME NEW H \in Seq(Given), NEW B \in Seq(Message), WholeAndSent(H, B), NEW m
    PROVE  Seen(H, Append(B, m)) = Seen(H, B)
BY DEF Seen, WholeAndSent, Given

\* A message given is the next of those sent.
LEMMA SeenGrows ==
    ASSUME NEW H \in Seq(Given), NEW B \in Seq(Message), NEW g,
           NEW N, N = Append(H, g), N \in Seq(Given), WholeAndSent(N, B),
           \A i \in 1 .. Len(N) : N[i].id = i
    PROVE  Len(H) < Len(B) /\ Len(Seen(H, B)) = Len(H) /\ Seen(N, B) = Append(Seen(H, B), B[Len(H) + 1])
<1>1. Len(N) = Len(H) + 1 /\ N[Len(N)] = g /\ \A i \in 1 .. Len(H) : N[i] = H[i]
  OBVIOUS
<1>2. Len(H) \in Nat /\ Len(N) \in 1 .. Len(N)
  BY <1>1
<1>3. g.ok /\ g.id = Len(H) + 1 /\ g.id \in 1 .. Len(B)
  BY <1>1, <1>2 DEF WholeAndSent
<1>4. Len(H) < Len(B)
  BY <1>2, <1>3
<1>5. \A i \in 1 .. Len(H) : H[i].ok /\ H[i].id \in 1 .. Len(B)
  BY <1>1, <1>2 DEF WholeAndSent
<1>6. PICK s : s = Seen(H, B)
  OBVIOUS
<1>7. s \in Seq(Message) /\ Len(s) = Len(H)
  BY <1>2, <1>5, <1>6 DEF Seen
<1>8. PICK x : x = B[Len(H) + 1]
  OBVIOUS
<1>9. Seen(N, B) = Append(s, x)
  BY <1>1, <1>2, <1>3, <1>6, <1>7, <1>8 DEF Seen
<1> QED BY <1>4, <1>6, <1>7, <1>8, <1>9

PipeOut == [r \in Roles |-> Seen(got[r], sent[Peer(r)])]

\* The pipe starts empty.
LEMMA InitPipe == Init => Pipe!Init
<1> SUFFICES ASSUME Init PROVE Pipe!Init
  OBVIOUS
<1>1. \A r \in Roles : got[r] = <<>>
  BY DEF Init
<1>2. \A r \in Roles : Seen(got[r], sent[Peer(r)]) = <<>>
  BY <1>1 DEF Seen
<1>3. PipeOut = [r \in Roles |-> <<>>]
  BY <1>2 DEF PipeOut
<1> QED BY <1>3 DEF Init, Pipe!Init, PipeOut, Seen

\* Every step of the connection is a step of the pipe, or changes nothing of it.
LEMMA NextPipe ==
    ASSUME "central" \notin Closers, IInv, IInv', [Next]_vars
    PROVE  [Pipe!Next]_<<sent, PipeOut>>
<1>1. /\ sent \in [Roles -> Seq(Message)] /\ got \in [Roles -> Seq(Given)]
      /\ got' \in [Roles -> Seq(Given)]
  BY DEF IInv, IInvOf
<1>2. \A r \in Roles : Peer(r) \in Roles /\ Peer(r) # r /\ Peer(Peer(r)) = r /\ Exact(r)
  BY PeerFacts DEF Exact, Roles, Peer
<1>3. \A r \in Roles : WholeAndSent(got[r], sent[Peer(r)])
  BY DEF IInv, IInvOf, Good, GivenOK
<1>4. \A r \in Roles : WholeAndSent(got'[r], sent'[Peer(r)]) /\ \A i \in 1 .. Len(got'[r]) : got'[r][i].id = i
  BY <1>2 DEF IInv, IInvOf, Good, GivenOK
<1>5. CASE UNCHANGED <<sent, got>>
  BY <1>5 DEF PipeOut
<1>6. ASSUME NEW r \in Roles, NEW m, sent' = [sent EXCEPT ![r] = Append(@, m)], got' = got
      PROVE  Pipe!Put(r)
  <2>1. \A q \in Roles : Seen(got[q], sent'[Peer(q)]) = Seen(got[q], sent[Peer(q)])
    <3> TAKE q \in Roles
    <3>1. CASE Peer(q) = r
      <4>1. sent'[Peer(q)] = Append(sent[Peer(q)], m)
        BY <1>1, <1>6, <3>1
      <4> QED BY <1>1, <1>2, <1>3, <4>1, SeenKept
    <3>2. CASE Peer(q) # r
      <4>1. sent'[Peer(q)] = sent[Peer(q)]
        BY <1>1, <1>2, <1>6, <3>2
      <4> QED BY <4>1
    <3> QED BY <3>1, <3>2
  <2>2. PipeOut' = PipeOut
    BY <1>6, <2>1 DEF PipeOut
  <2>3. sent'[r] = Append(sent[r], m) /\ sent[r] \in Seq(Message)
    BY <1>1, <1>6
  <2>4. Len(sent'[r]) = Len(sent[r]) + 1 /\ SubSeq(sent'[r], 1, Len(sent[r])) = sent[r]
    BY <2>3
  <2>5. sent' = [sent EXCEPT ![r] = sent'[r]]
    BY <1>1, <1>6
  <2> QED BY <2>2, <2>4, <2>5 DEF Pipe!Put, PipeOut, Seen
<1>7. ASSUME NEW r \in Roles, NEW g, got' = [got EXCEPT ![r] = Append(@, g)], sent' = sent
      PROVE  Pipe!Take(r)
  <2>1. PICK H, B, N : H = got[r] /\ B = sent[Peer(r)] /\ N = got'[r]
    OBVIOUS
  <2>2. H \in Seq(Given) /\ B \in Seq(Message) /\ N \in Seq(Given) /\ N = Append(H, g)
    BY <1>1, <1>2, <1>7, <2>1
  <2>3. WholeAndSent(N, B) /\ \A i \in 1 .. Len(N) : N[i].id = i
    BY <1>4, <1>7, <2>1
  <2>4. Len(H) < Len(B) /\ Len(Seen(H, B)) = Len(H) /\ Seen(N, B) = Append(Seen(H, B), B[Len(H) + 1])
    BY <2>2, <2>3, SeenGrows
  <2>5. PipeOut[r] = Seen(H, B)
    BY <2>1 DEF PipeOut
  <2>6. Len(PipeOut[r]) < Len(sent[Peer(r)])
    BY <2>1, <2>4, <2>5
  <2>7. \A q \in Roles : q # r => got'[q] = got[q]
    BY <1>1, <1>7
  <2>8. PipeOut' = [PipeOut EXCEPT ![r] = Append(@, sent[Peer(r)][Len(PipeOut[r]) + 1])]
    <3>1. PICK F, x : F = PipeOut' /\ x = Append(Seen(H, B), B[Len(H) + 1])
      OBVIOUS
    <3>2. F = [q \in Roles |-> Seen(got'[q], sent'[Peer(q)])]
      BY <3>1 DEF PipeOut
    <3>3. F[r] = x
      BY <1>7, <2>1, <2>4, <3>1, <3>2
    <3>4. \A q \in Roles : q # r => F[q] = PipeOut[q]
      BY <1>7, <2>7, <3>2 DEF PipeOut
    <3>5. DOMAIN PipeOut = Roles
      BY DEF PipeOut
    <3>6. F = [PipeOut EXCEPT ![r] = x]
      BY <3>2, <3>3, <3>4, <3>5
    <3>7. sent[Peer(r)][Len(PipeOut[r]) + 1] = B[Len(H) + 1]
      BY <2>1, <2>4, <2>5
    <3> QED BY <2>5, <3>1, <3>6, <3>7
  <2> QED BY <1>7, <2>6, <2>8 DEF Pipe!Take, PipeOut, Seen
<1> QED BY <1>5, <1>6, <1>7, StepsOfPipe DEF Pipe!Next

\* A connection whose central is not closed gracefully by its application
\* implements the pipe: in both directions the applications get whole messages,
\* each once and in order, and none is skipped, however the connection ends.
THEOREM Refinement ==
    ASSUME "central" \notin Closers
    PROVE  SafetySpec => ImplementsPipe
<1>1. Init => Pipe!Init
  BY InitPipe
<1>2. IInv /\ IInv' /\ [Next]_vars => [Pipe!Next]_<<sent, PipeOut>>
  BY NextPipe
<1> QED BY <1>1, <1>2, InvariantHolds, PTL DEF SafetySpec, ImplementsPipe, Pipe!Spec, PipeOut, Seen
=============================================================================

--------------------- MODULE BdxTransferSession_proofs ----------------------
(***************************************************************************)
(* Proofs about BdxTransferSession, for every plan of transfers and with   *)
(* every control mode that either end may hold, also when they disagree.   *)
(*                                                                         *)
(* The argument.  A transfer is a stop-and-wait protocol over a channel    *)
(* that loses messages but keeps their order: the sender prepares block    *)
(* B + 1 only after an answer to block B, which the receiver gives only    *)
(* once its caller has block B.  Answers overtaken by the next block may   *)
(* still be under way: the query for block B, when block B was sent        *)
(* unasked.  The block counter tells it from the query for block B + 1,    *)
(* if it has at least two values.                                          *)
(*                                                                         *)
(* That no session fails by itself needs more (CInv): as long as nothing   *)
(* went wrong outside, both ends hold the mode agreed on, one of them      *)
(* waits for the other, and the receiver of a message under way is in the  *)
(* state to take it, or will be when it has the answer to its request that *)
(* comes before.                                                           *)
(***************************************************************************)
EXTENDS BdxTransferSession, FiniteSetTheorems, TLAPS

\* Blocks prepared in transfer t, and blocks the receiver's caller has.
Prepared(t) == written[t].blocks
Taken(t) == Len(got[t])

\* The messages of a queue, and which of them come before which.
In(q) == {q[i] : i \in DOMAIN q}
Precedes(q, a, b) == \E i, j \in DOMAIN q : i < j /\ a = q[i] /\ b = q[j]

\* Messages on their way to end e: the network, and what its peer has yet to send.
FlightOf(q, s) == IF s.out = "msg" /\ s.transfer # 0 THEN Append(q, s.msg) ELSE q
Flight(e) == FlightOf(net[e], sess[Peer(e)])
Under(e) == In(Flight(e))

BlockType == {"Block", "BlockEOF"}
AckType == {"Ack", "AckEOF"}
AnswerType == AckType \cup {"Query"}

\* The counters a sender has for its last and for its next block.
LastNum(t) == (Prepared(t) - 1) % CounterMod
NextNum(t) == Prepared(t) % CounterMod

\* A query for the next block; the other queries under way are for the last one.
NextQuery(m) == m.type = "Query" /\ m.num = NextNum(m.transfer)
OldQuery(m) == m.type = "Query" /\ Prepared(m.transfer) > 0 /\ m.num = LastNum(m.transfer)

Early == {"Uninitialized", "AwaitingInit", "Negotiate", "AwaitingAccept"}
Accepting == {"InProgress", "ReceivedEOF"}
Agreed == {"Negotiate", "InProgress", "AwaitingEOFAck", "ReceivedEOF", "Done"}

Typed ==
    /\ plan \in Plans
    /\ sess \in [End -> Session]
    /\ net \in [End -> Seq(Message)]
    /\ transfers \in Transfer \cup {0}
    /\ written \in [Transfer -> [blocks : Nat, bytes : Nat]]
    /\ got \in [Transfer -> Seq((Transfer \cup {0}) \X Nat)]
    /\ clean \in BOOLEAN

\* Of transfer t the caller has what was prepared, but for at most one block.
TransferOK(t) ==
    /\ \A i \in DOMAIN got[t] : got[t][i] = <<t, i>>
    /\ Prepared(t) \in {Taken(t), Taken(t) + 1}
    /\ t > transfers => Prepared(t) = 0

\* Nothing has come of the request for transfer t yet.
Untouched(t) ==
    /\ Prepared(t) = 0 /\ Taken(t) = 0
    /\ \A m \in Under("initiator") : m.transfer # t
    /\ sess["initiator"].transfer = t => sess["initiator"].state \in {"AwaitingAccept", "Error"}

\* The state of a session, and the transfer it is about.
EndOK(e) ==
    LET s == sess[e]
    IN  /\ s.transfer <= transfers
        /\ e = "initiator" => s.transfer \in {0, transfers} /\ s.state \notin {"AwaitingInit", "Negotiate"}
        /\ e = "responder" => s.state # "AwaitingAccept"
        /\ s.state \in {"Uninitialized", "AwaitingInit"} => s.transfer = 0 /\ s.out = "none"
        /\ s.state \in Agreed \cup {"AwaitingAccept"} => s.transfer # 0
        /\ s.state \in Agreed => s.role # sess[Peer(e)].role
        /\ s.state \in Early => s.nextBlock = 0 /\ s.nextQuery = 0 /\ ~s.unacked
        /\ s.awaiting => s.state \in {"AwaitingAccept", "InProgress", "AwaitingEOFAck"}
        /\ s.state = "Negotiate" => Untouched(s.transfer)
        /\ s.state = "AwaitingEOFAck" => s.role = "sender"
        /\ s.state = "ReceivedEOF" => s.role = "receiver"
        /\ s.out = "block" => s.role = "receiver" /\ s.state \in Accepting

\* A sender that may prepare a block has none that is not acknowledged.
SenderOK(e) ==
    LET s == sess[e]
        r == sess[Peer(e)]
        t == s.transfer
    IN  s.role = "sender" /\ t # 0 =>
        /\ s.state = "AwaitingAccept" => Prepared(t) = 0
        /\ s.state \in {"InProgress", "AwaitingEOFAck"} =>
              s.nextBlock = NextNum(t) /\ (Prepared(t) > 0 => s.lastBlock = LastNum(t))
        /\ s.state = "AwaitingEOFAck" => Prepared(t) > 0
        /\ s.state = "InProgress" /\ ~s.awaiting =>
              /\ Taken(t) = Prepared(t)
              /\ \A m \in Under(e) : m.transfer = t /\ m.type \in AnswerType => NextQuery(m)
              /\ r.transfer = t /\ r.state \in Accepting => ~r.unacked
        /\ s.state = "Done" =>
              /\ Taken(t) = Prepared(t)
              /\ r.transfer = t => r.state = "Done"

\* A receiver has answered the blocks it does not wait for, but for one.
ReceiverOK(e) ==
    LET r == sess[e]
        s == sess[Peer(e)]
        t == r.transfer
        U == Under(Peer(e))
    IN  r.role = "receiver" /\ t # 0 =>
        /\ r.state = "AwaitingAccept" =>
              Taken(t) = 0 /\ \A m \in U : m.transfer = t => m.type \notin AnswerType
        /\ r.out = "block" =>
              /\ ~r.unacked /\ ~r.awaiting
              /\ Prepared(t) = Taken(t) + 1
              /\ r.msg.data = <<t, Taken(t) + 1>>
              /\ r.lastBlock = LastNum(t)
              /\ \A m \in U : m.transfer = t /\ m.type \in AnswerType => OldQuery(m)
        /\ r.state \in Accepting /\ r.unacked =>
              /\ ~r.awaiting
              /\ Prepared(t) = Taken(t) /\ Taken(t) > 0
              /\ r.lastBlock = LastNum(t)
              /\ \A m \in U : m.transfer = t /\ m.type \in AnswerType => OldQuery(m)
        /\ r.state = "InProgress" /\ ~r.awaiting /\ r.out # "block" =>
              \A m \in U : m.transfer = t =>
                  /\ m.type = "Query" => Prepared(t) = Taken(t) /\ OldQuery(m)
                  /\ m.type \in AckType => Prepared(t) = Taken(t)
        /\ r.state = "InProgress" /\ r.mode = "ReceiverDrive" =>
              r.nextQuery = (Taken(t) + (IF r.awaiting \/ r.out = "block" THEN 1 ELSE 0)) % CounterMod
        /\ r.state \in {"ReceivedEOF", "Done"} =>
              /\ Prepared(t) = Taken(t) + (IF r.out = "block" THEN 1 ELSE 0)
              /\ s.transfer = t => s.state \in {"AwaitingEOFAck", "Done", "Error"}

\* What a message on its way to end e says is true.
MessageOK(e, m) ==
    LET s == sess[Peer(e)]   \* its sender
        r == sess[e]
        t == m.transfer
    IN  /\ m.role = s.role /\ t \in 1 .. transfers
        /\ m.type = "Init" => e = "responder" /\ r.transfer < t /\ Untouched(t)
        /\ m.type = "Accept" =>
              e = "initiator" /\ (r.transfer = t => r.state \in {"AwaitingAccept", "Error"})
        /\ m.type \in BlockType =>
              /\ s.role = "sender"
              /\ Prepared(t) = Taken(t) + 1 /\ m.data = <<t, Prepared(t)>> /\ m.num = LastNum(t)
              /\ ~(r.transfer = t /\ r.out = "block")
              /\ s.transfer = t /\ s.state = "InProgress" => s.awaiting
        /\ m.type = "BlockEOF" => (s.transfer = t => s.state \in {"AwaitingEOFAck", "Error"})
        /\ m.type \in AnswerType => s.role = "receiver"
        /\ m.type = "Query" => OldQuery(m) \/ (NextQuery(m) /\ Taken(t) = Prepared(t))
        /\ m.type \in AckType => Prepared(t) > 0 /\ Taken(t) = Prepared(t) /\ m.num = LastNum(t)
        /\ m.type = "AckEOF" /\ r.transfer = t =>
              /\ r.state \in {"AwaitingEOFAck", "Error"}
              /\ r.state = "AwaitingEOFAck" /\ s.transfer = t => s.state = "Done"
        /\ m.type = "Status" => (s.transfer = t => s.state = "Error")

\* What may come after message a.
Follows(a, b) ==
    /\ a.type = "Init" /\ b.type = "Init" => a.transfer < b.transfer
    /\ a.transfer = b.transfer =>
        /\ a.type = "Accept" => b.type # "Accept"
        /\ a.type \in BlockType => b.type \notin BlockType
        /\ a.type \in AckType => b.type \notin AckType /\ (b.type = "Query" => NextQuery(b))
        /\ a.type = "Query" /\ b.type \in AnswerType => ~NextQuery(a)
        /\ a.type = "Query" /\ b.type = "Query" => NextQuery(b)

FlightOK(e) ==
    /\ \A m \in Under(e) : MessageOK(e, m)
    /\ \A a, b \in Under(e) : Precedes(Flight(e), a, b) => Follows(a, b)

IInv ==
    /\ Typed
    /\ \A t \in Transfer : TransferOK(t)
    /\ \A e \in End : EndOK(e) /\ SenderOK(e) /\ ReceiverOK(e) /\ FlightOK(e)

-----------------------------------------------------------------------------
(* Numbers and queues.                                                     *)

\* Division with remainder.
LEMMA DivMod ==
    ASSUME NEW b \in Nat
    PROVE  /\ b % CounterMod \in 0 .. CounterMod - 1 /\ b \div CounterMod \in Nat
           /\ b = CounterMod * (b \div CounterMod) + (b % CounterMod)
BY BdxAssumption

\* Two numbers in a row have different counters.
LEMMA NextDiffers == ASSUME NEW b \in Nat PROVE (b + 1) % CounterMod # b % CounterMod
<1> DEFINE q == b \div CounterMod
           p == (b + 1) \div CounterMod
<1>1. /\ b = CounterMod * q + (b % CounterMod)
      /\ b + 1 = CounterMod * p + ((b + 1) % CounterMod)
  BY DivMod
<1>2. q \in Int /\ p \in Int /\ b % CounterMod \in Int /\ CounterMod \in Nat /\ CounterMod > 1
  BY DivMod, BdxAssumption
<1> HIDE DEF q, p
<1>3. SUFFICES ASSUME (b + 1) % CounterMod = b % CounterMod PROVE FALSE
  OBVIOUS
<1>4. CounterMod * p - CounterMod * q = 1
  BY <1>1, <1>2, <1>3
<1>5. CounterMod * (p - q) = 1
  BY <1>4, <1>2
<1>6. p - q # 1 /\ p - q \in Int
  BY <1>5, <1>2
<1>7. CASE p - q <= 0
  BY <1>5, <1>2, <1>7
<1>8. CASE p - q >= 2
  BY <1>5, <1>2, <1>8
<1> QED BY <1>6, <1>7, <1>8

\* The remainder is unique.
LEMMA ModUnique ==
    ASSUME NEW a \in Nat, NEW q \in Nat, NEW r \in 0 .. CounterMod - 1, a = CounterMod * q + r
    PROVE  a % CounterMod = r
BY BdxAssumption, SMTT(30)

\* Inc counts on.
LEMMA IncMod == ASSUME NEW b \in Nat PROVE Inc(b % CounterMod) = (b + 1) % CounterMod
<1> DEFINE q == b \div CounterMod
           r == b % CounterMod
<1>1. /\ b = CounterMod * q + r /\ q \in Nat /\ r \in 0 .. CounterMod - 1
      /\ CounterMod \in Nat /\ CounterMod > 1
  BY DivMod, BdxAssumption
<1>2. Inc(r) = (r + 1) % CounterMod
  BY DEF Inc
<1> HIDE DEF q, r
<1>3. CASE r + 1 < CounterMod
  <2>1. (r + 1) % CounterMod = r + 1
    BY <1>1, <1>3
  <2>2. b + 1 = CounterMod * q + (r + 1) /\ b + 1 \in Nat /\ r + 1 \in 0 .. CounterMod - 1
    BY <1>1, <1>3
  <2>3. (b + 1) % CounterMod = r + 1
    BY <2>2, <1>1, ModUnique
  <2> QED BY <1>2, <2>1, <2>3 DEF r
<1>4. CASE r + 1 = CounterMod
  <2>1. (r + 1) % CounterMod = 0
    BY <1>1, <1>4
  <2>2. b + 1 = CounterMod * (q + 1) + 0 /\ b + 1 \in Nat /\ 0 \in 0 .. CounterMod - 1 /\ q + 1 \in Nat
    BY <1>1, <1>4
  <2>3. (b + 1) % CounterMod = 0
    BY <2>2, <1>1, ModUnique
  <2> QED BY <1>2, <2>1, <2>3 DEF r
<1> QED BY <1>1, <1>3, <1>4

\* q2 is made of messages of q1 in their order; and, with m after them.
Shrinks(q2, q1) ==
    /\ In(q2) \subseteq In(q1)
    /\ \A a, b : Precedes(q2, a, b) => Precedes(q1, a, b)
Grows(q2, q1, m) ==
    /\ In(q2) \subseteq In(q1) \cup {m}
    /\ \A a, b : Precedes(q2, a, b) => Precedes(q1, a, b) \/ (a \in In(q1) /\ b = m)

LEMMA InAppend ==
    ASSUME NEW X, NEW q \in Seq(X), NEW m
    PROVE  /\ In(Append(q, m)) = In(q) \cup {m}
           /\ \A a, b : Precedes(Append(q, m), a, b) <=> Precedes(q, a, b) \/ (a \in In(q) /\ b = m)
<1> DEFINE n == Len(q)
           w == Append(q, m)
<1>1. /\ n \in Nat /\ DOMAIN q = 1 .. n /\ DOMAIN w = 1 .. n + 1
      /\ w[n + 1] = m /\ \A i \in 1 .. n : w[i] = q[i]
  OBVIOUS
<1> HIDE DEF n, w
<1>2. In(w) = In(q) \cup {m}
  BY <1>1 DEF In
<1>3. ASSUME NEW a, NEW b, Precedes(w, a, b) PROVE Precedes(q, a, b) \/ (a \in In(q) /\ b = m)
  <2>1. PICK i \in 1 .. n + 1, j \in 1 .. n + 1 : i < j /\ a = w[i] /\ b = w[j]
    BY <1>1, <1>3 DEF Precedes
  <2>2. i \in 1 .. n
    BY <1>1, <2>1
  <2>3. CASE j = n + 1
    BY <1>1, <2>1, <2>2, <2>3 DEF In
  <2>4. CASE j # n + 1
    BY <1>1, <2>1, <2>2, <2>4 DEF Precedes
  <2> QED BY <2>3, <2>4
<1>4. ASSUME NEW a, NEW b, Precedes(q, a, b) PROVE Precedes(w, a, b)
  <2>1. PICK i \in 1 .. n, j \in 1 .. n : i < j /\ a = q[i] /\ b = q[j]
    BY <1>1, <1>4 DEF Precedes
  <2>2. i \in DOMAIN w /\ j \in DOMAIN w /\ a = w[i] /\ b = w[j]
    BY <1>1, <2>1
  <2> QED BY <2>1, <2>2 DEF Precedes
<1>5. ASSUME NEW a, NEW b, a \in In(q) /\ b = m PROVE Precedes(w, a, b)
  <2>1. PICK i \in 1 .. n : a = q[i]
    BY <1>1, <1>5 DEF In
  <2>2. i \in DOMAIN w /\ n + 1 \in DOMAIN w /\ a = w[i] /\ b = w[n + 1] /\ i < n + 1
    BY <1>1, <1>5, <2>1
  <2> QED BY <2>2 DEF Precedes
<1>6. In(w) = In(q) \cup {m} /\ \A a, b : Precedes(w, a, b) <=> Precedes(q, a, b) \/ (a \in In(q) /\ b = m)
  BY <1>2, <1>3, <1>4, <1>5
<1> QED BY <1>6 DEF w

LEMMA InTail ==
    ASSUME NEW X, NEW q \in Seq(X), q # << >>
    PROVE  /\ Shrinks(Tail(q), q) /\ Head(q) \in In(q) /\ Tail(q) \in Seq(X)
           /\ \A b \in In(Tail(q)) : Precedes(q, Head(q), b)
<1> DEFINE n == Len(q)
           w == Tail(q)
<1>1. /\ n \in Nat \ {0} /\ DOMAIN q = 1 .. n /\ DOMAIN w = 1 .. n - 1 /\ w \in Seq(X)
      /\ Head(q) = q[1] /\ \A i \in 1 .. n - 1 : w[i] = q[i + 1]
  OBVIOUS
<1> HIDE DEF n, w
<1>2. Head(q) \in In(q)
  BY <1>1 DEF In
<1>3. ASSUME NEW b \in In(w) PROVE b \in In(q) /\ Precedes(q, Head(q), b)
  <2>1. PICK i \in 1 .. n - 1 : b = q[i + 1]
    BY <1>1 DEF In
  <2>2. i + 1 \in DOMAIN q /\ 1 \in DOMAIN q /\ 1 < i + 1
    BY <1>1
  <2> QED BY <1>1, <2>1, <2>2 DEF In, Precedes
<1>4. ASSUME NEW a, NEW b, Precedes(w, a, b) PROVE Precedes(q, a, b)
  <2>1. PICK i \in 1 .. n - 1, j \in 1 .. n - 1 : i < j /\ a = w[i] /\ b = w[j]
    BY <1>1, <1>4 DEF Precedes
  <2>2. i + 1 \in DOMAIN q /\ j + 1 \in DOMAIN q /\ a = q[i + 1] /\ b = q[j + 1] /\ i + 1 < j + 1
    BY <1>1, <2>1
  <2> QED BY <2>2 DEF Precedes
<1>5. Shrinks(w, q) /\ w \in Seq(X) /\ \A b \in In(w) : Precedes(q, Head(q), b)
  BY <1>1, <1>3, <1>4 DEF Shrinks
<1> QED BY <1>2, <1>5 DEF w

\* The flight of messages when the state of the session that sends them changes.
LEMMA FlightChange ==
    ASSUME NEW q \in Seq(Message), NEW s, NEW x
    PROVE  /\ x.out # "msg" \/ x.transfer = 0 => Shrinks(FlightOf(q, x), FlightOf(q, s))
           /\ Grows(FlightOf(q, x), FlightOf(q, s), x.msg)
<1>1. ASSUME NEW m PROVE /\ In(Append(q, m)) = In(q) \cup {m}
                         /\ \A a, b : Precedes(Append(q, m), a, b) <=> Precedes(q, a, b) \/ (a \in In(q) /\ b = m)
  BY InAppend
<1>2. Shrinks(q, FlightOf(q, s))
  BY <1>1 DEF Shrinks, FlightOf
<1>3. Grows(Append(q, x.msg), FlightOf(q, s), x.msg)
  BY <1>1, <1>2 DEF Grows, Shrinks
<1> QED BY <1>2, <1>3 DEF FlightOf, Shrinks, Grows

\* The flight of messages when the first of them is taken off the network.
LEMMA FlightTail ==
    ASSUME NEW q \in Seq(Message), q # << >>, NEW s
    PROVE  /\ Shrinks(FlightOf(Tail(q), s), FlightOf(q, s))
           /\ Head(q) \in In(FlightOf(q, s))
           /\ \A b \in In(FlightOf(Tail(q), s)) : Precedes(FlightOf(q, s), Head(q), b)
<1>1. /\ Shrinks(Tail(q), q) /\ Head(q) \in In(q) /\ Tail(q) \in Seq(Message)
      /\ \A b \in In(Tail(q)) : Precedes(q, Head(q), b)
  BY InTail
<1>2. CASE s.out = "msg" /\ s.transfer # 0
  <2>1. /\ In(Append(q, s.msg)) = In(q) \cup {s.msg}
        /\ \A a, b : Precedes(Append(q, s.msg), a, b) <=> Precedes(q, a, b) \/ (a \in In(q) /\ b = s.msg)
    BY InAppend
  <2>2. /\ In(Append(Tail(q), s.msg)) = In(Tail(q)) \cup {s.msg}
        /\ \A a, b : Precedes(Append(Tail(q), s.msg), a, b) <=> Precedes(Tail(q), a, b) \/ (a \in In(Tail(q)) /\ b = s.msg)
    BY <1>1, InAppend
  <2>3. FlightOf(q, s) = Append(q, s.msg) /\ FlightOf(Tail(q), s) = Append(Tail(q), s.msg)
    BY <1>2 DEF FlightOf
  <2>4. Shrinks(FlightOf(Tail(q), s), FlightOf(q, s))
    <3>1. In(Tail(q)) \subseteq In(q) /\ \A a, b : Precedes(Tail(q), a, b) => Precedes(q, a, b)
      BY <1>1 DEF Shrinks
    <3>2. In(Append(Tail(q), s.msg)) \subseteq In(Append(q, s.msg))
      BY <2>1, <2>2, <3>1
    <3>3. ASSUME NEW a, NEW b, Precedes(Append(Tail(q), s.msg), a, b)
          PROVE  Precedes(Append(q, s.msg), a, b)
      <4>1. CASE Precedes(Tail(q), a, b)
        BY <2>1, <3>1, <4>1
      <4>2. CASE a \in In(Tail(q)) /\ b = s.msg
        BY <2>1, <3>1, <4>2
      <4> QED BY <2>2, <3>3, <4>1, <4>2
    <3> QED BY <2>3, <3>2, <3>3 DEF Shrinks
  <2>5. \A b \in In(FlightOf(Tail(q), s)) : Precedes(FlightOf(q, s), Head(q), b)
    BY <1>1, <2>1, <2>2, <2>3
  <2> QED BY <1>1, <2>1, <2>3, <2>4, <2>5
<1>3. CASE ~(s.out = "msg" /\ s.transfer # 0)
  <2>1. FlightOf(q, s) = q /\ FlightOf(Tail(q), s) = Tail(q)
    BY <1>3 DEF FlightOf
  <2> QED BY <1>1, <2>1
<1> QED BY <1>2, <1>3

\* The two ends are each other's peers.
LEMMA PeerEnd ==
    ASSUME NEW e \in End
    PROVE  Peer(e) \in End /\ Peer(e) # e /\ Peer(Peer(e)) = e /\ \A k \in End : k = e \/ k = Peer(e)
BY DEF End, Peer

-----------------------------------------------------------------------------
(* Steps in which no transfer makes progress.                              *)

\* x is s but for what the invariant does not look at.
Alike(s, x) ==
    /\ x.state = s.state /\ x.mode = s.mode /\ x.awaiting = s.awaiting
    /\ x.lastBlock = s.lastBlock /\ x.nextBlock = s.nextBlock /\ x.nextQuery = s.nextQuery
    /\ x.transfer = s.transfer /\ x.unacked = s.unacked
    /\ x.out = "block" <=> s.out = "block"
    /\ x.out = "block" => x.msg = s.msg
    /\ x.state \in {"Uninitialized", "AwaitingInit"} => x.out = "none"

\* A step of end e that leaves the histories alone.
Quiet(e, x) ==
    /\ x \in Session /\ x.role = sess[e].role
    /\ sess' = [sess EXCEPT ![e] = x]
    /\ plan' = plan /\ transfers' = transfers /\ written' = written /\ got' = got
    /\ clean' \in BOOLEAN /\ net' \in [End -> Seq(Message)]
    /\ Shrinks(Flight(e)', Flight(e))

\* What does not depend on the sessions survives.
LEMMA QuietTyped ==
    ASSUME IInv, NEW e \in End, NEW x, Quiet(e, x)
    PROVE  /\ Typed' /\ \A t \in Transfer' : TransferOK(t)'
           /\ sess'[e] = x /\ sess'[Peer(e)] = sess[Peer(e)]
           /\ \A t : Prepared(t)' = Prepared(t) /\ Taken(t)' = Taken(t)
           /\ \A m : NextQuery(m)' = NextQuery(m) /\ OldQuery(m)' = OldQuery(m)
           /\ \A a, b : Follows(a, b) => Follows(a, b)'
           /\ \A t : LastNum(t)' = LastNum(t) /\ NextNum(t)' = NextNum(t)
<1>1. Transfer' = Transfer /\ Message' = Message /\ Session' = Session
  BY DEF Quiet, Transfer, Message, Session
<1>2. Typed'
  BY <1>1 DEF IInv, Typed, Quiet
<1>3. sess'[e] = x /\ sess'[Peer(e)] = sess[Peer(e)]
  BY PeerEnd DEF IInv, Typed, Quiet
<1>4. \A t : Prepared(t)' = Prepared(t) /\ Taken(t)' = Taken(t)
  BY DEF Quiet, Prepared, Taken
<1>5. \A t : LastNum(t)' = LastNum(t) /\ NextNum(t)' = NextNum(t)
  BY <1>4 DEF LastNum, NextNum
<1>6. \A m : NextQuery(m)' = NextQuery(m) /\ OldQuery(m)' = OldQuery(m)
  BY <1>4, <1>5 DEF NextQuery, OldQuery
<1>7. \A a, b : Follows(a, b) => Follows(a, b)'
  BY <1>6 DEF Follows
<1>8. \A t \in Transfer' : TransferOK(t)'
  BY <1>1, <1>4 DEF IInv, TransferOK, Quiet
<1> QED BY <1>2, <1>3, <1>4, <1>5, <1>6, <1>7, <1>8

\* Polling, time passing, and messages lost, ignored or refused.
LEMMA AlikeIInv ==
    ASSUME IInv, NEW e \in End, NEW x, Quiet(e, x), Alike(sess[e], x),
           Shrinks(Flight(Peer(e))', Flight(Peer(e)))
    PROVE  IInv'
<1> DEFINE p == Peer(e)
           s == sess[e]
           r == sess[p]
<1>1. p \in End /\ p # e /\ Peer(p) = e /\ \A k \in End : k = e \/ k = p
  BY PeerEnd
<1>2. /\ Typed' /\ \A t \in Transfer' : TransferOK(t)'
      /\ sess'[e] = x /\ sess'[p] = r
      /\ \A t : Prepared(t)' = Prepared(t) /\ Taken(t)' = Taken(t)
      /\ \A m : NextQuery(m)' = NextQuery(m) /\ OldQuery(m)' = OldQuery(m)
      /\ \A a, b : Follows(a, b) => Follows(a, b)'
      /\ \A t : LastNum(t)' = LastNum(t) /\ NextNum(t)' = NextNum(t)
  BY QuietTyped
<1>3. x.role = s.role /\ transfers' = transfers /\ got' = got
  BY DEF Quiet
<1>4. \A k \in End : /\ Under(k)' \subseteq Under(k)
                     /\ \A a, b : Precedes(Flight(k), a, b)' => Precedes(Flight(k), a, b)
  BY <1>1 DEF Quiet, Shrinks, Under
<1>5. \A k \in End : EndOK(k) /\ SenderOK(k) /\ ReceiverOK(k) /\ FlightOK(k)
  BY DEF IInv
<1>6. "initiator" \in End
  BY DEF End
<1> HIDE DEF p, s, r
<1> USE DEF Alike
<1>7. \A t : Untouched(t) => Untouched(t)'
  BY <1>1, <1>2, <1>4, <1>6 DEF Untouched, s, r
<1>8. \A k \in End : EndOK(k)'
  <2>1. EndOK(e)'
    BY <1>1, <1>2, <1>3, <1>5, <1>7 DEF EndOK, s, r, p
  <2>2. EndOK(p)'
    BY <1>1, <1>2, <1>3, <1>5, <1>7 DEF EndOK, s, r
  <2> QED BY <1>1, <2>1, <2>2
<1>9. \A k \in End : SenderOK(k)'
  <2>1. SenderOK(e)'
    BY <1>1, <1>2, <1>3, <1>4, <1>5 DEF SenderOK, s, r, p
  <2>2. SenderOK(p)'
    BY <1>1, <1>2, <1>3, <1>4, <1>5 DEF SenderOK, s, r
  <2> QED BY <1>1, <2>1, <2>2
<1>10. \A k \in End : ReceiverOK(k)'
  <2>1. ReceiverOK(e)'
    BY <1>1, <1>2, <1>3, <1>4, <1>5 DEF ReceiverOK, s, r, p
  <2>2. ReceiverOK(p)'
    BY <1>1, <1>2, <1>3, <1>4, <1>5 DEF ReceiverOK, s, r
  <2> QED BY <1>1, <2>1, <2>2
<1>11. ASSUME NEW k \in End, NEW m \in Under(k)' PROVE MessageOK(k, m)'
  <2>1. MessageOK(k, m)
    BY <1>4, <1>5 DEF FlightOK
  <2>2. CASE k = e
    BY <1>1, <1>2, <1>3, <1>7, <2>1, <2>2 DEF MessageOK, s, r, p
  <2>3. CASE k = p
    BY <1>1, <1>2, <1>3, <1>7, <2>1, <2>3 DEF MessageOK, s, r
  <2> QED BY <1>1, <2>2, <2>3
<1>12. ASSUME NEW k \in End, NEW a \in Under(k)', NEW b \in Under(k)', Precedes(Flight(k), a, b)'
       PROVE  Follows(a, b)'
  BY <1>2, <1>4, <1>5, <1>12 DEF FlightOK
<1> QED BY <1>2, <1>8, <1>9, <1>10, <1>11, <1>12 DEF IInv, FlightOK

\* A session that fails: its last message, if any, is a status report.
Failed(e, x) ==
    /\ x.state = "Error" /\ ~x.awaiting /\ x.out # "block"
    /\ \/ Shrinks(Flight(Peer(e))', Flight(Peer(e)))
       \/ /\ Grows(Flight(Peer(e))', Flight(Peer(e)), x.msg)
          /\ x.transfer # 0
          /\ x.msg.type = "Status" /\ x.msg.role = x.role /\ x.msg.transfer = x.transfer
    /\ \/ x.transfer = sess[e].transfer
       \/ /\ e = "responder" /\ sess[e].transfer = 0
          /\ x.transfer \in 1 .. transfers /\ Untouched(x.transfer)
          /\ \A m \in Under(e)' : m.type = "Init" => x.transfer < m.transfer

\* A receiver that is done fails only if its sender has failed or gone on.
LEMMA FailedIInv ==
    ASSUME IInv, NEW e \in End, NEW x, Quiet(e, x), Failed(e, x),
           \/ sess[e].role = "sender" \/ sess[e].state # "Done"
           \/ sess[Peer(e)].transfer # sess[e].transfer
           \/ sess[Peer(e)].state \notin {"AwaitingEOFAck", "Done"}
    PROVE  IInv'
<1> DEFINE p == Peer(e)
           s == sess[e]
           r == sess[p]
<1>1. p \in End /\ p # e /\ Peer(p) = e /\ \A k \in End : k = e \/ k = p
  BY PeerEnd
<1>2. /\ Typed' /\ \A t \in Transfer' : TransferOK(t)'
      /\ sess'[e] = x /\ sess'[p] = r
      /\ \A t : Prepared(t)' = Prepared(t) /\ Taken(t)' = Taken(t)
      /\ \A m : NextQuery(m)' = NextQuery(m) /\ OldQuery(m)' = OldQuery(m)
      /\ \A a, b : Follows(a, b) => Follows(a, b)'
      /\ \A t : LastNum(t)' = LastNum(t) /\ NextNum(t)' = NextNum(t)
  BY QuietTyped
<1>3. x.role = s.role /\ transfers' = transfers /\ got' = got /\ x \in Session
  BY DEF Quiet
<1>4. /\ Under(e)' \subseteq Under(e)
      /\ \A a, b : Precedes(Flight(e), a, b)' => Precedes(Flight(e), a, b)
  BY DEF Quiet, Shrinks, Under
<1>5. \/ /\ Under(p)' \subseteq Under(p)
         /\ \A a, b : Precedes(Flight(p), a, b)' => Precedes(Flight(p), a, b)
      \/ /\ Under(p)' \subseteq Under(p) \cup {x.msg}
         /\ \A a, b : Precedes(Flight(p), a, b)' => Precedes(Flight(p), a, b) \/ (a \in Under(p) /\ b = x.msg)
         /\ x.transfer # 0 /\ x.msg.type = "Status" /\ x.msg.role = x.role /\ x.msg.transfer = x.transfer
  BY DEF Failed, Shrinks, Grows, Under
<1>6. Under(p)' \subseteq Under(p) \cup {x.msg}
  BY <1>5
<1>7. \A m \in Under(p)' : \/ m \in Under(p)
                           \/ m.type = "Status" /\ m.role = x.role /\ m.transfer = x.transfer /\ x.transfer # 0
  BY <1>5
<1>8. \A k \in End : EndOK(k) /\ SenderOK(k) /\ ReceiverOK(k) /\ FlightOK(k)
  BY DEF IInv
<1>9. x.state = "Error" /\ ~x.awaiting /\ x.out # "block"
  BY DEF Failed
<1>10. /\ transfers \in Nat /\ s.transfer \in Nat /\ r.transfer \in Nat /\ x.transfer \in Nat
  <2>1. Transfer \subseteq Nat
    BY BdxAssumption DEF IInv, Typed, Transfer, Plan
  <2>2. s \in Session /\ r \in Session
    BY <1>1 DEF IInv, Typed
  <2>3. \A z \in Session : z.transfer \in Transfer \cup {0}
    BY DEF Session
  <2>4. transfers \in Transfer \cup {0}
    BY DEF IInv, Typed
  <2>5. \A z : z \in Transfer \cup {0} => z \in Nat
    BY <2>1
  <2> HIDE DEF s, r
  <2> QED BY <1>3, <2>2, <2>3, <2>4, <2>5
<1> DEFINE Moved == /\ e = "responder" /\ s.transfer = 0
                    /\ x.transfer \in 1 .. transfers /\ Untouched(x.transfer)
                    /\ \A m \in Under(e)' : m.type = "Init" => x.transfer < m.transfer
<1>11. x.transfer = s.transfer \/ Moved
  BY DEF Failed
<1>12. "initiator" \in End /\ (e = "responder" => p = "initiator") /\ (e = "initiator" => p = "responder")
       /\ (e = "responder" \/ e = "initiator")
  BY DEF End, Peer
<1>13. x.transfer <= transfers
  BY <1>8, <1>10, <1>11 DEF EndOK, s
<1>14. s.role = "receiver" /\ s.state = "Done" /\ r.transfer = s.transfer => r.state \notin {"AwaitingEOFAck", "Done"}
  OBVIOUS
<1> HIDE DEF p, s, r, Moved
\* A transfer still to begin is not the one that failed here.
<1>15. ASSUME NEW t, Untouched(t), e = "responder" => t # x.transfer
       PROVE  Untouched(t)'
  <2>1. CASE e = "initiator"
    BY <1>2, <1>4, <1>9, <1>15, <2>1 DEF Untouched
  <2>2. CASE e = "responder"
    BY <1>2, <1>7, <1>12, <1>15, <2>2 DEF Untouched, r
  <2> QED BY <1>12, <2>1, <2>2
<1>16. ASSUME NEW m \in Under("responder")', m.type = "Init"
       PROVE  Untouched(m.transfer)'
  <2>1. m \in Under("responder") /\ MessageOK("responder", m)
    BY <1>4, <1>7, <1>8, <1>12, <1>16, PeerEnd DEF FlightOK, End
  <2>2. Untouched(m.transfer) /\ sess["responder"].transfer < m.transfer /\ m.transfer \in Nat
    BY <1>16, <2>1 DEF MessageOK
  <2>3. e = "responder" => m.transfer # x.transfer
    BY <1>10, <1>11, <1>16, <2>2 DEF Moved, s
  <2> QED BY <1>15, <2>2, <2>3
<1>17. \A k \in End : EndOK(k)'
  <2>1. EndOK(e)'
    BY <1>1, <1>2, <1>3, <1>8, <1>9, <1>11, <1>13 DEF EndOK, s, r, p, Moved, Early, Agreed
  <2>2. EndOK(p)'
    <3>1. r.state = "Negotiate" => e = "initiator"
      BY <1>1, <1>8, <1>12 DEF EndOK, r
    <3>2. ASSUME NEW t, t = r.transfer, r.state = "Negotiate" PROVE Untouched(t)'
      <4>1. Untouched(t)
        BY <1>1, <1>8, <3>2 DEF EndOK, r
      <4> QED BY <1>15, <3>1, <3>2, <4>1
    <3> QED BY <1>1, <1>2, <1>3, <1>8, <3>2 DEF EndOK, s, r
  <2> QED BY <1>1, <2>1, <2>2
<1>18. \A k \in End : SenderOK(k)'
  <2>1. SenderOK(e)'
    BY <1>1, <1>2, <1>9 DEF SenderOK
  <2>2. SenderOK(p)'
    <3>1. ASSUME r.role = "sender", r.state = "Done", x.transfer = r.transfer PROVE FALSE
      <4>1. CASE x.transfer = s.transfer
        <5>1. s.state = "Done" /\ s.role = "receiver"
          <6>1. r.transfer # 0 /\ r.role # s.role
            BY <1>1, <1>8, <3>1 DEF EndOK, Agreed, r, s
          <6>2. s.role \in {"sender", "receiver"}
            BY DEF IInv, Typed, Session, Role, s
          <6> QED BY <1>1, <1>8, <3>1, <4>1, <6>1, <6>2 DEF SenderOK, r, s
        <5> QED BY <1>14, <3>1, <4>1, <5>1
      <4>2. CASE Moved
        BY <1>12, <3>1, <4>2 DEF Moved, Untouched, r
      <4> QED BY <1>11, <4>1, <4>2
    <3>2. \A m \in Under(p)' : m.type \in AnswerType => m \in Under(p)
      BY <1>7 DEF AnswerType, AckType
    <3> QED BY <1>1, <1>2, <1>8, <1>9, <3>1, <3>2 DEF SenderOK, r, s, Accepting
  <2> QED BY <1>1, <2>1, <2>2
<1>19. \A k \in End : ReceiverOK(k)'
  <2>1. ReceiverOK(e)'
    BY <1>1, <1>2, <1>9 DEF ReceiverOK, Accepting
  <2>2. ReceiverOK(p)'
    BY <1>1, <1>2, <1>4, <1>8, <1>9 DEF ReceiverOK, r, s
  <2> QED BY <1>1, <2>1, <2>2
<1>20. ASSUME NEW m \in Under(e)' PROVE MessageOK(e, m)'
  <2>1. MessageOK(e, m)
    BY <1>4, <1>8 DEF FlightOK
  <2>2. m.type = "Init" => e = "responder" /\ x.transfer < m.transfer /\ Untouched(m.transfer)'
    BY <1>11, <1>16, <2>1 DEF MessageOK, Moved, s
  <2> QED BY <1>1, <1>2, <1>3, <1>9, <2>1, <2>2 DEF MessageOK, s, r, p
<1>21. ASSUME NEW m \in Under(p)' PROVE MessageOK(p, m)'
  <2>1. CASE m \in Under(p)
    <3>1. MessageOK(p, m)
      BY <1>1, <1>8, <2>1 DEF FlightOK
    <3>2. m.type = "Init" => p = "responder" /\ Untouched(m.transfer)'
      BY <1>16, <3>1 DEF MessageOK
    <3>3. ASSUME m.type = "AckEOF", r.transfer = m.transfer, r.state = "AwaitingEOFAck", x.transfer = m.transfer
          PROVE  FALSE
      <4>1. CASE x.transfer = s.transfer
        <5>1. s.state = "Done" /\ s.role = "receiver"
          BY <1>1, <3>1, <3>3, <4>1 DEF MessageOK, s, r, AnswerType, AckType
        <5> QED BY <1>14, <3>3, <4>1, <5>1
      <4>2. CASE Moved
        BY <1>12, <2>1, <3>3, <4>2 DEF Moved, Untouched
      <4> QED BY <1>11, <4>1, <4>2
    <3> QED BY <1>1, <1>2, <1>3, <1>9, <3>1, <3>2, <3>3 DEF MessageOK, s, r
  <2>2. CASE m.type = "Status" /\ m.role = x.role /\ m.transfer = x.transfer /\ x.transfer # 0
    BY <1>1, <1>2, <1>3, <1>9, <1>10, <1>13, <2>2 DEF MessageOK, BlockType, AnswerType, AckType
  <2> QED BY <1>7, <2>1, <2>2
<1>22. ASSUME NEW a \in Under(e)', NEW b \in Under(e)', Precedes(Flight(e), a, b)'
       PROVE  Follows(a, b)'
  BY <1>2, <1>4, <1>8, <1>22 DEF FlightOK
<1>23. ASSUME NEW a \in Under(p)', NEW b \in Under(p)', Precedes(Flight(p), a, b)'
       PROVE  Follows(a, b)'
  <2>1. CASE Precedes(Flight(p), a, b)
    <3>1. a \in Under(p) /\ b \in Under(p)
      BY <2>1 DEF Precedes, Under, In
    <3> QED BY <1>1, <1>2, <1>8, <2>1, <3>1 DEF FlightOK
  <2>2. CASE b.type = "Status"
    BY <2>2 DEF Follows, BlockType, AckType, AnswerType
  <2> QED BY <1>5, <1>23, <2>1, <2>2
<1> QED BY <1>1, <1>2, <1>17, <1>18, <1>19, <1>20, <1>21, <1>22, <1>23 DEF IInv, FlightOK

-----------------------------------------------------------------------------
(* Steps of a transfer that leave the histories alone.                     *)

\* Session x of end e goes together with its peer and with what is under way.
Compatible(e, x) ==
    LET p == Peer(e)
        r == sess[p]
    IN  /\ r.transfer # 0 /\ r.transfer = x.transfer =>
              /\ r.role = "sender" /\ r.state = "InProgress" /\ ~r.awaiting /\ x.state \in Accepting => ~x.unacked
              /\ r.role = "sender" /\ r.state = "Done" => x.state = "Done"
              /\ r.role = "receiver" /\ r.state \in {"ReceivedEOF", "Done"} =>
                    x.state \in {"AwaitingEOFAck", "Done", "Error"}
        /\ \A m \in Under(e)' : x.transfer = m.transfer =>
              /\ m.type = "Accept" => x.state \in {"AwaitingAccept", "Error"}
              /\ m.type \in BlockType => x.out # "block"
              /\ m.type = "AckEOF" =>
                    /\ x.state \in {"AwaitingEOFAck", "Error"}
                    /\ x.state = "AwaitingEOFAck" /\ r.transfer = m.transfer => r.state = "Done"
        /\ \A m \in Under(p) : m.transfer = x.transfer /\ m \in Under(p)' =>
              /\ m.type \in BlockType /\ x.state = "InProgress" => x.awaiting
              /\ m.type = "BlockEOF" => x.state \in {"AwaitingEOFAck", "Error"}
              /\ m.type = "AckEOF" /\ r.transfer = m.transfer /\ r.state = "AwaitingEOFAck" => x.state = "Done"
              /\ m.type = "Status" => x.state = "Error"

\* Transfers that have only been requested are not disturbed.
Untroubled(e, x) ==
    LET r == sess[Peer(e)]
    IN  /\ \A t : t = r.transfer /\ r.state = "Negotiate" => Untouched(t)'
        /\ \A m \in Under("responder") : m.type = "Init" /\ m \in Under("responder")' => Untouched(m.transfer)'
        /\ \A m \in Under(e)' : m.type = "Init" => x.transfer < m.transfer

\* The last message of x, if it is new, goes together with those under way before it.
Sendable(e, x) ==
    LET p == Peer(e)
        r == sess[p]
        m == x.msg
    IN  \/ Shrinks(Flight(p)', Flight(p))
        \/ /\ Grows(Flight(p)', Flight(p), m)
           /\ \A z : z = m => MessageOK(p, z)'
           /\ \A a \in Under(p) : Follows(a, m)
           /\ r.transfer = m.transfer /\ m.type \in AnswerType =>
                 (r.role = "sender" /\ r.state = "InProgress" /\ ~r.awaiting => NextQuery(m))

LEMMA StepIInv ==
    ASSUME IInv, NEW e \in End, NEW x, Quiet(e, x), Compatible(e, x), Untroubled(e, x), Sendable(e, x),
           EndOK(e)', SenderOK(e)', ReceiverOK(e)'
    PROVE  IInv'
<1> DEFINE p == Peer(e)
           s == sess[e]
           r == sess[p]
<1>1. p \in End /\ p # e /\ Peer(p) = e /\ \A k \in End : k = e \/ k = p
  BY PeerEnd
<1>2. /\ Typed' /\ \A t \in Transfer' : TransferOK(t)'
      /\ sess'[e] = x /\ sess'[p] = r
      /\ \A t : Prepared(t)' = Prepared(t) /\ Taken(t)' = Taken(t)
      /\ \A m : NextQuery(m)' = NextQuery(m) /\ OldQuery(m)' = OldQuery(m)
      /\ \A a, b : Follows(a, b) => Follows(a, b)'
      /\ \A t : LastNum(t)' = LastNum(t) /\ NextNum(t)' = NextNum(t)
  BY QuietTyped
<1>3. x.role = s.role /\ transfers' = transfers /\ got' = got /\ x \in Session
  BY DEF Quiet
<1>4. /\ Under(e)' \subseteq Under(e)
      /\ \A a, b : Precedes(Flight(e), a, b)' => Precedes(Flight(e), a, b)
  BY DEF Quiet, Shrinks, Under
<1>5. \A k \in End : EndOK(k) /\ SenderOK(k) /\ ReceiverOK(k) /\ FlightOK(k)
  BY DEF IInv
<1> DEFINE Sent == /\ \A z : z = x.msg => MessageOK(p, z)'
                   /\ \A a \in Under(p) : Follows(a, x.msg)
                   /\ r.transfer = x.msg.transfer /\ x.msg.type \in AnswerType =>
                         (r.role = "sender" /\ r.state = "InProgress" /\ ~r.awaiting => NextQuery(x.msg))
<1>6. \/ /\ Under(p)' \subseteq Under(p)
         /\ \A a, b : Precedes(Flight(p), a, b)' => Precedes(Flight(p), a, b)
      \/ /\ Under(p)' \subseteq Under(p) \cup {x.msg}
         /\ \A a, b : Precedes(Flight(p), a, b)' => Precedes(Flight(p), a, b) \/ (a \in Under(p) /\ b = x.msg)
         /\ Sent
  BY DEF Sendable, Shrinks, Grows, Under
<1>7. \A m \in Under(p)' : m \in Under(p) \/ (m = x.msg /\ Sent)
  BY <1>6
<1>8. (p = "responder" \/ e = "responder") /\ "responder" \in End
  BY DEF End, Peer
<1>9. /\ \A t : t = r.transfer /\ r.state = "Negotiate" => Untouched(t)'
      /\ r.transfer # 0 /\ r.transfer = x.transfer =>
              /\ r.role = "sender" /\ r.state = "InProgress" /\ ~r.awaiting /\ x.state \in Accepting => ~x.unacked
              /\ r.role = "sender" /\ r.state = "Done" => x.state = "Done"
              /\ r.role = "receiver" /\ r.state \in {"ReceivedEOF", "Done"} =>
                    x.state \in {"AwaitingEOFAck", "Done", "Error"}
  BY DEF Compatible, Untroubled
<1> HIDE DEF p, s, r, Sent
<1>10. EndOK(p)'
  BY <1>1, <1>2, <1>3, <1>5, <1>9 DEF EndOK, s, r
<1>11. SenderOK(p)'
  BY <1>1, <1>2, <1>5, <1>7, <1>9 DEF SenderOK, s, r, Sent
<1>12. ReceiverOK(p)'
  BY <1>1, <1>2, <1>4, <1>5, <1>9 DEF ReceiverOK, s, r
<1>13. ASSUME NEW m \in Under(e)' PROVE MessageOK(e, m)'
  <2>1. MessageOK(e, m) /\ m \in Under(e)
    BY <1>4, <1>5 DEF FlightOK
  <2>2. /\ m.type = "Init" => x.transfer < m.transfer
        /\ x.transfer = m.transfer =>
                    /\ m.type = "Accept" => x.state \in {"AwaitingAccept", "Error"}
                    /\ m.type \in BlockType => x.out # "block"
                    /\ m.type = "AckEOF" =>
                          /\ x.state \in {"AwaitingEOFAck", "Error"}
                          /\ x.state = "AwaitingEOFAck" /\ r.transfer = m.transfer => r.state = "Done"
    BY DEF Compatible, Untroubled, r, p
  <2>3. m.type = "Init" => Untouched(m.transfer)'
    BY <2>1 DEF Compatible, Untroubled, MessageOK
  <2> QED BY <1>1, <1>2, <1>3, <2>1, <2>2, <2>3 DEF MessageOK, s, r, p
<1>14. ASSUME NEW m \in Under(p)', m \in Under(p) PROVE MessageOK(p, m)'
  <2>1. MessageOK(p, m)
    BY <1>1, <1>5, <1>14 DEF FlightOK
  <2>2. m.transfer = x.transfer =>
              /\ m.type \in BlockType /\ x.state = "InProgress" => x.awaiting
              /\ m.type = "BlockEOF" => x.state \in {"AwaitingEOFAck", "Error"}
              /\ m.type = "AckEOF" /\ r.transfer = m.transfer /\ r.state = "AwaitingEOFAck" => x.state = "Done"
              /\ m.type = "Status" => x.state = "Error"
    BY <1>14 DEF Compatible, Untroubled, r, p
  <2>3. m.type = "Init" => Untouched(m.transfer)'
    BY <1>14, <2>1 DEF Compatible, Untroubled, MessageOK
  <2> QED BY <1>1, <1>2, <1>3, <2>1, <2>2, <2>3 DEF MessageOK, s, r
<1>15. FlightOK(e)'
  BY <1>2, <1>4, <1>5, <1>13 DEF FlightOK
<1>16. FlightOK(p)'
  <2>1. ASSUME NEW m \in Under(p)' PROVE MessageOK(p, m)'
    BY <1>7, <1>14 DEF Sent
  <2>2. ASSUME NEW a \in Under(p)', NEW b \in Under(p)', Precedes(Flight(p), a, b)'
        PROVE  Follows(a, b)'
    <3>1. CASE Precedes(Flight(p), a, b)
      <4>1. a \in Under(p) /\ b \in Under(p)
        BY <3>1 DEF Precedes, Under, In
      <4> QED BY <1>1, <1>2, <1>5, <3>1, <4>1 DEF FlightOK
    <3>2. CASE a \in Under(p) /\ b = x.msg /\ Sent
      BY <1>2, <3>2 DEF Sent
    <3> QED BY <1>6, <2>2, <3>1, <3>2
  <2> QED BY <2>1, <2>2 DEF FlightOK
<1> QED BY <1>1, <1>2, <1>10, <1>11, <1>12, <1>15, <1>16 DEF IInv

\* The types the arguments below use.
LEMMA Kinds ==
    ASSUME IInv
    PROVE  /\ transfers \in Nat /\ Transfer \subseteq Nat \ {0}
           /\ \A e \in End : /\ sess[e] \in Session /\ sess[e].transfer \in Nat
                             /\ sess[e].transfer # 0 => sess[e].transfer \in Transfer
                             /\ sess[e].role \in {"sender", "receiver"} /\ sess[e].unacked \in BOOLEAN
                             /\ sess[e].awaiting \in BOOLEAN
           /\ \A t \in Transfer : Prepared(t) \in Nat /\ Taken(t) \in Nat
           /\ \A e \in End : net[e] \in Seq(Message)
<1>1. Transfer \subseteq Nat \ {0}
  BY BdxAssumption DEF IInv, Typed, Transfer, Plan
<1>2. \A z : z \in Transfer \cup {0} => z \in Nat
  BY <1>1
<1>3. \A z \in Session : /\ z.transfer \in Transfer \cup {0} /\ z.role \in {"sender", "receiver"}
                         /\ z.unacked \in BOOLEAN /\ z.awaiting \in BOOLEAN
  BY DEF Session, Role
<1>4. \A e \in End : sess[e] \in Session
  BY DEF IInv, Typed
<1>5. ASSUME NEW e \in End
      PROVE  /\ sess[e] \in Session /\ sess[e].transfer \in Nat
             /\ sess[e].transfer # 0 => sess[e].transfer \in Transfer
             /\ sess[e].role \in {"sender", "receiver"} /\ sess[e].unacked \in BOOLEAN
             /\ sess[e].awaiting \in BOOLEAN
  <2>1. PICK z \in Session : z = sess[e]
    BY <1>4
  <2>2. z.transfer \in Transfer \cup {0}
    BY <1>3, <2>1
  <2>3. z.transfer \in Nat /\ (z.transfer # 0 => z.transfer \in Transfer)
    BY <1>2, <2>2
  <2> QED BY <1>3, <2>1, <2>3
<1>6. transfers \in Nat
  BY <1>2 DEF IInv, Typed
<1>7. \A t \in Transfer : Prepared(t) \in Nat /\ Taken(t) \in Nat
  BY DEF IInv, Typed, Prepared, Taken
<1>8. \A e \in End : net[e] \in Seq(Message)
  BY DEF IInv, Typed
<1> QED BY <1>1, <1>5, <1>6, <1>7, <1>8

\* A step of end e that handles no message, sends none and leaves the histories alone.
LEMMA LocalStep ==
    ASSUME IInv, NEW e \in End, NEW x \in Session, x.role = sess[e].role,
           sess' = [sess EXCEPT ![e] = x], clean' \in BOOLEAN,
           UNCHANGED <<plan, net, transfers, written, got>>
    PROVE  /\ Quiet(e, x)
           /\ x.out # "msg" \/ x.transfer = 0 => Shrinks(Flight(Peer(e))', Flight(Peer(e)))
           /\ Grows(Flight(Peer(e))', Flight(Peer(e)), x.msg)
<1>1. Peer(e) \in End /\ Peer(e) # e /\ Peer(Peer(e)) = e
  BY PeerEnd
<1>2. sess'[e] = x /\ sess'[Peer(e)] = sess[Peer(e)] /\ net' = net /\ net \in [End -> Seq(Message)]
      /\ Message' = Message
  BY <1>1 DEF IInv, Typed, Message, Transfer
<1>3. Flight(e)' = Flight(e) /\ Flight(Peer(e))' = FlightOf(net[Peer(e)], x)
  BY <1>1, <1>2 DEF Flight, FlightOf
<1>4. Quiet(e, x)
  BY <1>2, <1>3 DEF Quiet, Shrinks
<1>5. Flight(Peer(e)) = FlightOf(net[Peer(e)], sess[e])
  BY <1>1 DEF Flight
<1>6. net[Peer(e)] \in Seq(Message)
  BY <1>1, <1>2
<1> QED BY <1>3, <1>4, <1>5, <1>6, FlightChange

\* A step of end e that takes the first message on its way off the network.
LEMMA ReceiveStep ==
    ASSUME IInv, NEW e \in End, NEW x \in Session, x.role = sess[e].role,
           sess' = [sess EXCEPT ![e] = x], clean' \in BOOLEAN,
           net[e] # << >>, net' = [net EXCEPT ![e] = Tail(@)],
           UNCHANGED <<plan, transfers, written, got>>
    PROVE  /\ Quiet(e, x)
           /\ x.out # "msg" \/ x.transfer = 0 => Shrinks(Flight(Peer(e))', Flight(Peer(e)))
           /\ Grows(Flight(Peer(e))', Flight(Peer(e)), x.msg)
           /\ Head(net[e]) \in Under(e)
           /\ \A b \in Under(e)' : Precedes(Flight(e), Head(net[e]), b)
<1>1. Peer(e) \in End /\ Peer(e) # e /\ Peer(Peer(e)) = e
  BY PeerEnd
<1>2. sess'[e] = x /\ sess'[Peer(e)] = sess[Peer(e)] /\ net \in [End -> Seq(Message)]
      /\ net'[e] = Tail(net[e]) /\ net'[Peer(e)] = net[Peer(e)]
  BY <1>1 DEF IInv, Typed
<1>3. net[e] \in Seq(Message) /\ Tail(net[e]) \in Seq(Message) /\ net[Peer(e)] \in Seq(Message)
  BY <1>1, <1>2
<1>4. net' \in [End -> Seq(Message)]
  BY <1>2, <1>3
<1>5. Flight(e)' = FlightOf(Tail(net[e]), sess[Peer(e)]) /\ Flight(Peer(e))' = FlightOf(net[Peer(e)], x)
      /\ Flight(e) = FlightOf(net[e], sess[Peer(e)]) /\ Flight(Peer(e)) = FlightOf(net[Peer(e)], sess[e])
  BY <1>1, <1>2 DEF Flight, FlightOf
<1>6. /\ Shrinks(Flight(e)', Flight(e)) /\ Head(net[e]) \in In(Flight(e))
      /\ \A b \in In(Flight(e)') : Precedes(Flight(e), Head(net[e]), b)
  BY <1>3, <1>5, FlightTail
<1>7. Quiet(e, x)
  BY <1>4, <1>6 DEF Quiet
<1> QED BY <1>3, <1>5, <1>6, <1>7, FlightChange DEF Under

\* A step of a transfer that both ends know of troubles no other.
LEMMA UntroubledStep ==
    ASSUME IInv, NEW e \in End, NEW x, Quiet(e, x), x.transfer = sess[e].transfer,
           \/ sess[e].state \notin {"AwaitingAccept", "Error"}
           \/ \E m \in Under("initiator") : m.transfer = x.transfer,
           \/ Shrinks(Flight(Peer(e))', Flight(Peer(e)))
           \/ Grows(Flight(Peer(e))', Flight(Peer(e)), x.msg) /\ x.msg.transfer = x.transfer /\ x.msg.type # "Init"
    PROVE  Untroubled(e, x)
<1> DEFINE p == Peer(e)
           s == sess[e]
           r == sess[p]
<1>1. p \in End /\ p # e /\ Peer(p) = e /\ \A k \in End : k = e \/ k = p
  BY PeerEnd
<1>2. /\ sess'[e] = x /\ sess'[p] = r
      /\ \A t : Prepared(t)' = Prepared(t) /\ Taken(t)' = Taken(t)
  BY QuietTyped
<1>3. Under(e)' \subseteq Under(e)
  BY DEF Quiet, Shrinks, Under
<1>4. Under(p)' \subseteq Under(p) \/ (Under(p)' \subseteq Under(p) \cup {x.msg} /\ x.msg.transfer = x.transfer /\ x.msg.type # "Init")
  BY DEF Shrinks, Grows, Under
<1>5. \A m \in Under(p)' : m \in Under(p) \/ (m.transfer = x.transfer /\ m.type # "Init")
  BY <1>4
<1>6. \A k \in End : EndOK(k) /\ FlightOK(k)
  BY DEF IInv
<1>7. \/ e = "initiator" /\ p = "responder"
      \/ e = "responder" /\ p = "initiator"
  BY DEF End, Peer
<1>8. s.transfer \in Nat
  BY Kinds
<1>9. s.state \notin {"AwaitingAccept", "Error"} \/ \E m \in Under("initiator") : m.transfer = x.transfer
  OBVIOUS
<1>10. x.transfer = s.transfer
  OBVIOUS
<1> HIDE DEF p, s, r
<1>11. ASSUME NEW t, Untouched(t), e = "responder" => t # x.transfer PROVE Untouched(t)'
  <2>1. CASE e = "initiator"
    <3>1. x.transfer # t
      BY <1>9, <1>10, <1>11, <2>1 DEF Untouched, s
    <3> QED BY <1>2, <1>3, <1>11, <2>1, <3>1 DEF Untouched
  <2>2. CASE e = "responder"
    BY <1>2, <1>5, <1>7, <1>11, <2>2 DEF Untouched, r
  <2> QED BY <1>7, <2>1, <2>2
<1>12. ASSUME NEW t, t = r.transfer, r.state = "Negotiate" PROVE Untouched(t)'
  <2>1. e = "initiator" /\ Untouched(t)
    BY <1>1, <1>6, <1>7, <1>12 DEF EndOK, r
  <2> QED BY <1>11, <2>1
<1>13. ASSUME NEW m \in Under("responder"), m.type = "Init" PROVE Untouched(m.transfer)'
  <2>1. Untouched(m.transfer) /\ sess["responder"].transfer < m.transfer
    BY <1>1, <1>6, <1>7, <1>13 DEF FlightOK, MessageOK
  <2>2. e = "responder" => m.transfer # x.transfer
    BY <1>8, <1>10, <2>1 DEF s
  <2> QED BY <1>11, <2>1, <2>2
<1>14. ASSUME NEW m \in Under(e)', m.type = "Init" PROVE x.transfer < m.transfer
  BY <1>3, <1>6, <1>10, <1>14 DEF FlightOK, MessageOK, s
<1> QED BY <1>12, <1>13, <1>14 DEF Untroubled, r, p

-----------------------------------------------------------------------------
(* The steps of a transfer, for the session x that end e has after it.     *)

\* What the invariant says of both ends and of the messages under way between them.
Facts(e) ==
    LET p == Peer(e)
    IN  /\ EndOK(e) /\ SenderOK(e) /\ ReceiverOK(e) /\ EndOK(p) /\ SenderOK(p) /\ ReceiverOK(p)
        /\ \A m \in Under(e) : MessageOK(e, m)
        /\ \A m \in Under(p) : MessageOK(p, m)
        /\ \A a, b : Precedes(Flight(e), a, b) => Follows(a, b)
        /\ \A a, b : Precedes(Flight(p), a, b) => Follows(a, b)

LEMMA FactsHold == ASSUME IInv, NEW e \in End PROVE Facts(e)
<1>1. Peer(e) \in End
  BY PeerEnd
<1>2. \A k : \A a, b : Precedes(Flight(k), a, b) => a \in Under(k) /\ b \in Under(k)
  BY DEF Precedes, Under, In
<1> QED BY <1>1, <1>2 DEF IInv, FlightOK, Facts

\* The block counter tells the query for the last block from that for the next.
LEMMA QueriesDiffer ==
    ASSUME IInv, NEW m, m.transfer \in Transfer
    PROVE  ~(OldQuery(m) /\ NextQuery(m))
<1>1. Prepared(m.transfer) \in Nat
  BY Kinds
<1>2. CASE Prepared(m.transfer) > 0
  <2>1. Prepared(m.transfer) - 1 \in Nat /\ (Prepared(m.transfer) - 1) + 1 = Prepared(m.transfer)
    BY <1>1, <1>2
  <2>2. LastNum(m.transfer) # NextNum(m.transfer)
    BY <2>1, NextDiffers DEF LastNum, NextNum
  <2> QED BY <2>2 DEF OldQuery, NextQuery
<1> QED BY <1>1, <1>2 DEF OldQuery

\* What holds before and after a step of a transfer that leaves the histories alone.
Stage(e, x) ==
    LET p == Peer(e)
        t == sess[e].transfer
    IN  /\ p \in End /\ p # e /\ Peer(p) = e
        /\ (e = "initiator" /\ p = "responder") \/ (e = "responder" /\ p = "initiator")
        /\ sess'[e] = x /\ sess'[p] = sess[p] /\ x.role = sess[e].role
        /\ sess[e].role \in {"sender", "receiver"} /\ sess[p].role \in {"sender", "receiver"}
        /\ \A k : Prepared(k)' = Prepared(k) /\ Taken(k)' = Taken(k)
        /\ \A n : NextQuery(n)' = NextQuery(n) /\ OldQuery(n)' = OldQuery(n)
        /\ \A k : LastNum(k)' = LastNum(k) /\ NextNum(k)' = NextNum(k)
        /\ Facts(e)
        /\ transfers' = transfers /\ transfers \in Nat /\ t \in 1 .. transfers
        /\ Under(e)' \subseteq Under(e)
        /\ t \in Transfer /\ Prepared(t) \in Nat /\ Taken(t) \in Nat
        /\ Prepared(t) \in {Taken(t), Taken(t) + 1}
        /\ \A n : n.transfer = t => ~(OldQuery(n) /\ NextQuery(n))

LEMMA StageHolds ==
    ASSUME IInv, NEW e \in End, NEW x, Quiet(e, x), sess[e].transfer # 0
    PROVE  Stage(e, x)
<1>1. Peer(e) \in End /\ Peer(e) # e /\ Peer(Peer(e)) = e
      /\ ((e = "initiator" /\ Peer(e) = "responder") \/ (e = "responder" /\ Peer(e) = "initiator"))
  BY DEF End, Peer
<1>2. /\ sess'[e] = x /\ sess'[Peer(e)] = sess[Peer(e)]
      /\ \A k : Prepared(k)' = Prepared(k) /\ Taken(k)' = Taken(k)
      /\ \A n : NextQuery(n)' = NextQuery(n) /\ OldQuery(n)' = OldQuery(n)
      /\ \A k : LastNum(k)' = LastNum(k) /\ NextNum(k)' = NextNum(k)
  BY QuietTyped
<1>3. Facts(e)
  BY FactsHold
<1>4. transfers' = transfers /\ x.role = sess[e].role /\ Under(e)' \subseteq Under(e)
  BY DEF Quiet, Under, Shrinks
<1>5. sess[e].transfer \in Transfer /\ sess[e].transfer \in Nat /\ transfers \in Nat
  BY Kinds
<1>6. sess[e].transfer <= transfers
  BY <1>3 DEF Facts, EndOK
<1>7. sess[e].transfer \in 1 .. transfers
  BY <1>5, <1>6
<1>8. \A t \in Transfer : /\ Prepared(t) \in Nat /\ Taken(t) \in Nat
                          /\ Prepared(t) \in {Taken(t), Taken(t) + 1}
  BY Kinds DEF IInv, TransferOK
<1>9. sess[e].role \in {"sender", "receiver"} /\ sess[Peer(e)].role \in {"sender", "receiver"}
  BY <1>1, Kinds
<1>10. \A n : n.transfer = sess[e].transfer => ~(OldQuery(n) /\ NextQuery(n))
  BY <1>5, QueriesDiffer
<1> QED BY <1>1, <1>2, <1>3, <1>4, <1>5, <1>7, <1>8, <1>9, <1>10 DEF Stage

\* The receiver in receiver drive asks for a block (PrepareBlockQuery).
LEMMA AskIInv ==
    ASSUME IInv, NEW e \in End, NEW x, Quiet(e, x),
           sess[e].state = "InProgress", sess[e].role = "receiver", sess[e].out = "none",
           ~sess[e].awaiting, sess[e].mode = "ReceiverDrive",
           x.state = "InProgress", x.mode = "ReceiverDrive", x.awaiting, x.out = "msg", ~x.unacked,
           x.nextQuery = Inc(sess[e].nextQuery), x.transfer = sess[e].transfer,
           Grows(Flight(Peer(e))', Flight(Peer(e)), x.msg),
           x.msg.type = "Query", x.msg.num = sess[e].nextQuery,
           x.msg.transfer = sess[e].transfer, x.msg.role = sess[e].role
    PROVE  IInv'
<1> DEFINE p == Peer(e)
           s == sess[e]
           r == sess[p]
           t == s.transfer
           m == x.msg
<1>1. /\ s.state = "InProgress" /\ s.role = "receiver" /\ s.out = "none" /\ ~s.awaiting /\ s.mode = "ReceiverDrive"
      /\ x.state = "InProgress" /\ x.mode = "ReceiverDrive" /\ x.awaiting /\ x.out = "msg" /\ ~x.unacked
      /\ x.nextQuery = Inc(s.nextQuery) /\ x.transfer = t
      /\ m.type = "Query" /\ m.num = s.nextQuery /\ m.transfer = t /\ m.role = s.role
  OBVIOUS
<1>2. t # 0
  BY FactsHold DEF Facts, EndOK, Agreed
<1>3. Stage(e, x)
  BY <1>2, StageHolds
<1>4. Untroubled(e, x)
  BY <1>1, UntroubledStep
<1>5. Under(p)' \subseteq Under(p) \cup {m}
  BY DEF Grows, Under
<1> HIDE DEF p, s, r, t, m
<1>6. s.nextQuery = Taken(t) % CounterMod /\ x.nextQuery = (Taken(t) + 1) % CounterMod
  <2>1. s.nextQuery = (Taken(t) + 0) % CounterMod
    BY <1>1, <1>2, <1>3 DEF Stage, Facts, ReceiverOK, s, t
  <2>2. s.nextQuery = Taken(t) % CounterMod /\ Taken(t) \in Nat
    BY <1>3, <2>1 DEF Stage, s, t
  <2> QED BY <1>1, <2>2, IncMod
<1>7. /\ Prepared(t) = Taken(t) => NextQuery(m)
      /\ Prepared(t) = Taken(t) + 1 => OldQuery(m)
  <2>1. Prepared(t) = Taken(t) + 1 => Prepared(t) - 1 = Taken(t) /\ Prepared(t) > 0
    BY <1>3 DEF Stage, s, t
  <2> QED BY <1>1, <1>6, <2>1 DEF NextQuery, OldQuery, NextNum, LastNum
<1>8. \A n \in Under(p) : n.transfer = t =>
          /\ n.type = "Query" => Prepared(t) = Taken(t) /\ OldQuery(n)
          /\ n.type \in AckType => Prepared(t) = Taken(t)
  BY <1>1, <1>2, <1>3 DEF Stage, Facts, ReceiverOK, s, t, p
<1>9. EndOK(e)'
  BY <1>1, <1>3 DEF Stage, Facts, EndOK, s, t, p, r, Early, Agreed
<1>10. SenderOK(e)'
  BY <1>1, <1>3 DEF Stage, SenderOK, s
<1>11. ReceiverOK(e)'
  BY <1>1, <1>3, <1>6 DEF Stage, ReceiverOK, s, t
<1>12. Compatible(e, x)
  BY <1>1, <1>2, <1>3, <1>5 DEF Stage, Compatible, Facts, EndOK, SenderOK, ReceiverOK, MessageOK, s, t, r, p, Agreed,
     AnswerType, AckType, BlockType
<1>13. Sendable(e, x)
  BY <1>1, <1>2, <1>3, <1>7, <1>8 DEF Stage, Sendable, Facts, SenderOK, MessageOK, Follows, s, t, r, p, m,
     AnswerType, AckType, BlockType
<1> QED BY <1>4, <1>9, <1>10, <1>11, <1>12, <1>13, StepIInv

\* The receiver acknowledges the block its caller has, and is done after the
\* last one (PrepareBlockAck).
LEMMA AcknowledgeIInv ==
    ASSUME IInv, NEW e \in End, NEW x, Quiet(e, x),
           sess[e].state \in Accepting, sess[e].role = "receiver", sess[e].out = "none", sess[e].unacked,
           x.state = (IF sess[e].state = "ReceivedEOF" THEN "Done" ELSE "InProgress"),
           x.mode = sess[e].mode, x.awaiting <=> (x.state = "InProgress" /\ x.mode = "SenderDrive"),
           x.out = "msg", ~x.unacked, x.nextQuery = sess[e].nextQuery, x.transfer = sess[e].transfer,
           Grows(Flight(Peer(e))', Flight(Peer(e)), x.msg),
           x.msg.type = (IF sess[e].state = "ReceivedEOF" THEN "AckEOF" ELSE "Ack"),
           x.msg.num = sess[e].lastBlock, x.msg.transfer = sess[e].transfer, x.msg.role = sess[e].role
    PROVE  IInv'
<1> DEFINE p == Peer(e)
           s == sess[e]
           r == sess[p]
           t == s.transfer
           m == x.msg
<1>1. /\ s.state \in {"InProgress", "ReceivedEOF"} /\ s.role = "receiver" /\ s.out = "none" /\ s.unacked
      /\ x.state = (IF s.state = "ReceivedEOF" THEN "Done" ELSE "InProgress")
      /\ x.mode = s.mode /\ (x.awaiting <=> (x.state = "InProgress" /\ x.mode = "SenderDrive"))
      /\ x.out = "msg" /\ ~x.unacked /\ x.nextQuery = s.nextQuery /\ x.transfer = t
      /\ m.type = (IF s.state = "ReceivedEOF" THEN "AckEOF" ELSE "Ack")
      /\ m.num = s.lastBlock /\ m.transfer = t /\ m.role = s.role
  BY DEF Accepting
<1>2. t # 0
  BY <1>1, FactsHold DEF Facts, EndOK, Agreed
<1>3. Stage(e, x)
  BY <1>2, StageHolds
<1>4. Untroubled(e, x)
  BY <1>1, UntroubledStep
<1>5. Under(p)' \subseteq Under(p) \cup {m}
  BY DEF Grows, Under
<1> HIDE DEF p, s, r, t, m
<1>6. /\ ~s.awaiting /\ Prepared(t) = Taken(t) /\ Taken(t) > 0 /\ s.lastBlock = LastNum(t)
      /\ \A n \in Under(p) : n.transfer = t /\ n.type \in AnswerType => OldQuery(n)
  BY <1>1, <1>2, <1>3 DEF Stage, Facts, ReceiverOK, Accepting, s, t, p
<1>7. EndOK(e)'
  BY <1>1, <1>3 DEF Stage, Facts, EndOK, s, t, p, r, Early, Agreed
<1>8. SenderOK(e)'
  BY <1>1, <1>3 DEF Stage, SenderOK, s
<1>9. ReceiverOK(e)'
  <2>1. x.state = "Done" /\ r.transfer = t => r.state \in {"AwaitingEOFAck", "Done", "Error"}
    BY <1>1, <1>2, <1>3 DEF Stage, Facts, ReceiverOK, s, t, r, p
  <2>2. s.state = "InProgress" /\ s.mode = "ReceiverDrive" => s.nextQuery = (Taken(t) + 0) % CounterMod
    BY <1>1, <1>2, <1>3, <1>6 DEF Stage, Facts, ReceiverOK, s, t, r, p
  <2>3. Prepared(t) = Taken(t) + 0
    BY <1>3, <1>6 DEF Stage, s, t
  <2>4. \A n \in Under(p)' : n.transfer = t => (n.type = "Query" => OldQuery(n))
    BY <1>1, <1>5, <1>6 DEF AnswerType
  <2>5. x.state = "InProgress" /\ x.mode = "ReceiverDrive" => ~x.awaiting /\ x.nextQuery = (Taken(t) + 0) % CounterMod
    BY <1>1, <2>2
  <2>6. x.out # "block" /\ ~x.unacked /\ x.transfer = t /\ x.state \in {"InProgress", "Done"}
    BY <1>1
  <2> QED BY <1>3, <1>6, <2>1, <2>3, <2>4, <2>5, <2>6 DEF Stage, ReceiverOK, r, p
<1>10. Compatible(e, x)
  BY <1>1, <1>2, <1>3, <1>5, <1>6 DEF Stage, Compatible, Facts, EndOK, SenderOK, ReceiverOK, MessageOK, s, t, r, p, Agreed,
     AnswerType, AckType, BlockType, OldQuery
<1>11. Sendable(e, x)
  <2>1. MessageOK(p, m)'
    <3>1. m.type = "AckEOF" /\ r.transfer = t => r.state \in {"AwaitingEOFAck", "Error"}
      BY <1>1, <1>2, <1>3 DEF Stage, Facts, ReceiverOK, SenderOK, EndOK, Agreed, s, t, r, p
    <3> QED BY <1>1, <1>3, <1>6, <3>1 DEF Stage, MessageOK, s, t, r, p, AnswerType, AckType, BlockType
  <2>2. \A a \in Under(p) : Follows(a, m)
    BY <1>1, <1>3, <1>6 DEF Stage, Follows, s, t, p, m, AnswerType, AckType, BlockType, OldQuery
  <2>3. r.transfer = t => ~(r.role = "sender" /\ r.state = "InProgress" /\ ~r.awaiting)
    BY <1>1, <1>2, <1>3 DEF Stage, Facts, SenderOK, s, t, r, p, Accepting
  <2> QED BY <1>1, <2>1, <2>2, <2>3 DEF Sendable, s, t, r, p, m
<1> QED BY <1>4, <1>7, <1>8, <1>9, <1>10, <1>11, StepIInv

\* The responder accepts the transfer (AcceptTransfer).
LEMMA GrantIInv ==
    ASSUME IInv, NEW e \in End, NEW x, Quiet(e, x), sess[e].state = "Negotiate",
           x.state = "InProgress", x.mode = sess[e].mode,
           x.awaiting <=> (x.mode = IF x.role = "receiver" THEN "SenderDrive" ELSE "ReceiverDrive"),
           x.out = "msg", x.unacked = sess[e].unacked, x.nextQuery = sess[e].nextQuery,
           x.nextBlock = sess[e].nextBlock, x.transfer = sess[e].transfer,
           Grows(Flight(Peer(e))', Flight(Peer(e)), x.msg),
           x.msg.type = "Accept", x.msg.transfer = sess[e].transfer, x.msg.role = sess[e].role
    PROVE  IInv'
<1> DEFINE p == Peer(e)
           s == sess[e]
           r == sess[p]
           t == s.transfer
           m == x.msg
<1>1. /\ s.state = "Negotiate" /\ x.state = "InProgress" /\ x.mode = s.mode
      /\ (x.awaiting <=> (x.mode = IF x.role = "receiver" THEN "SenderDrive" ELSE "ReceiverDrive"))
      /\ x.out = "msg" /\ x.unacked = s.unacked /\ x.nextQuery = s.nextQuery
      /\ x.nextBlock = s.nextBlock /\ x.transfer = t
      /\ m.type = "Accept" /\ m.transfer = t /\ m.role = s.role
  OBVIOUS
<1>2. t # 0
  BY <1>1, FactsHold DEF Facts, EndOK, Agreed
<1>3. Stage(e, x)
  BY <1>2, StageHolds
<1>4. Untroubled(e, x)
  BY <1>1, UntroubledStep
<1>5. Under(p)' \subseteq Under(p) \cup {m}
  BY DEF Grows, Under
<1> HIDE DEF p, s, r, t, m
<1>6. /\ e = "responder" /\ p = "initiator" /\ Prepared(t) = 0 /\ Taken(t) = 0
      /\ \A n \in Under(p) : n.transfer # t
      /\ r.transfer = t => r.state \in {"AwaitingAccept", "Error"}
      /\ s.nextBlock = 0 /\ s.nextQuery = 0 /\ ~s.unacked
  <2>1. e = "responder" /\ p = "initiator" /\ Untouched(t) /\ s.nextBlock = 0 /\ s.nextQuery = 0 /\ ~s.unacked
    BY <1>1, <1>3 DEF Stage, Facts, EndOK, s, t, p, Early
  <2> QED BY <2>1 DEF Untouched, r
<1>7. 0 % CounterMod = 0
  BY BdxAssumption
<1>8. \A n \in Under(e) : n.transfer = t /\ n.type \in AnswerType => NextQuery(n)
  BY <1>3, <1>6 DEF Stage, Facts, MessageOK, OldQuery, AnswerType, t
<1>9. EndOK(e)'
  BY <1>1, <1>3 DEF Stage, Facts, EndOK, s, t, p, r, Early, Agreed
<1>10. SenderOK(e)'
  BY <1>1, <1>3, <1>6, <1>7, <1>8 DEF Stage, SenderOK, NextNum, s, t, r, p, Accepting
<1>11. ReceiverOK(e)'
  BY <1>1, <1>3, <1>5, <1>6, <1>7 DEF Stage, ReceiverOK, s, t, r, p, AckType, AnswerType
<1>12. Compatible(e, x)
  BY <1>1, <1>2, <1>3, <1>5, <1>6 DEF Stage, Compatible, Facts, MessageOK, s, t, r, p,
     AnswerType, AckType, BlockType
<1>13. Sendable(e, x)
  BY <1>1, <1>2, <1>3, <1>6 DEF Stage, Sendable, MessageOK, Follows, s, t, r, p, m,
     AnswerType, AckType, BlockType
<1> QED BY <1>4, <1>9, <1>10, <1>11, <1>12, <1>13, StepIInv

\* The initiator takes the acceptance it waits for (HandleReceiveAccept and
\* HandleSendAccept).
LEMMA AcceptedIInv ==
    ASSUME IInv, NEW e \in End, NEW x, Quiet(e, x), Shrinks(Flight(Peer(e))', Flight(Peer(e))),
           NEW m \in Under(e), \A b \in Under(e)' : Precedes(Flight(e), m, b),
           m.type = "Accept", m.transfer = sess[e].transfer, m.role # sess[e].role,
           sess[e].state = "AwaitingAccept", x.state = "InProgress",
           x.awaiting <=> (x.mode = IF x.role = "receiver" THEN "SenderDrive" ELSE "ReceiverDrive"),
           x.out = "accept", x.unacked = sess[e].unacked, x.nextQuery = sess[e].nextQuery,
           x.nextBlock = sess[e].nextBlock, x.transfer = sess[e].transfer
    PROVE  IInv'
<1> DEFINE p == Peer(e)
           s == sess[e]
           r == sess[p]
           t == s.transfer
<1>1. /\ s.state = "AwaitingAccept" /\ x.state = "InProgress"
      /\ (x.awaiting <=> (x.mode = IF x.role = "receiver" THEN "SenderDrive" ELSE "ReceiverDrive"))
      /\ x.out = "accept" /\ x.unacked = s.unacked /\ x.nextQuery = s.nextQuery
      /\ x.nextBlock = s.nextBlock /\ x.transfer = t
      /\ m.type = "Accept" /\ m.transfer = t /\ m.role # s.role
  OBVIOUS
<1>2. t # 0
  BY <1>1, FactsHold DEF Facts, EndOK, Agreed
<1>3. Stage(e, x)
  BY <1>2, StageHolds
<1>4. e = "initiator" /\ m.role = r.role
  BY <1>1, <1>3 DEF Stage, Facts, MessageOK
<1>5. Untroubled(e, x)
  BY <1>1, <1>4, UntroubledStep
<1>6. Under(p)' \subseteq Under(p) /\ \A b \in Under(e)' : Follows(m, b)
  BY <1>3 DEF Shrinks, Under, Stage, Facts
<1>7. Shrinks(Flight(p)', Flight(p))
  OBVIOUS
<1> HIDE DEF p, s, r, t
<1>8. /\ s.nextBlock = 0 /\ s.nextQuery = 0 /\ ~s.unacked
      /\ s.role = "sender" => Prepared(t) = 0 /\ Taken(t) = 0
      /\ s.role = "receiver" => /\ Taken(t) = 0
                                /\ \A n \in Under(p) : n.transfer = t => n.type \notin AnswerType
  BY <1>1, <1>2, <1>3 DEF Stage, Facts, EndOK, SenderOK, ReceiverOK, s, t, p, Early
<1>9. 0 % CounterMod = 0
  BY BdxAssumption
<1>10. EndOK(e)'
  BY <1>1, <1>3, <1>4, <1>8 DEF Stage, Facts, EndOK, s, t, p, r, Early, Agreed
<1>11. SenderOK(e)'
  <2>1. s.role = "sender" => \A n \in Under(e) : n.transfer = t /\ n.type \in AnswerType => NextQuery(n)
    BY <1>3, <1>8 DEF Stage, Facts, MessageOK, OldQuery, AnswerType, t
  <2>2. s.role = "sender" /\ r.transfer = t /\ r.state \in Accepting => ~r.unacked
    BY <1>1, <1>2, <1>3, <1>4, <1>8 DEF Stage, Facts, ReceiverOK, r, p, s, t
  <2> QED BY <1>1, <1>3, <1>8, <1>9, <2>1, <2>2 DEF Stage, SenderOK, NextNum, s, t, r, p
<1>12. ReceiverOK(e)'
  BY <1>1, <1>3, <1>6, <1>8, <1>9 DEF Stage, ReceiverOK, s, t, r, p, AnswerType
<1>13. Compatible(e, x)
  BY <1>1, <1>2, <1>3, <1>4, <1>6, <1>8 DEF Stage, Compatible, Facts, EndOK, SenderOK, ReceiverOK, MessageOK, Follows,
     s, t, r, p, AnswerType, AckType, BlockType
<1> QED BY <1>5, <1>7, <1>10, <1>11, <1>12, <1>13, StepIInv DEF Sendable, p

\* The sender takes the answer to its last block, or a query for the next one
\* (HandleBlockAck, HandleBlockQuery).
LEMMA AnsweredIInv ==
    ASSUME IInv, NEW e \in End, NEW x, Quiet(e, x), Shrinks(Flight(Peer(e))', Flight(Peer(e))),
           NEW m \in Under(e), \A b \in Under(e)' : Precedes(Flight(e), m, b),
           m.type \in {"Query", "Ack"}, m.transfer = sess[e].transfer,
           m.type = "Query" => m.num = sess[e].nextBlock,
           sess[e].state = "InProgress", sess[e].role = "sender", sess[e].awaiting,
           x.state = "InProgress", x.out \notin {"msg", "block"}, x.unacked = sess[e].unacked,
           x.lastBlock = sess[e].lastBlock, x.nextBlock = sess[e].nextBlock, x.transfer = sess[e].transfer
    PROVE  IInv'
<1> DEFINE p == Peer(e)
           s == sess[e]
           r == sess[p]
           t == s.transfer
<1>1. /\ s.state = "InProgress" /\ s.role = "sender" /\ s.awaiting
      /\ x.state = "InProgress" /\ x.out \notin {"msg", "block"} /\ x.unacked = s.unacked
      /\ x.lastBlock = s.lastBlock /\ x.nextBlock = s.nextBlock /\ x.transfer = t
      /\ m.type \in {"Query", "Ack"} /\ m.transfer = t /\ (m.type = "Query" => m.num = s.nextBlock)
  OBVIOUS
<1>2. t # 0
  BY <1>1, FactsHold DEF Facts, EndOK, Agreed
<1>3. Stage(e, x)
  BY <1>2, StageHolds
<1>4. Untroubled(e, x)
  BY <1>1, UntroubledStep
<1>5. Under(p)' \subseteq Under(p) /\ \A b \in Under(e)' : Follows(m, b)
  BY <1>3 DEF Shrinks, Under, Stage, Facts
<1>6. Shrinks(Flight(p)', Flight(p))
  OBVIOUS
<1> HIDE DEF p, s, r, t
<1>7. /\ s.nextBlock = NextNum(t) /\ (Prepared(t) > 0 => s.lastBlock = LastNum(t))
  BY <1>1, <1>2, <1>3 DEF Stage, Facts, SenderOK, s, t
<1>8. (m.type = "Query" => NextQuery(m)) /\ Taken(t) = Prepared(t) /\ ~OldQuery(m)
  <2>1. MessageOK(e, m)
    BY <1>3 DEF Stage, Facts
  <2>2. CASE m.type = "Query"
    <3>1. NextQuery(m)
      BY <1>1, <1>7, <2>2 DEF NextQuery
    <3>2. ~OldQuery(m)
      BY <1>1, <1>3, <3>1 DEF Stage, t, s
    <3> QED BY <1>1, <2>1, <2>2, <3>1, <3>2 DEF MessageOK
  <2>3. CASE m.type = "Ack"
    BY <1>1, <2>1, <2>3 DEF MessageOK, AckType, OldQuery
  <2> QED BY <1>1, <2>2, <2>3
<1>9. \A b \in Under(e)' : b.transfer = t /\ b.type \in AnswerType => NextQuery(b)
  BY <1>1, <1>5, <1>8 DEF Follows, AnswerType, AckType
<1>10. r.transfer = t /\ r.state \in Accepting => ~r.unacked
  <2>1. r.role = "receiver"
    BY <1>1, <1>3 DEF Stage, Facts, EndOK, Agreed, s, r, p
  <2>2. m \in Under(e) /\ m.type \in AnswerType
    BY <1>1 DEF AnswerType, AckType
  <2> QED BY <1>1, <1>2, <1>3, <1>8, <2>1, <2>2 DEF Stage, Facts, ReceiverOK, r, p, t, s
<1>11. EndOK(e)'
  BY <1>1, <1>3 DEF Stage, Facts, EndOK, s, t, p, r, Early, Agreed
<1>12. SenderOK(e)'
  BY <1>1, <1>3, <1>7, <1>8, <1>9, <1>10 DEF Stage, SenderOK, s, t, r, p
<1>13. ReceiverOK(e)'
  BY <1>1, <1>3 DEF Stage, ReceiverOK, s
<1>14. Compatible(e, x)
  <2>1. Prepared(t) # Taken(t) + 1
    BY <1>3, <1>8 DEF Stage, t, s
  <2> QED BY <1>1, <1>2, <1>3, <1>5, <2>1 DEF Stage, Compatible, Facts, EndOK, SenderOK, ReceiverOK, MessageOK,
     s, t, r, p, Agreed, AnswerType, AckType, BlockType
<1> QED BY <1>4, <1>6, <1>11, <1>12, <1>13, <1>14, StepIInv DEF Sendable, p

\* The sender takes the acknowledgment of its last block (HandleBlockAckEOF).
LEMMA CompletedIInv ==
    ASSUME IInv, NEW e \in End, NEW x, Quiet(e, x), Shrinks(Flight(Peer(e))', Flight(Peer(e))),
           NEW m \in Under(e), \A b \in Under(e)' : Precedes(Flight(e), m, b),
           m.type = "AckEOF", m.transfer = sess[e].transfer,
           sess[e].state = "AwaitingEOFAck", sess[e].role = "sender",
           x.state = "Done", ~x.awaiting, x.out \notin {"msg", "block"}, x.transfer = sess[e].transfer
    PROVE  IInv'
<1> DEFINE p == Peer(e)
           s == sess[e]
           r == sess[p]
           t == s.transfer
<1>1. /\ s.state = "AwaitingEOFAck" /\ s.role = "sender"
      /\ x.state = "Done" /\ ~x.awaiting /\ x.out \notin {"msg", "block"} /\ x.transfer = t
      /\ m.type = "AckEOF" /\ m.transfer = t
  OBVIOUS
<1>2. t # 0
  BY <1>1, FactsHold DEF Facts, EndOK, Agreed
<1>3. Stage(e, x)
  BY <1>2, StageHolds
<1>4. Untroubled(e, x)
  BY <1>1, UntroubledStep
<1>5. Under(p)' \subseteq Under(p) /\ \A b \in Under(e)' : Follows(m, b)
  BY <1>3 DEF Shrinks, Under, Stage, Facts
<1>6. Shrinks(Flight(p)', Flight(p))
  OBVIOUS
<1> HIDE DEF p, s, r, t
<1>7. Taken(t) = Prepared(t) /\ (r.transfer = t => r.state = "Done")
  BY <1>1, <1>3 DEF Stage, Facts, MessageOK, AckType, s, t, r, p
<1>8. EndOK(e)'
  BY <1>1, <1>3 DEF Stage, Facts, EndOK, s, t, p, r, Early, Agreed
<1>9. SenderOK(e)'
  BY <1>1, <1>3, <1>7 DEF Stage, SenderOK, s, t, r, p
<1>10. ReceiverOK(e)'
  BY <1>1, <1>3 DEF Stage, ReceiverOK, s
<1>11. Compatible(e, x)
  <2>1. Prepared(t) # Taken(t) + 1
    BY <1>3, <1>7 DEF Stage, t, s
  <2> QED BY <1>1, <1>2, <1>3, <1>5, <2>1 DEF Stage, Compatible, Facts, EndOK, MessageOK, Follows,
     s, t, r, p, Agreed, AnswerType, AckType, BlockType
<1> QED BY <1>4, <1>6, <1>8, <1>9, <1>10, <1>11, StepIInv DEF Sendable, p

\* The receiver takes the block it waits for (HandleBlock, HandleBlockEOF).
LEMMA BlockIInv ==
    ASSUME IInv, NEW e \in End, NEW x, Quiet(e, x), Shrinks(Flight(Peer(e))', Flight(Peer(e))),
           NEW m \in Under(e), \A b \in Under(e)' : Precedes(Flight(e), m, b),
           m.type \in BlockType, m.transfer = sess[e].transfer,
           sess[e].state = "InProgress", sess[e].role = "receiver", sess[e].awaiting,
           x.state = (IF m.type = "BlockEOF" THEN "ReceivedEOF" ELSE "InProgress"),
           ~x.awaiting, x.out = "block", x.msg = m, x.lastBlock = m.num, x.mode = sess[e].mode,
           x.nextQuery = sess[e].nextQuery, x.unacked = sess[e].unacked, x.transfer = sess[e].transfer
    PROVE  IInv'
<1> DEFINE p == Peer(e)
           s == sess[e]
           r == sess[p]
           t == s.transfer
<1>1. /\ s.state = "InProgress" /\ s.role = "receiver" /\ s.awaiting
      /\ x.state = (IF m.type = "BlockEOF" THEN "ReceivedEOF" ELSE "InProgress")
      /\ ~x.awaiting /\ x.out = "block" /\ x.msg = m /\ x.lastBlock = m.num /\ x.mode = s.mode
      /\ x.nextQuery = s.nextQuery /\ x.unacked = s.unacked /\ x.transfer = t
      /\ m.type \in BlockType /\ m.transfer = t
  OBVIOUS
<1>2. t # 0
  BY <1>1, FactsHold DEF Facts, EndOK, Agreed
<1>3. Stage(e, x)
  BY <1>2, StageHolds
<1>4. Untroubled(e, x)
  BY <1>1, UntroubledStep
<1>5. Under(p)' \subseteq Under(p) /\ \A b \in Under(e)' : Follows(m, b)
  BY <1>3 DEF Shrinks, Under, Stage, Facts
<1>6. Shrinks(Flight(p)', Flight(p))
  OBVIOUS
<1> HIDE DEF p, s, r, t
<1>7. /\ Prepared(t) = Taken(t) + 1 /\ m.data = <<t, Taken(t) + 1>> /\ m.num = LastNum(t)
      /\ m.type = "BlockEOF" => (r.transfer = t => r.state \in {"AwaitingEOFAck", "Error"})
  BY <1>1, <1>3 DEF Stage, Facts, MessageOK, s, t, r, p
<1>8. ~s.unacked
  BY <1>1, <1>2, <1>3 DEF Stage, Facts, ReceiverOK, Accepting, s, t
<1>9. \A n \in Under(p) : n.transfer = t /\ n.type \in AnswerType => OldQuery(n)
  <2>1. Prepared(t) # Taken(t)
    BY <1>3, <1>7 DEF Stage, s, t
  <2> QED BY <1>3, <2>1 DEF Stage, Facts, MessageOK, AnswerType, p, t
<1>10. EndOK(e)'
  BY <1>1, <1>3, <1>8 DEF Stage, Facts, EndOK, s, t, p, r, Early, Agreed, Accepting
<1>11. SenderOK(e)'
  BY <1>1, <1>3 DEF Stage, SenderOK, s
<1>12. ReceiverOK(e)'
  <2>1. s.mode = "ReceiverDrive" => x.nextQuery = (Taken(t) + 1) % CounterMod
    BY <1>1, <1>2, <1>3 DEF Stage, Facts, ReceiverOK, s, t
  <2> QED BY <1>1, <1>3, <1>5, <1>7, <1>8, <1>9, <2>1 DEF Stage, ReceiverOK, s, t, r, p
<1>13. Compatible(e, x)
  <2>1. Prepared(t) # Taken(t)
    BY <1>3, <1>7 DEF Stage, s, t
  <2> QED BY <1>1, <1>2, <1>3, <1>5, <1>8, <1>9, <2>1 DEF Stage, Compatible, Facts, EndOK, SenderOK, MessageOK, Follows,
     s, t, r, p, Agreed, AnswerType, AckType, BlockType
<1> QED BY <1>4, <1>6, <1>10, <1>11, <1>12, <1>13, StepIInv DEF Sendable, p

\* The responder takes the request it waits for (HandleTransferInit).
LEMMA RequestedIInv ==
    ASSUME IInv, NEW e \in End, NEW x, Quiet(e, x), Shrinks(Flight(Peer(e))', Flight(Peer(e))),
           NEW m \in Under(e), \A b \in Under(e)' : Precedes(Flight(e), m, b),
           m.type = "Init", m.role # sess[e].role, sess[e].state = "AwaitingInit",
           x.state = "Negotiate", ~x.awaiting, x.out = "init", x.transfer = m.transfer,
           x.nextBlock = sess[e].nextBlock, x.nextQuery = sess[e].nextQuery, x.unacked = sess[e].unacked
    PROVE  IInv'
<1> DEFINE p == Peer(e)
           s == sess[e]
           r == sess[p]
           t == m.transfer
<1>1. /\ m.type = "Init" /\ m.role # s.role /\ s.state = "AwaitingInit"
      /\ x.state = "Negotiate" /\ ~x.awaiting /\ x.out = "init" /\ x.transfer = t
      /\ x.nextBlock = s.nextBlock /\ x.nextQuery = s.nextQuery /\ x.unacked = s.unacked
  OBVIOUS
<1>2. p \in End /\ p # e /\ Peer(p) = e
  BY PeerEnd
<1>3. Facts(e) /\ transfers \in Nat
  BY FactsHold, Kinds
<1>4. e = "responder" /\ Untouched(t) /\ t \in 1 .. transfers /\ m.role = r.role
  BY <1>3 DEF Facts, MessageOK
<1>5. /\ sess'[e] = x /\ sess'[p] = r /\ x.role = s.role /\ transfers' = transfers
      /\ \A k : Prepared(k)' = Prepared(k) /\ Taken(k)' = Taken(k)
  BY QuietTyped DEF Quiet
<1>6. Under(e)' \subseteq Under(e) /\ Under(p)' \subseteq Under(p) /\ \A b \in Under(e)' : Follows(m, b)
  BY <1>3 DEF Quiet, Shrinks, Under, Facts
<1>7. Shrinks(Flight(p)', Flight(p)) /\ p = "initiator"
  BY <1>4 DEF Peer
<1> HIDE DEF p, s, r, t
<1>8. \A k : Untouched(k) => Untouched(k)'
  BY <1>5, <1>6, <1>7 DEF Untouched, r
<1>9. EndOK(e)'
  <2>1. s.nextBlock = 0 /\ s.nextQuery = 0 /\ ~s.unacked
    BY <1>1, <1>3 DEF Facts, EndOK, s, Early
  <2>2. Untouched(t)' /\ t # 0 /\ t <= transfers
    BY <1>3, <1>4, <1>8
  <2> QED BY <1>1, <1>2, <1>4, <1>5, <2>1, <2>2 DEF EndOK, s, r, p, Early, Agreed, Accepting
<1>10. SenderOK(e)' /\ ReceiverOK(e)'
  BY <1>1, <1>5 DEF SenderOK, ReceiverOK, Accepting
<1>11. Compatible(e, x)
  <2>1. /\ r.transfer = t => r.state \in {"AwaitingAccept", "Error"}
        /\ \A n \in Under(p) : n.transfer # t
        /\ Prepared(t) = 0
    BY <1>4, <1>7 DEF Untouched, r
  <2>2. \A n \in Under(e) : n.transfer = t => n.type # "AckEOF" /\ n.type # "Accept"
    BY <1>3, <1>4, <2>1 DEF Facts, MessageOK, AckType, t
  <2> QED BY <1>1, <1>6, <2>1, <2>2 DEF Compatible, r, p, t
<1>12. Untroubled(e, x)
  <2>1. r.state # "Negotiate"
    BY <1>3, <1>7 DEF Facts, EndOK, r, p
  <2>2. ASSUME NEW n \in Under("responder"), n.type = "Init" PROVE Untouched(n.transfer)'
    BY <1>3, <1>4, <1>8, <2>2 DEF Facts, MessageOK
  <2>3. \A n \in Under(e)' : n.type = "Init" => t < n.transfer
    BY <1>1, <1>6 DEF Follows, t
  <2> QED BY <1>1, <2>1, <2>2, <2>3 DEF Untroubled, r, p
<1> QED BY <1>7, <1>9, <1>10, <1>11, <1>12, StepIInv DEF Sendable, p

\* A session without a transfer (Reset, WaitForTransfer).
LEMMA FreshIInv ==
    ASSUME IInv, NEW e \in End, NEW x, Quiet(e, x), Shrinks(Flight(Peer(e))', Flight(Peer(e))),
           x.state = "Uninitialized" \/ (x.state = "AwaitingInit" /\ e = "responder"),
           ~x.awaiting, x.out = "none", x.transfer = 0, x.nextBlock = 0, x.nextQuery = 0, ~x.unacked
    PROVE  IInv'
<1> DEFINE p == Peer(e)
           s == sess[e]
           r == sess[p]
<1>1. /\ x.state = "Uninitialized" \/ (x.state = "AwaitingInit" /\ e = "responder")
      /\ ~x.awaiting /\ x.out = "none" /\ x.transfer = 0 /\ x.nextBlock = 0 /\ x.nextQuery = 0 /\ ~x.unacked
  OBVIOUS
<1>2. p \in End /\ p # e /\ Peer(p) = e
      /\ ((e = "initiator" /\ p = "responder") \/ (e = "responder" /\ p = "initiator"))
  BY DEF End, Peer
<1>3. Facts(e) /\ transfers \in Nat
  BY FactsHold, Kinds
<1>4. /\ sess'[e] = x /\ sess'[p] = r /\ x.role = s.role /\ transfers' = transfers
      /\ \A k : Prepared(k)' = Prepared(k) /\ Taken(k)' = Taken(k)
  BY QuietTyped DEF Quiet
<1>5. Under(e)' \subseteq Under(e) /\ Under(p)' \subseteq Under(p)
  BY DEF Quiet, Shrinks, Under
<1>6. Shrinks(Flight(p)', Flight(p))
  OBVIOUS
<1> HIDE DEF p, s, r
<1>7. \A k : Untouched(k) /\ k # 0 => Untouched(k)'
  BY <1>1, <1>2, <1>4, <1>5 DEF Untouched, r
<1>8. \A n : n \in Under(e) \/ n \in Under(p) => n.transfer \in 1 .. transfers /\ n.transfer # 0
  BY <1>3 DEF Facts, MessageOK, p
<1>9. EndOK(e)'
  BY <1>1, <1>3, <1>4 DEF EndOK, Early, Agreed
<1>10. SenderOK(e)' /\ ReceiverOK(e)'
  BY <1>1, <1>4 DEF SenderOK, ReceiverOK
<1>11. Compatible(e, x)
  BY <1>1, <1>5, <1>8 DEF Compatible, p
<1>12. Untroubled(e, x)
  <2>1. ASSUME NEW t, t = r.transfer, r.state = "Negotiate" PROVE Untouched(t)'
    <3>1. Untouched(t) /\ t # 0
      BY <1>2, <1>3, <2>1 DEF Facts, EndOK, Agreed, r, p
    <3> QED BY <1>7, <3>1
  <2>2. ASSUME NEW n \in Under("responder"), n.type = "Init" PROVE Untouched(n.transfer)'
    <3>1. Untouched(n.transfer) /\ n.transfer # 0
      BY <1>2, <1>3, <1>8, <2>2 DEF Facts, MessageOK, p
    <3> QED BY <1>7, <3>1
  <2>3. \A n \in Under(e)' : 0 < n.transfer
    BY <1>5, <1>8
  <2> QED BY <1>1, <2>1, <2>2, <2>3 DEF Untroubled, r, p
<1> QED BY <1>6, <1>9, <1>10, <1>11, <1>12, StepIInv DEF Sendable, p

-----------------------------------------------------------------------------
(* The steps that a history records.                                       *)

\* What a step of end e that leaves the network alone does to the messages under way.
LEMMA HistoryStep ==
    ASSUME IInv, NEW e \in End, NEW x, sess' = [sess EXCEPT ![e] = x], net' = net
    PROVE  /\ Peer(e) \in End /\ Peer(e) # e /\ Peer(Peer(e)) = e
           /\ (e = "initiator" /\ Peer(e) = "responder") \/ (e = "responder" /\ Peer(e) = "initiator")
           /\ sess'[e] = x /\ sess'[Peer(e)] = sess[Peer(e)]
           /\ Flight(e)' = Flight(e) /\ Under(e)' = Under(e)
           /\ x.out # "msg" => Shrinks(Flight(Peer(e))', Flight(Peer(e)))
           /\ Grows(Flight(Peer(e))', Flight(Peer(e)), x.msg)
           /\ Facts(e)
<1>1. Peer(e) \in End /\ Peer(e) # e /\ Peer(Peer(e)) = e
      /\ ((e = "initiator" /\ Peer(e) = "responder") \/ (e = "responder" /\ Peer(e) = "initiator"))
  BY DEF End, Peer
<1>2. sess'[e] = x /\ sess'[Peer(e)] = sess[Peer(e)]
  BY <1>1 DEF IInv, Typed
<1>3. Flight(e)' = Flight(e) /\ Flight(Peer(e))' = FlightOf(net[Peer(e)], x)
      /\ Flight(Peer(e)) = FlightOf(net[Peer(e)], sess[e])
  BY <1>1, <1>2 DEF Flight, FlightOf
<1>4. net[Peer(e)] \in Seq(Message)
  BY <1>1, Kinds
<1>5. /\ x.out # "msg" => Shrinks(Flight(Peer(e))', Flight(Peer(e)))
      /\ Grows(Flight(Peer(e))', Flight(Peer(e)), x.msg)
  BY <1>3, <1>4, FlightChange
<1>6. Under(e)' = Under(e)
  BY <1>3 DEF Under
<1> QED BY <1>1, <1>2, <1>3, <1>5, <1>6, FactsHold

\* The initiator requests the next transfer (StartTransfer).
LEMMA RequestIInv ==
    ASSUME IInv, NEW e \in End, NEW x \in Session, sess' = [sess EXCEPT ![e] = x],
           UNCHANGED <<plan, net, written, got, clean>>,
           e = "initiator", sess[e].state = "Uninitialized",
           transfers' = transfers + 1, transfers + 1 \in Transfer,
           x.role = sess[e].role, x.state = "AwaitingAccept", x.transfer = transfers + 1, x.awaiting,
           x.out = "msg", x.nextBlock = sess[e].nextBlock, x.nextQuery = sess[e].nextQuery,
           x.unacked = sess[e].unacked,
           x.msg.type = "Init", x.msg.role = x.role, x.msg.transfer = transfers + 1
    PROVE  IInv'
<1> DEFINE p == Peer(e)
           s == sess[e]
           r == sess[p]
           m == x.msg
<1>0. PICK t : t = transfers + 1
  OBVIOUS
<1>1. /\ e = "initiator" /\ s.state = "Uninitialized" /\ transfers' = t /\ t \in Transfer
      /\ x.role = s.role /\ x.state = "AwaitingAccept" /\ x.transfer = t /\ x.awaiting /\ x.out = "msg"
      /\ x.nextBlock = s.nextBlock /\ x.nextQuery = s.nextQuery /\ x.unacked = s.unacked
      /\ m.type = "Init" /\ m.role = x.role /\ m.transfer = t
  BY <1>0
<1>2. /\ p \in End /\ p # e /\ Peer(p) = e /\ p = "responder"
      /\ sess'[e] = x /\ sess'[p] = r
      /\ Flight(e)' = Flight(e) /\ Under(e)' = Under(e)
      /\ Grows(Flight(p)', Flight(p), m)
      /\ Facts(e)
  BY <1>1, HistoryStep
<1>3. transfers \in Nat /\ r.transfer \in Nat /\ r.transfer <= transfers
  BY <1>2, Kinds DEF Facts, EndOK
<1>4. /\ \A k : Prepared(k)' = Prepared(k) /\ Taken(k)' = Taken(k)
      /\ \A n : NextQuery(n)' = NextQuery(n) /\ OldQuery(n)' = OldQuery(n)
      /\ \A a, b : Follows(a, b) => Follows(a, b)'
      /\ \A k : LastNum(k)' = LastNum(k) /\ NextNum(k)' = NextNum(k)
  BY DEF Prepared, Taken, NextQuery, OldQuery, Follows, LastNum, NextNum
<1>5. \A n : n \in Under(e) \/ n \in Under(p) => n.transfer \in 1 .. transfers
  BY <1>2 DEF Facts, MessageOK
<1>6. Under(p)' \subseteq Under(p) \cup {m}
      /\ \A a, b : Precedes(Flight(p), a, b)' => Precedes(Flight(p), a, b) \/ (a \in Under(p) /\ b = m)
  BY <1>2 DEF Grows, Under
<1>7. Typed' /\ \A k \in Transfer' : TransferOK(k)'
  <2>1. Transfer' = Transfer /\ Message' = Message /\ Session' = Session
    BY DEF Transfer, Message, Session
  <2>2. Typed'
    BY <1>1, <2>1 DEF IInv, Typed
  <2>3. \A k \in Transfer : TransferOK(k) /\ (k > t => k > transfers)
    BY <1>0, <1>3, Kinds DEF IInv
  <2>4. \A k \in Transfer : TransferOK(k)'
    BY <1>1, <1>4, <2>3 DEF TransferOK
  <2> QED BY <2>1, <2>2, <2>4
<1>8. Prepared(t) = 0 /\ Taken(t) = 0
  <2>1. Prepared(t) = 0 /\ Prepared(t) \in {Taken(t), Taken(t) + 1} /\ Taken(t) \in Nat
    BY <1>0, <1>1, <1>3, Kinds DEF IInv, TransferOK
  <2> QED BY <2>1
<1>9. t \in Nat /\ \A k : k \in 1 .. transfers => k # t /\ k \in 1 .. t
  BY <1>0, <1>3
<1> HIDE DEF p, s, r, m
<1>10. \A k : Untouched(k) /\ k # t => Untouched(k)'
  BY <1>1, <1>2, <1>4 DEF Untouched
<1>11. EndOK(e)'
  <2>1. s.nextBlock = 0 /\ s.nextQuery = 0 /\ ~s.unacked
    BY <1>1, <1>2 DEF Facts, EndOK, Early, s
  <2>2. t # 0 /\ t <= t
    BY <1>0, <1>3
  <2> QED BY <1>1, <1>2, <2>1, <2>2 DEF EndOK, Early, Agreed
<1>12. EndOK(p)'
  <2>1. ASSUME NEW k, k = r.transfer, r.state = "Negotiate" PROVE Untouched(k)'
    <3>1. Untouched(k)
      BY <1>2, <2>1 DEF Facts, EndOK, r, p
    <3>2. k # t
      BY <1>0, <1>3, <2>1
    <3> QED BY <1>10, <3>1, <3>2
  <2>2. r.transfer <= t
    BY <1>0, <1>3
  <2> QED BY <1>1, <1>2, <2>1, <2>2 DEF Facts, EndOK, r, p, s
<1>13. r.transfer # t
  BY <1>0, <1>3
<1>14. SenderOK(e)' /\ ReceiverOK(e)'
  BY <1>1, <1>2, <1>4, <1>5, <1>6, <1>8, <1>9 DEF SenderOK, ReceiverOK, Accepting, AnswerType, AckType, p
<1>15. SenderOK(p)'
  BY <1>1, <1>2, <1>4, <1>6, <1>13 DEF Facts, SenderOK, r, p
<1>16. ReceiverOK(p)'
  BY <1>1, <1>2, <1>4, <1>13 DEF Facts, ReceiverOK, r, p
<1>17. ASSUME NEW n \in Under(e) PROVE MessageOK(e, n)'
  <2>1. MessageOK(e, n) /\ n.transfer # t /\ n.transfer \in 1 .. t
    BY <1>2, <1>5, <1>9 DEF Facts
  <2> QED BY <1>1, <1>2, <1>4, <2>1 DEF MessageOK, r, p
<1>18. ASSUME NEW n \in Under(p) PROVE MessageOK(p, n)'
  <2>1. MessageOK(p, n) /\ n.transfer # t /\ n.transfer \in 1 .. t
    BY <1>2, <1>5, <1>9 DEF Facts, p
  <2>2. n.type = "Init" => Untouched(n.transfer)'
    BY <1>10, <2>1 DEF MessageOK
  <2> QED BY <1>1, <1>2, <1>4, <2>1, <2>2 DEF MessageOK, r, s
<1>19. MessageOK(p, m)'
  <2>1. Untouched(t)'
    BY <1>1, <1>2, <1>4, <1>5, <1>8, <1>9 DEF Untouched
  <2>2. r.transfer < t /\ t \in 1 .. t
    BY <1>0, <1>3
  <2> QED BY <1>1, <1>2, <2>1, <2>2 DEF MessageOK, r, BlockType, AnswerType, AckType
<1>20. FlightOK(e)'
  BY <1>2, <1>4, <1>17 DEF FlightOK, Facts
<1>21. FlightOK(p)'
  <2>1. \A a \in Under(p) : Follows(a, m)
    <3>1. \A k : k \in 1 .. transfers => k < t
      BY <1>0, <1>3
    <3> QED BY <1>1, <1>5, <1>9, <3>1 DEF Follows
  <2>2. \A a, b : Precedes(Flight(p), a, b)' => Follows(a, b)'
    BY <1>2, <1>4, <1>6, <2>1 DEF Facts, p
  <2>3. \A n \in Under(p)' : n \in Under(p) \/ n = m
    BY <1>6
  <2>4. ASSUME NEW n \in Under(p)' PROVE MessageOK(p, n)'
    BY <1>18, <1>19, <2>3 DEF m
  <2> QED BY <2>2, <2>4 DEF FlightOK
<1>22. \A k \in End : k = e \/ k = p
  BY PeerEnd DEF p
<1> QED BY <1>7, <1>11, <1>12, <1>14, <1>15, <1>16, <1>20, <1>21, <1>22 DEF IInv

\* The sender prepares a block (PrepareBlock).
LEMMA SendBlockIInv ==
    ASSUME IInv, NEW e \in End, NEW x \in Session, sess' = [sess EXCEPT ![e] = x],
           UNCHANGED <<plan, net, transfers, got>>, clean' \in BOOLEAN,
           sess[e].state = "InProgress", sess[e].role = "sender", sess[e].out = "none", ~sess[e].awaiting,
           NEW t, t = sess[e].transfer, NEW w \in [blocks : Nat, bytes : Nat],
           w.blocks = Prepared(t) + 1, written' = [written EXCEPT ![t] = w],
           x.role = "sender", x.awaiting, x.lastBlock = sess[e].nextBlock, x.nextBlock = Inc(sess[e].nextBlock),
           x.out = "msg", x.transfer = t,
           x.state \in {"InProgress", "AwaitingEOFAck"},
           x.msg.type \in BlockType, x.msg.type = "BlockEOF" => x.state = "AwaitingEOFAck",
           x.msg.role = "sender", x.msg.transfer = t, x.msg.num = sess[e].nextBlock,
           x.msg.data = <<t, w.blocks>>
    PROVE  IInv'
<1> DEFINE p == Peer(e)
           s == sess[e]
           r == sess[p]
           m == x.msg
<1>0. PICK b : b = Prepared(t)
  OBVIOUS
<1>1. /\ s.state = "InProgress" /\ s.role = "sender" /\ s.out = "none" /\ ~s.awaiting /\ s.transfer = t
      /\ x.role = "sender" /\ x.awaiting /\ x.lastBlock = s.nextBlock /\ x.nextBlock = Inc(s.nextBlock)
      /\ x.out = "msg" /\ x.transfer = t /\ x.state \in {"InProgress", "AwaitingEOFAck"}
      /\ m.type \in BlockType /\ (m.type = "BlockEOF" => x.state = "AwaitingEOFAck")
      /\ m.role = "sender" /\ m.transfer = t /\ m.num = s.nextBlock /\ m.data = <<t, b + 1>>
      /\ transfers' = transfers
  BY <1>0
<1>2. /\ p \in End /\ p # e /\ Peer(p) = e
      /\ (e = "initiator" /\ p = "responder") \/ (e = "responder" /\ p = "initiator")
      /\ sess'[e] = x /\ sess'[p] = r
      /\ Flight(e)' = Flight(e) /\ Under(e)' = Under(e)
      /\ Grows(Flight(p)', Flight(p), m)
      /\ Facts(e)
  BY HistoryStep
<1>3. /\ t # 0 /\ r.role # "sender" /\ t <= transfers
  BY <1>1, <1>2 DEF Facts, EndOK, Agreed
<1>4. /\ transfers \in Nat /\ t \in Transfer /\ t \in 1 .. transfers /\ r.transfer \in Nat
  <2>1. transfers \in Nat /\ t \in Transfer /\ t \in Nat /\ r.transfer \in Nat
    BY <1>1, <1>2, <1>3, Kinds
  <2> QED BY <1>3, <2>1
<1>5. b \in Nat /\ Taken(t) = b /\ Prepared(t) = b
  <2>1. Taken(t) = Prepared(t)
    BY <1>1, <1>2, <1>3 DEF Facts, SenderOK
  <2> QED BY <1>0, <1>4, <2>1, Kinds
<1>6. /\ \A n \in Under(e) : n.transfer = t /\ n.type \in AnswerType => NextQuery(n)
      /\ r.transfer = t /\ r.state \in Accepting => ~r.unacked
      /\ s.nextBlock = NextNum(t)
  BY <1>1, <1>2, <1>3 DEF Facts, SenderOK
<1>7. Prepared(t)' = b + 1 /\ \A k \in Transfer : k # t => Prepared(k)' = Prepared(k)
  BY <1>4, <1>5 DEF Prepared, IInv, Typed
<1>8. \A k : Taken(k)' = Taken(k)
  BY DEF Taken
<1>9. /\ NextNum(t) = b % CounterMod
      /\ LastNum(t)' = b % CounterMod /\ NextNum(t)' = (b + 1) % CounterMod
      /\ Inc(NextNum(t)) = (b + 1) % CounterMod
      /\ \A k \in Transfer : k # t => LastNum(k)' = LastNum(k) /\ NextNum(k)' = NextNum(k)
  <2>1. (b + 1) - 1 = b
    BY <1>5
  <2> QED BY <1>5, <1>7, <2>1, IncMod DEF LastNum, NextNum
<1>10. \A n : n.transfer \in Transfer /\ n.transfer # t =>
           NextQuery(n)' = NextQuery(n) /\ OldQuery(n)' = OldQuery(n)
  BY <1>7, <1>9 DEF NextQuery, OldQuery
<1>11. \A n : n.transfer = t /\ NextQuery(n) => OldQuery(n)' /\ ~OldQuery(n)
  <2>1. b + 1 > 0
    BY <1>5
  <2>2. \A n : n.transfer = t /\ NextQuery(n) => OldQuery(n)'
    BY <1>7, <1>9, <2>1 DEF NextQuery, OldQuery
  <2> QED BY <1>4, <2>2, QueriesDiffer
<1>12. Under(p)' \subseteq Under(p) \cup {m}
      /\ \A c, d : Precedes(Flight(p), c, d)' => Precedes(Flight(p), c, d) \/ (c \in Under(p) /\ d = m)
  BY <1>2 DEF Grows, Under
<1>13. Typed' /\ \A k \in Transfer' : TransferOK(k)'
  <2>1. Transfer' = Transfer /\ Message' = Message /\ Session' = Session
    BY DEF Transfer, Message, Session
  <2>2. Typed'
    BY <2>1 DEF IInv, Typed
  <2>3. ASSUME NEW k \in Transfer PROVE TransferOK(k)'
    <3>1. TransferOK(k) /\ Prepared(k) \in Nat /\ Taken(k) \in Nat
      BY Kinds DEF IInv
    <3>2. CASE k = t
      <4>1. ~(t > transfers)
        BY <1>4
      <4> QED BY <1>5, <1>7, <1>8, <3>1, <3>2, <4>1 DEF TransferOK
    <3>3. CASE k # t
      BY <1>7, <1>8, <3>1, <3>3 DEF TransferOK
    <3> QED BY <3>2, <3>3
  <2> QED BY <2>1, <2>2, <2>3
<1>14. \A n : n \in Under(e) \/ n \in Under(p) => n.transfer \in Transfer /\ n.transfer \in 1 .. transfers
  <2>1. \A n : n \in Under(e) \/ n \in Under(p) => n.transfer \in 1 .. transfers
    BY <1>2 DEF Facts, MessageOK
  <2>2. transfers # 0 => 1 .. transfers \subseteq Transfer
    BY BdxAssumption DEF IInv, Typed, Transfer, Plan
  <2>3. 1 .. transfers \subseteq Transfer
    BY <1>4, <2>2
  <2> QED BY <2>1, <2>3
<1> HIDE DEF p, s, r, m
<1>15. ASSUME NEW k \in Transfer, Untouched(k), e = "responder" => k # t PROVE k # t /\ Untouched(k)'
  <2>1. k # t
    BY <1>1, <1>2, <1>15 DEF Untouched, s
  <2> QED BY <1>1, <1>2, <1>7, <1>8, <1>12, <1>15, <2>1 DEF Untouched, r
<1>16. EndOK(e)'
  BY <1>1, <1>2 DEF Facts, EndOK, Early, Agreed, s, r, p
<1>17. EndOK(p)'
  <2>1. ASSUME NEW k, k = r.transfer, r.state = "Negotiate" PROVE Untouched(k)'
    <3>1. Untouched(k) /\ k # 0 /\ e = "initiator"
      BY <1>2, <2>1 DEF Facts, EndOK, Agreed, r, p
    <3>2. k \in Transfer
      BY <1>2, <2>1, <3>1, Kinds DEF r
    <3> QED BY <1>15, <3>1, <3>2
  <2> QED BY <1>1, <1>2, <2>1 DEF Facts, EndOK, r, p, s
<1>18. SenderOK(e)'
  <2>1. b + 1 > 0
    BY <1>5
  <2> QED BY <1>1, <1>2, <1>6, <1>7, <1>9, <2>1 DEF SenderOK
<1>19. SenderOK(p)' /\ ReceiverOK(e)'
  BY <1>1, <1>2, <1>3 DEF SenderOK, ReceiverOK, r
<1>20. ReceiverOK(p)'
  <2>1. CASE r.transfer # 0 /\ r.transfer # t
    <3>1. r.transfer \in Transfer
      BY <1>2, <2>1, Kinds DEF r
    <3> QED BY <1>1, <1>2, <1>7, <1>8, <1>9, <1>10, <2>1, <3>1 DEF Facts, ReceiverOK, r, p
  <2>2. CASE r.transfer = t
    <3>1. r.role = "receiver"
      BY <1>2, <1>3, Kinds DEF r
    <3>2. b # b + 1
      BY <1>5
    <3>3. r.out # "block" /\ r.state \notin {"ReceivedEOF", "Done"}
      BY <1>1, <1>2, <1>3, <1>5, <2>2, <3>1, <3>2 DEF Facts, ReceiverOK, r, p, s
    <3>4. r.state = "InProgress" /\ ~r.awaiting =>
              \A n \in Under(e) : n.transfer = t => n.type \notin AnswerType
      BY <1>2, <1>3, <1>6, <1>11, <2>2, <3>1, <3>3 DEF Facts, ReceiverOK, r, p, AnswerType, AckType, NextQuery
    <3> QED BY <1>1, <1>2, <1>3, <1>6, <1>8, <2>2, <3>1, <3>3, <3>4 DEF Facts, ReceiverOK, r, p, AnswerType
  <2>3. CASE r.transfer = 0
    BY <1>2, <2>3 DEF ReceiverOK
  <2> QED BY <2>1, <2>2, <2>3
<1>21. ASSUME NEW n \in Under(e) PROVE MessageOK(e, n)'
  <2>1. MessageOK(e, n) /\ n.transfer \in Transfer /\ n.transfer \in 1 .. transfers
    BY <1>2, <1>14 DEF Facts
  <2>2. n.type \notin BlockType
    BY <1>2, <1>3, <2>1 DEF MessageOK, r, p
  <2>3. n.type = "Init" => Untouched(n.transfer)' /\ n.transfer # t
    <3>1. n.type = "Init" => e = "responder" /\ Untouched(n.transfer) /\ t < n.transfer
      BY <1>1, <2>1 DEF MessageOK, s
    <3> QED BY <1>4, <1>15, <2>1, <3>1
  <2>4. CASE n.transfer # t
    BY <1>1, <1>2, <1>7, <1>8, <1>9, <1>10, <2>1, <2>2, <2>3, <2>4 DEF MessageOK, r, p
  <2>5. CASE n.transfer = t
    <3>1. n.type \in AnswerType => NextQuery(n) /\ OldQuery(n)' /\ n.type = "Query"
      BY <1>6, <1>11, <2>5 DEF NextQuery
    <3>2. n.type # "Accept"
      BY <1>1, <2>1, <2>5 DEF MessageOK, s
    <3> QED BY <1>1, <1>2, <2>1, <2>2, <2>3, <2>5, <3>1, <3>2 DEF MessageOK, r, p, AnswerType, AckType, BlockType
  <2> QED BY <2>4, <2>5
<1>22. ASSUME NEW n \in Under(p) PROVE MessageOK(p, n)' /\ n.type \notin AnswerType /\ (n.transfer = t => n.type \notin BlockType)
  <2>1. MessageOK(p, n) /\ n.transfer \in Transfer /\ n.transfer \in 1 .. transfers
    BY <1>2, <1>14 DEF Facts, p
  <2>2. n.type \notin AnswerType
    BY <1>1, <1>2, <2>1 DEF MessageOK, s
  <2>3. n.type = "Init" => Untouched(n.transfer)'
    <3>1. n.type = "Init" => e = "initiator" /\ Untouched(n.transfer)
      BY <1>2, <2>1 DEF MessageOK
    <3> QED BY <1>15, <2>1, <3>1
  <2>4. CASE n.transfer # t
    BY <1>1, <1>2, <1>7, <1>8, <1>9, <1>10, <2>1, <2>2, <2>3, <2>4 DEF MessageOK, r, s, AnswerType, AckType, BlockType
  <2>5. CASE n.transfer = t
    <3>1. n.type \notin BlockType
      <4>1. b # b + 1
        BY <1>5
      <4> QED BY <1>5, <2>1, <2>5, <4>1 DEF MessageOK
    <3>2. n.type # "Status"
      BY <1>1, <1>2, <2>1, <2>5 DEF MessageOK, s
    <3> QED BY <1>1, <1>2, <2>1, <2>2, <2>3, <2>5, <3>1, <3>2 DEF MessageOK, r, s, AnswerType, AckType, BlockType
  <2> QED BY <2>2, <2>4, <2>5
<1>23. MessageOK(p, m)'
  <2>1. ~(r.transfer = t /\ r.out = "block")
    <3>1. b # b + 1 /\ r.role = "receiver"
      BY <1>2, <1>3, <1>5, Kinds DEF r
    <3> QED BY <1>2, <1>3, <1>5, <3>1 DEF Facts, ReceiverOK, r, p
  <2> QED BY <1>1, <1>2, <1>4, <1>5, <1>6, <1>7, <1>8, <1>9, <2>1 DEF MessageOK, r, BlockType, AnswerType, AckType
<1>24. FlightOK(e)'
  <2>1. ASSUME NEW c, NEW d, Precedes(Flight(e), c, d) PROVE Follows(c, d)'
    <3>1. Follows(c, d) /\ c \in Under(e) /\ d \in Under(e)
      BY <1>2, <2>1 DEF Facts, Precedes, Under, In
    <3>2. CASE c.transfer # t
      BY <1>10, <1>14, <3>1, <3>2 DEF Follows
    <3>3. CASE c.transfer = t
      BY <1>6, <3>1, <3>3 DEF Follows, AnswerType, AckType, NextQuery
    <3> QED BY <3>2, <3>3
  <2> QED BY <1>2, <1>21, <2>1 DEF FlightOK
<1>25. FlightOK(p)'
  <2>1. \A c \in Under(p) : Follows(c, m)'
    BY <1>1, <1>22 DEF Follows, BlockType, AnswerType, AckType
  <2>2. ASSUME NEW c, NEW d, Precedes(Flight(p), c, d) PROVE Follows(c, d)'
    <3>1. Follows(c, d) /\ c \in Under(p) /\ d \in Under(p)
      BY <1>2, <2>2 DEF Facts, Precedes, Under, In, p
    <3> QED BY <1>22, <3>1 DEF Follows, AnswerType, AckType
  <2>3. \A c, d : Precedes(Flight(p), c, d)' => Follows(c, d)'
    BY <1>12, <2>1, <2>2
  <2>4. \A n \in Under(p)' : n \in Under(p) \/ n = m
    BY <1>12
  <2>5. ASSUME NEW n \in Under(p)' PROVE MessageOK(p, n)'
    BY <1>22, <1>23, <2>4 DEF m
  <2> QED BY <2>3, <2>5 DEF FlightOK
<1>26. \A k \in End : k = e \/ k = p
  BY PeerEnd DEF p
<1> QED BY <1>13, <1>16, <1>17, <1>18, <1>19, <1>20, <1>24, <1>25, <1>26 DEF IInv

\* The receiver's caller takes a block (PollOutput).
LEMMA TakeBlockIInv ==
    ASSUME IInv, NEW e \in End, NEW x \in Session, sess' = [sess EXCEPT ![e] = x],
           UNCHANGED <<plan, net, transfers, written, clean>>,
           sess[e].out = "block", NEW t, t = sess[e].transfer,
           got' = [got EXCEPT ![t] = Append(@, sess[e].msg.data)],
           x.role = sess[e].role, x.state = sess[e].state, x.mode = sess[e].mode, x.awaiting = sess[e].awaiting,
           x.lastBlock = sess[e].lastBlock, x.nextBlock = sess[e].nextBlock, x.nextQuery = sess[e].nextQuery,
           x.transfer = t, x.out = "none", x.unacked
    PROVE  IInv'
<1> DEFINE p == Peer(e)
           s == sess[e]
           r == sess[p]
<1>0. PICK b : b = Taken(t)
  OBVIOUS
<1>1. /\ s.out = "block" /\ s.transfer = t /\ x.role = s.role /\ x.state = s.state /\ x.mode = s.mode
      /\ x.awaiting = s.awaiting /\ x.lastBlock = s.lastBlock /\ x.nextBlock = s.nextBlock
      /\ x.nextQuery = s.nextQuery /\ x.transfer = t /\ x.out = "none" /\ x.unacked
      /\ transfers' = transfers /\ x.out # "msg"
  OBVIOUS
<1>2. /\ p \in End /\ p # e /\ Peer(p) = e
      /\ (e = "initiator" /\ p = "responder") \/ (e = "responder" /\ p = "initiator")
      /\ sess'[e] = x /\ sess'[p] = r
      /\ Flight(e)' = Flight(e) /\ Under(e)' = Under(e)
      /\ Shrinks(Flight(p)', Flight(p))
      /\ Facts(e)
  BY <1>1, HistoryStep
<1>3. /\ s.role = "receiver" /\ s.state \in {"InProgress", "ReceivedEOF"} /\ t # 0 /\ r.role # "receiver"
  BY <1>1, <1>2 DEF Facts, EndOK, Agreed, Accepting
<1>4. t \in Transfer
  BY <1>1, <1>3, Kinds
<1>5. /\ ~s.unacked /\ ~s.awaiting /\ Prepared(t) = b + 1 /\ s.msg.data = <<t, b + 1>> /\ s.lastBlock = LastNum(t)
      /\ \A n \in Under(p) : n.transfer = t /\ n.type \in AnswerType => OldQuery(n)
      /\ b \in Nat /\ Taken(t) = b
  <2>1. b \in Nat
    BY <1>0, <1>4, Kinds
  <2> QED BY <1>0, <1>1, <1>2, <1>3, <2>1 DEF Facts, ReceiverOK
<1>6. /\ got[t] \in Seq((Transfer \cup {0}) \X Nat) /\ got'[t] = Append(got[t], <<t, b + 1>>)
      /\ \A k \in Transfer : k # t => got'[k] = got[k]
  BY <1>4, <1>5 DEF IInv, Typed
<1>7. Taken(t)' = b + 1 /\ \A k \in Transfer : k # t => Taken(k)' = Taken(k)
  BY <1>5, <1>6 DEF Taken
<1>8. /\ \A k : Prepared(k)' = Prepared(k) /\ LastNum(k)' = LastNum(k) /\ NextNum(k)' = NextNum(k)
      /\ \A n : NextQuery(n)' = NextQuery(n) /\ OldQuery(n)' = OldQuery(n)
      /\ \A c, d : Follows(c, d) => Follows(c, d)'
  BY DEF Prepared, LastNum, NextNum, NextQuery, OldQuery, Follows
<1>9. Under(p)' \subseteq Under(p) /\ \A c, d : Precedes(Flight(p), c, d)' => Precedes(Flight(p), c, d)
  BY <1>2 DEF Shrinks, Under
<1>10. Typed' /\ \A k \in Transfer' : TransferOK(k)'
  <2>1. Transfer' = Transfer /\ Message' = Message /\ Session' = Session
    BY DEF Transfer, Message, Session
  <2>2. <<t, b + 1>> \in (Transfer \cup {0}) \X Nat
    BY <1>4, <1>5
  <2>3. got' \in [Transfer -> Seq((Transfer \cup {0}) \X Nat)]
    BY <1>4, <1>5, <1>6, <2>2 DEF IInv, Typed
  <2>4. Typed'
    BY <2>1, <2>3 DEF IInv, Typed
  <2>5. ASSUME NEW k \in Transfer PROVE TransferOK(k)'
    <3>1. TransferOK(k)
      BY DEF IInv
    <3>2. CASE k = t
      <4>1. \A i \in DOMAIN got'[t] : got'[t][i] = <<t, i>>
        BY <1>5, <1>6, <3>1, <3>2 DEF TransferOK, Taken
      <4> QED BY <1>1, <1>5, <1>7, <1>8, <3>1, <3>2, <4>1 DEF TransferOK
    <3>3. CASE k # t
      BY <1>1, <1>6, <1>7, <1>8, <3>1, <3>3 DEF TransferOK
    <3> QED BY <3>2, <3>3
  <2> QED BY <2>1, <2>4, <2>5
<1>11. \A n : n \in Under(e) \/ n \in Under(p) => n.transfer \in Transfer
  <2>1. \A n : n \in Under(e) \/ n \in Under(p) => n.transfer \in 1 .. transfers
    BY <1>2 DEF Facts, MessageOK
  <2>2. transfers # 0 => 1 .. transfers \subseteq Transfer
    BY BdxAssumption DEF IInv, Typed, Transfer, Plan
  <2>3. 1 .. transfers \subseteq Transfer
    BY <2>2, Kinds
  <2> QED BY <2>1, <2>3
<1>12. b # b + 1 /\ b + 1 > 0
  BY <1>5
<1> HIDE DEF p, s, r
<1>13. ASSUME NEW k \in Transfer, Untouched(k) PROVE k # t /\ Untouched(k)'
  <2>1. k # t
    BY <1>5, <1>12, <1>13 DEF Untouched
  <2> QED BY <1>1, <1>2, <1>7, <1>8, <1>9, <1>13, <2>1 DEF Untouched, r, s
<1>14. EndOK(e)'
  BY <1>1, <1>2, <1>3 DEF Facts, EndOK, Early, Agreed, s, r, p
<1>15. EndOK(p)'
  <2>1. ASSUME NEW k, k = r.transfer, r.state = "Negotiate" PROVE Untouched(k)'
    <3>1. Untouched(k) /\ k # 0
      BY <1>2, <2>1 DEF Facts, EndOK, Agreed, r, p
    <3>2. k \in Transfer
      BY <1>2, <2>1, <3>1, Kinds DEF r
    <3> QED BY <1>13, <3>1, <3>2
  <2> QED BY <1>1, <1>2, <2>1 DEF Facts, EndOK, r, p, s
<1>16. SenderOK(e)' /\ ReceiverOK(p)'
  BY <1>1, <1>2, <1>3 DEF SenderOK, ReceiverOK, r
<1>17. SenderOK(p)'
  <2>1. CASE r.transfer # 0 /\ r.transfer # t
    <3>1. r.transfer \in Transfer
      BY <1>2, <2>1, Kinds DEF r
    <3> QED BY <1>1, <1>2, <1>7, <1>8, <1>9, <2>1, <3>1 DEF Facts, SenderOK, r, p
  <2>2. CASE r.transfer = t
    <3>1. ~(r.role = "sender" /\ r.state = "InProgress" /\ ~r.awaiting) /\ ~(r.role = "sender" /\ r.state = "Done")
      BY <1>2, <1>3, <1>5, <1>12, <2>2 DEF Facts, SenderOK, r, p
    <3> QED BY <1>1, <1>2, <1>8, <2>2, <3>1 DEF Facts, SenderOK, r, p
  <2>3. CASE r.transfer = 0
    BY <1>2, <2>3 DEF SenderOK
  <2> QED BY <2>1, <2>2, <2>3
<1>18. ReceiverOK(e)'
  <2>1. s.state = "InProgress" /\ s.mode = "ReceiverDrive" => s.nextQuery = (b + 1) % CounterMod
    BY <1>1, <1>2, <1>3, <1>5 DEF Facts, ReceiverOK, s
  <2>2. (b + 1) + 0 = b + 1
    BY <1>5
  <2>3. s.state = "ReceivedEOF" /\ r.transfer = t => r.state \in {"AwaitingEOFAck", "Done", "Error"}
    BY <1>1, <1>2, <1>3 DEF Facts, ReceiverOK, s, r, p
  <2>4. \A n \in Under(p)' : n.transfer = t /\ n.type \in AnswerType => OldQuery(n)'
    BY <1>5, <1>8, <1>9
  <2> QED BY <1>1, <1>2, <1>3, <1>5, <1>7, <1>8, <1>12, <2>1, <2>2, <2>3, <2>4 DEF ReceiverOK, r, p, AnswerType
<1>19. ASSUME NEW n \in Under(e) PROVE MessageOK(e, n)'
  <2>1. MessageOK(e, n) /\ n.transfer \in Transfer
    BY <1>2, <1>11 DEF Facts
  <2>2. n.type \notin AnswerType
    BY <1>2, <1>3, <2>1 DEF MessageOK, r, p
  <2>3. n.type = "Init" => Untouched(n.transfer)'
    BY <1>13, <2>1 DEF MessageOK
  <2>4. n.type \in BlockType => n.transfer # t
    BY <1>1, <2>1 DEF MessageOK, s
  <2> QED BY <1>1, <1>2, <1>7, <1>8, <2>1, <2>2, <2>3, <2>4 DEF MessageOK, r, p, s, AnswerType, AckType
<1>20. ASSUME NEW n \in Under(p) PROVE MessageOK(p, n)'
  <2>1. MessageOK(p, n) /\ n.transfer \in Transfer
    BY <1>2, <1>11 DEF Facts, p
  <2>2. n.type \notin BlockType
    BY <1>2, <1>3, <2>1 DEF MessageOK, s
  <2>3. n.type = "Init" => Untouched(n.transfer)'
    BY <1>13, <2>1 DEF MessageOK
  <2>4. n.transfer = t /\ n.type \in AnswerType => OldQuery(n) /\ n.type = "Query"
    BY <1>5 DEF OldQuery
  <2>5. CASE n.transfer = t
    BY <1>1, <1>2, <1>8, <2>1, <2>2, <2>3, <2>4, <2>5 DEF MessageOK, r, s, AnswerType, AckType, BlockType
  <2>6. CASE n.transfer # t
    BY <1>1, <1>2, <1>7, <1>8, <2>1, <2>2, <2>3, <2>6 DEF MessageOK, r, s, BlockType
  <2> QED BY <2>5, <2>6
<1>21. FlightOK(e)'
  BY <1>2, <1>8, <1>19 DEF FlightOK, Facts
<1>22. FlightOK(p)'
  BY <1>2, <1>8, <1>9, <1>20 DEF FlightOK, Facts, p
<1>23. \A k \in End : k = e \/ k = p
  BY PeerEnd DEF p
<1> QED BY <1>10, <1>14, <1>15, <1>16, <1>17, <1>18, <1>21, <1>22, <1>23 DEF IInv

-----------------------------------------------------------------------------
(* The actions.                                                            *)

\* The messages and sessions the handlers build have their types.
LEMMA MessageTypes ==
    ASSUME IInv, NEW z \in Session, NEW type \in {"Init", "Accept", "Query", "Block", "BlockEOF", "Ack", "AckEOF", "Status"}
    PROVE  LET m == MessageOf(z, type)
           IN  /\ m \in Message /\ m.type = type /\ m.role = z.role /\ m.transfer = z.transfer
               /\ NoMessage \in Message
               /\ DOMAIN m = {"type", "role", "transfer", "num", "data", "bytes", "modes", "length"}
<1>1. 0 \in 0 .. CounterMod - 1
  BY BdxAssumption
<1>2. <<0, 0>> \in (Transfer \cup {0}) \X Nat
  OBVIOUS
<1>3. z.role \in Role /\ z.transfer \in Transfer \cup {0}
  BY DEF Session
<1>4. NoMessage \in Message
  BY <1>1, <1>2 DEF NoMessage, Message, Role
<1>5. MessageOf(z, type) \in Message
  BY <1>1, <1>2, <1>3 DEF MessageOf, Message
<1> QED BY <1>4, <1>5 DEF MessageOf

LEMMA ReportTypes ==
    ASSUME IInv, NEW z \in Session, NEW ok \in BOOLEAN, NEW y, y = PrepareStatusReport(z, ok)
    PROVE  /\ y \in Session /\ y.role = z.role /\ y.state = "Error" /\ ~y.awaiting /\ y.out # "block"
           /\ y.out = "msg" => y.msg.type = "Status" /\ y.msg.role = z.role /\ y.msg.transfer = z.transfer
           /\ y.transfer = z.transfer
<1> DEFINE m == MessageOf(z, "Status")
<1>1. m \in Message /\ m.type = "Status" /\ m.role = z.role /\ m.transfer = z.transfer
  BY MessageTypes
<1> HIDE DEF m
<1>2. CASE ok
  <2>1. y = [z EXCEPT !.out = "msg", !.msg = m, !.state = "Error", !.awaiting = FALSE]
    BY <1>2 DEF PrepareStatusReport, PrepareOutgoingMessageEvent, m, Session
  <2> QED BY <1>1, <2>1 DEF Session, State, Finished, Output
<1>3. CASE ~ok
  <2>1. y = [z EXCEPT !.out = "error", !.state = "Error", !.awaiting = FALSE]
    BY <1>3 DEF PrepareStatusReport, Session
  <2> QED BY <2>1 DEF Session, State, Finished, Output
<1> QED BY <1>2, <1>3

LEMMA StartTransferIInv == ASSUME IInv, NEW e \in End, StartTransfer(e) PROVE IInv'
<1> DEFINE s == sess[e]
           t == transfers + 1
<1>1. /\ e = "initiator" /\ s.state = "Uninitialized" /\ t \in Transfer /\ transfers' = t
      /\ UNCHANGED <<plan, net, written, got, clean>> /\ s \in Session
  BY Kinds DEF StartTransfer
<1>2. PICK len \in plan.lengths :
             sess' = [sess EXCEPT ![e] = PrepareOutgoingMessageEvent(
                        [s EXCEPT !.transfer = t, !.length = len,
                                  !.state = "AwaitingAccept", !.awaiting = TRUE],
                        [MessageOf([s EXCEPT !.transfer = t], "Init") EXCEPT
                            !.modes = s.opts, !.length = len])]
  BY DEF StartTransfer
<1> DEFINE z == [s EXCEPT !.transfer = t]
           i == MessageOf(z, "Init")
           m == [i EXCEPT !.modes = s.opts, !.length = len]
<1>3. z \in Session /\ z.role = s.role /\ z.transfer = t
  BY <1>1 DEF Session
<1>4. i \in Message /\ i.type = "Init" /\ i.role = s.role /\ i.transfer = t
  BY <1>3, MessageTypes
<1>5. PICK x : x = [s EXCEPT !.transfer = t, !.length = len, !.state = "AwaitingAccept", !.awaiting = TRUE,
                             !.out = "msg", !.msg = m]
  OBVIOUS
<1>6. sess' = [sess EXCEPT ![e] = x]
  BY <1>1, <1>2, <1>5 DEF PrepareOutgoingMessageEvent, Session
<1> HIDE DEF i
<1>7. m \in Message /\ m.type = "Init" /\ m.role = s.role /\ m.transfer = t
  BY <1>1, <1>4 DEF Message, Session
<1> HIDE DEF m, z
<1>8. x \in Session
  <2>1. "AwaitingAccept" \in State /\ "msg" \in Output /\ len \in plan.lengths \cup {0} /\ t \in Transfer \cup {0}
    BY <1>1 DEF State, Running, Output
  <2>2. PICK a, b, c : a = "AwaitingAccept" /\ b = "msg" /\ c = t
    OBVIOUS
  <2>3. x = [s EXCEPT !.transfer = c, !.length = len, !.state = a, !.awaiting = TRUE, !.out = b, !.msg = m]
    BY <1>5, <2>2
  <2> QED BY <1>1, <1>7, <2>1, <2>2, <2>3 DEF Session
<1>9. /\ x.role = s.role /\ x.state = "AwaitingAccept" /\ x.transfer = t /\ x.awaiting
      /\ x.out = "msg" /\ x.msg = m /\ x.nextBlock = s.nextBlock /\ x.nextQuery = s.nextQuery /\ x.unacked = s.unacked
  BY <1>1, <1>5 DEF Session
<1> QED BY <1>1, <1>6, <1>7, <1>8, <1>9, RequestIInv

LEMMA FreshActions == ASSUME IInv, NEW e \in End, WaitForTransfer(e) \/ Reset(e) PROVE IInv'
<1> DEFINE s == sess[e]
<1>1. s \in Session /\ clean \in BOOLEAN /\ NoMessage \in Message /\ EndOK(e)
  BY Kinds, MessageTypes DEF IInv, Typed
<1>2. CASE WaitForTransfer(e)
  <2>1. PICK x : x = [s EXCEPT !.state = "AwaitingInit"]
    OBVIOUS
  <2>2. /\ e = "responder" /\ s.state = "Uninitialized" /\ sess' = [sess EXCEPT ![e] = x]
        /\ UNCHANGED <<plan, net, transfers, written, got, clean>>
    BY <1>2, <2>1 DEF WaitForTransfer, IInv, Typed
  <2>3. s.transfer = 0 /\ s.out = "none" /\ s.nextBlock = 0 /\ s.nextQuery = 0 /\ ~s.unacked /\ ~s.awaiting
    BY <1>1, <2>2 DEF EndOK, Early
  <2>4. /\ x \in Session /\ x.role = s.role /\ x.state = "AwaitingInit" /\ x.transfer = 0 /\ x.out = "none"
        /\ x.nextBlock = 0 /\ x.nextQuery = 0 /\ ~x.unacked /\ ~x.awaiting
    BY <1>1, <2>1, <2>3 DEF Session, State
  <2>5. Quiet(e, x) /\ Shrinks(Flight(Peer(e))', Flight(Peer(e)))
    BY <1>1, <2>2, <2>4, LocalStep
  <2> QED BY <2>2, <2>4, <2>5, FreshIInv
<1>3. CASE Reset(e)
  <2>1. PICK x : x = ResetSession(s)
    OBVIOUS
  <2>2. /\ sess' = [sess EXCEPT ![e] = x] /\ UNCHANGED <<plan, net, transfers, written, got, clean>>
    BY <1>3, <2>1 DEF Reset
  <2>3. 0 \in 0 .. CounterMod - 1
    BY BdxAssumption
  <2>4. /\ x \in Session /\ x.role = s.role /\ x.state = "Uninitialized" /\ x.transfer = 0 /\ x.out = "none"
        /\ x.nextBlock = 0 /\ x.nextQuery = 0 /\ ~x.unacked /\ ~x.awaiting
    BY <1>1, <2>1, <2>3 DEF ResetSession, NewSession, Session, State, Output
  <2>5. Quiet(e, x) /\ Shrinks(Flight(Peer(e))', Flight(Peer(e)))
    BY <1>1, <2>2, <2>4, LocalStep
  <2> QED BY <2>4, <2>5, FreshIInv
<1> QED BY <1>2, <1>3

LEMMA PrepareBlockQueryIInv == ASSUME IInv, NEW e \in End, PrepareBlockQuery(e) PROVE IInv'
<1> DEFINE s == sess[e]
           i == MessageOf(s, "Query")
           m == [i EXCEPT !.num = s.nextQuery]
<1>1. s \in Session /\ clean \in BOOLEAN
  BY Kinds DEF IInv, Typed
<1>2. i \in Message /\ i.type = "Query" /\ i.role = s.role /\ i.transfer = s.transfer
  BY <1>1, MessageTypes
<1>3. PICK x : x = [s EXCEPT !.awaiting = TRUE, !.lastQuery = s.nextQuery, !.nextQuery = Inc(@), !.unacked = FALSE,
                             !.out = "msg", !.msg = m]
  OBVIOUS
<1>4. /\ s.state = "InProgress" /\ s.role = "receiver" /\ s.out = "none" /\ ~s.awaiting /\ s.mode = "ReceiverDrive"
      /\ sess' = [sess EXCEPT ![e] = x] /\ UNCHANGED <<plan, net, transfers, written, got, clean>>
  BY <1>1, <1>3 DEF PrepareBlockQuery, PrepareOutgoingMessageEvent, Session
<1> HIDE DEF i
<1>5. m \in Message /\ m.type = "Query" /\ m.role = s.role /\ m.transfer = s.transfer /\ m.num = s.nextQuery
  BY <1>1, <1>2 DEF Message, Session
<1> HIDE DEF m
<1>6. Inc(s.nextQuery) \in 0 .. CounterMod - 1
  BY <1>1, BdxAssumption DEF Session, Inc
<1>7. /\ x \in Session /\ x.role = s.role /\ x.state = "InProgress" /\ x.mode = "ReceiverDrive" /\ x.awaiting
      /\ x.out = "msg" /\ x.msg = m /\ x.nextQuery = Inc(s.nextQuery) /\ x.transfer = s.transfer /\ ~x.unacked
  BY <1>1, <1>3, <1>4, <1>5, <1>6 DEF Session, Output
<1>8. Quiet(e, x) /\ Grows(Flight(Peer(e))', Flight(Peer(e)), x.msg)
  BY <1>1, <1>4, <1>7, LocalStep
<1> QED BY <1>4, <1>5, <1>7, <1>8, AskIInv

LEMMA PrepareBlockAckIInv == ASSUME IInv, NEW e \in End, PrepareBlockAck(e) PROVE IInv'
<1> DEFINE s == sess[e]
           type == IF s.state = "ReceivedEOF" THEN "AckEOF" ELSE "Ack"
           i == MessageOf(s, type)
           m == [i EXCEPT !.num = s.lastBlock]
           pr == PrepareOutgoingMessageEvent([s EXCEPT !.unacked = FALSE], m)
<1>1. s \in Session /\ clean \in BOOLEAN /\ EndOK(e) /\ ReceiverOK(e)
  BY Kinds DEF IInv, Typed
<1>2. i \in Message /\ i.type = type /\ i.role = s.role /\ i.transfer = s.transfer
  BY <1>1, MessageTypes
<1>3. PICK x : x = IF s.state = "ReceivedEOF"
                   THEN [pr EXCEPT !.state = "Done", !.awaiting = FALSE]
                   ELSE IF s.mode = "SenderDrive"
                   THEN [pr EXCEPT !.lastQuery = Inc(s.lastBlock), !.awaiting = TRUE]
                   ELSE pr
  OBVIOUS
<1>4. /\ s.role = "receiver" /\ s.state \in {"InProgress", "ReceivedEOF"} /\ s.out = "none" /\ s.unacked
      /\ sess' = [sess EXCEPT ![e] = x] /\ UNCHANGED <<plan, net, transfers, written, got, clean>>
  BY <1>3 DEF PrepareBlockAck
<1>5. ~s.awaiting
  BY <1>1, <1>4 DEF EndOK, ReceiverOK, Agreed, Accepting
<1> HIDE DEF i
<1>6. m \in Message /\ m.type = type /\ m.role = s.role /\ m.transfer = s.transfer /\ m.num = s.lastBlock
  BY <1>1, <1>2 DEF Message, Session
<1> HIDE DEF m
<1>7. /\ pr \in Session /\ pr.role = s.role /\ pr.state = s.state /\ pr.mode = s.mode /\ pr.awaiting = s.awaiting
      /\ pr.out = "msg" /\ pr.msg = m /\ ~pr.unacked /\ pr.nextQuery = s.nextQuery /\ pr.transfer = s.transfer
  BY <1>1, <1>6 DEF PrepareOutgoingMessageEvent, Session, Output
<1> HIDE DEF pr, type
<1>8. Inc(s.lastBlock) \in 0 .. CounterMod - 1
  BY <1>1, BdxAssumption DEF Session, Inc
<1>9. /\ x \in Session /\ x.role = s.role /\ x.mode = s.mode
      /\ x.out = "msg" /\ x.msg = m /\ ~x.unacked /\ x.nextQuery = s.nextQuery /\ x.transfer = s.transfer
  <2>1. CASE s.state = "ReceivedEOF"
    <3>1. x = [pr EXCEPT !.state = "Done", !.awaiting = FALSE]
      BY <1>3, <2>1
    <3> QED BY <1>7, <3>1 DEF Session, State, Finished
  <2>2. CASE s.state # "ReceivedEOF" /\ s.mode = "SenderDrive"
    <3>1. x = [pr EXCEPT !.lastQuery = Inc(s.lastBlock), !.awaiting = TRUE]
      BY <1>3, <2>2
    <3> QED BY <1>7, <1>8, <3>1 DEF Session
  <2>3. CASE s.state # "ReceivedEOF" /\ s.mode # "SenderDrive"
    BY <1>3, <1>7, <2>3
  <2> QED BY <2>1, <2>2, <2>3
<1>10. /\ x.state = (IF s.state = "ReceivedEOF" THEN "Done" ELSE "InProgress")
       /\ x.awaiting <=> (x.state = "InProgress" /\ x.mode = "SenderDrive")
  <2>1. pr \in Session
    BY <1>7
  <2> QED BY <1>3, <1>4, <1>5, <1>7, <2>1 DEF Session
<1>11. Quiet(e, x) /\ Grows(Flight(Peer(e))', Flight(Peer(e)), x.msg)
  BY <1>1, <1>4, <1>9, LocalStep
<1>12. s.state \in Accepting
  BY <1>4 DEF Accepting
<1> QED BY <1>4, <1>6, <1>9, <1>10, <1>11, <1>12, AcknowledgeIInv DEF type

LEMMA AcceptTransferIInv == ASSUME IInv, NEW e \in End, AcceptTransfer(e) PROVE IInv'
<1> DEFINE s == sess[e]
           i == MessageOf(s, "Accept")
<1>1. s \in Session /\ clean \in BOOLEAN /\ EndOK(e)
  BY Kinds DEF IInv, Typed
<1>2. i \in Message /\ i.type = "Accept" /\ i.role = s.role /\ i.transfer = s.transfer
  BY <1>1, MessageTypes
<1>3. /\ s.state = "Negotiate" /\ s.out = "none" /\ UNCHANGED <<plan, net, transfers, written, got, clean>>
  BY DEF AcceptTransfer
<1>4. PICK mode \in s.proposed, len \in plan.lengths : sess' = [sess EXCEPT ![e] = Accepted(s, mode, len)]
  BY DEF AcceptTransfer
<1>5. PICK x : x = Accepted(s, mode, len)
  OBVIOUS
<1> DEFINE length == IF s.role = "sender" THEN len ELSE s.length
           drive == IF s.role = "receiver" THEN "SenderDrive" ELSE "ReceiverDrive"
           m == [i EXCEPT !.modes = {mode}, !.length = length]
           waits == s.awaiting \/ (s.mode = drive)
<1>6. x = [s EXCEPT !.state = "InProgress", !.length = length, !.awaiting = waits,
                    !.out = "msg", !.msg = m]
  BY <1>1, <1>5 DEF Accepted, PrepareOutgoingMessageEvent, Session
<1>7. mode \in Mode /\ length \in plan.lengths \cup {0}
  BY <1>1, <1>4 DEF Session
<1>a. waits \in BOOLEAN /\ (waits <=> s.awaiting \/ (s.mode = drive))
  OBVIOUS
<1> HIDE DEF i, length, waits, drive
<1>8. m \in Message /\ m.type = "Accept" /\ m.role = s.role /\ m.transfer = s.transfer
  BY <1>1, <1>2, <1>7 DEF Message
<1> HIDE DEF m
<1>9. /\ x \in Session /\ x.role = s.role /\ x.state = "InProgress" /\ x.mode = s.mode
      /\ x.awaiting = waits
      /\ x.out = "msg" /\ x.msg = m /\ x.unacked = s.unacked /\ x.nextQuery = s.nextQuery
      /\ x.nextBlock = s.nextBlock /\ x.transfer = s.transfer
  BY <1>1, <1>6, <1>7, <1>8, <1>a DEF Session, State, Running, Output
<1>10. ~s.awaiting
  BY <1>1, <1>3 DEF EndOK
<1>11. x.awaiting <=> (x.mode = IF x.role = "receiver" THEN "SenderDrive" ELSE "ReceiverDrive")
  BY <1>9, <1>10, <1>a DEF drive
<1>12. Quiet(e, x) /\ Grows(Flight(Peer(e))', Flight(Peer(e)), x.msg)
  BY <1>1, <1>3, <1>4, <1>5, <1>9, LocalStep
<1> QED BY <1>3, <1>8, <1>9, <1>11, <1>12, GrantIInv

LEMMA PrepareBlockIInv == ASSUME IInv, NEW e \in End, PrepareBlock(e) PROVE IInv'
<1> DEFINE s == sess[e]
           w == written[s.transfer]
<1>1. s \in Session /\ clean \in BOOLEAN /\ EndOK(e)
  BY Kinds DEF IInv, Typed
<1>2. /\ s.state = "InProgress" /\ s.role = "sender" /\ s.out = "none" /\ ~s.awaiting
      /\ UNCHANGED <<plan, net, transfers, got>>
  BY DEF PrepareBlock
<1>3. PICK bytes \in {0, 1}, eof \in BOOLEAN :
             /\ sess' = [sess EXCEPT ![e] = PrepareOutgoingMessageEvent(
                          [s EXCEPT !.awaiting = TRUE, !.lastBlock = s.nextBlock,
                                    !.nextBlock = Inc(@),
                                    !.state = IF eof THEN StateAfterEOF ELSE @],
                          [MessageOf(s, IF eof THEN "BlockEOF" ELSE "Block") EXCEPT
                              !.num = s.nextBlock, !.bytes = bytes,
                              !.data = <<s.transfer, w.blocks + 1>>])]
             /\ written' = [written EXCEPT ![s.transfer] =
                              [blocks |-> w.blocks + 1, bytes |-> w.bytes + bytes]]
             /\ clean' = (clean /\ (eof \/ (bytes = 1 /\ (s.length > 0 => w.bytes < s.length))))
  BY DEF PrepareBlock
<1>4. s.transfer # 0 /\ s.transfer \in Transfer
  BY <1>1, <1>2, Kinds DEF EndOK, Agreed
<1>5. w \in [blocks : Nat, bytes : Nat] /\ w.blocks = Prepared(s.transfer)
  BY <1>4 DEF IInv, Typed, Prepared
<1> HIDE DEF w
<1>6. PICK v : v = [blocks |-> w.blocks + 1, bytes |-> w.bytes + bytes]
  OBVIOUS
<1>7. v \in [blocks : Nat, bytes : Nat] /\ v.blocks = Prepared(s.transfer) + 1
  BY <1>5, <1>6
<1> DEFINE type == IF eof THEN "BlockEOF" ELSE "Block"
           i == MessageOf(s, type)
           m == [i EXCEPT !.num = s.nextBlock, !.bytes = bytes, !.data = <<s.transfer, w.blocks + 1>>]
<1>8. i \in Message /\ i.type = type /\ i.role = s.role /\ i.transfer = s.transfer
  BY <1>1, MessageTypes
<1> DEFINE state == IF eof THEN "AwaitingEOFAck" ELSE "InProgress"
<1>9. PICK x : x = [s EXCEPT !.awaiting = TRUE, !.lastBlock = s.nextBlock, !.nextBlock = Inc(@),
                             !.state = state, !.out = "msg", !.msg = m]
  OBVIOUS
<1>10. sess' = [sess EXCEPT ![e] = x]
  BY <1>1, <1>2, <1>3, <1>9 DEF PrepareOutgoingMessageEvent, StateAfterEOF, Session
<1>a. state \in State
  BY DEF State, Running
<1> HIDE DEF i, state
<1>11. /\ m \in Message /\ m.type = type /\ m.role = s.role /\ m.transfer = s.transfer /\ m.num = s.nextBlock
       /\ m.data = <<s.transfer, v.blocks>>
  <2>1. <<s.transfer, w.blocks + 1>> \in (Transfer \cup {0}) \X Nat /\ s.nextBlock \in 0 .. CounterMod - 1
    BY <1>1, <1>4, <1>5 DEF Session
  <2>2. v.blocks = w.blocks + 1
    BY <1>6
  <2> QED BY <1>8, <2>1, <2>2 DEF Message
<1> HIDE DEF m
<1>12. Inc(s.nextBlock) \in 0 .. CounterMod - 1
  BY <1>1, BdxAssumption DEF Session, Inc
<1>13. /\ x \in Session /\ x.role = "sender" /\ x.awaiting /\ x.lastBlock = s.nextBlock
       /\ x.nextBlock = Inc(s.nextBlock) /\ x.out = "msg" /\ x.msg = m /\ x.transfer = s.transfer
       /\ x.state = state
  BY <1>1, <1>2, <1>9, <1>11, <1>12, <1>a DEF Session, Output
<1>14. clean' \in BOOLEAN
  BY <1>1, <1>3
<1>15. m.type \in BlockType /\ (m.type = "BlockEOF" => x.state = "AwaitingEOFAck")
       /\ x.state \in {"InProgress", "AwaitingEOFAck"}
  BY <1>11, <1>13 DEF BlockType, state
<1>16. written' = [written EXCEPT ![s.transfer] = v]
  BY <1>3, <1>6
<1>17. PICK t : t = s.transfer
  OBVIOUS
<1> QED BY <1>2, <1>7, <1>10, <1>11, <1>13, <1>14, <1>15, <1>16, <1>17, SendBlockIInv

LEMMA AbortTransferIInv == ASSUME IInv, NEW e \in End, NEW ok \in BOOLEAN, AbortTransfer(e, ok) PROVE IInv'
<1> DEFINE s == sess[e]
<1>1. PICK x : x = PrepareStatusReport(s, ok)
  OBVIOUS
<1>2. /\ s.state # "Done" /\ sess' = [sess EXCEPT ![e] = x] /\ clean' \in BOOLEAN
      /\ UNCHANGED <<plan, net, transfers, written, got>>
  BY <1>1 DEF AbortTransfer, Finished
<1>3. s \in Session
  BY Kinds
<1>4. /\ x \in Session /\ x.role = s.role /\ x.state = "Error" /\ ~x.awaiting /\ x.out # "block"
      /\ x.out = "msg" => x.msg.type = "Status" /\ x.msg.role = s.role /\ x.msg.transfer = s.transfer
      /\ x.transfer = s.transfer
  BY <1>1, <1>3, ReportTypes
<1>5. /\ Quiet(e, x)
      /\ x.out # "msg" \/ x.transfer = 0 => Shrinks(Flight(Peer(e))', Flight(Peer(e)))
      /\ Grows(Flight(Peer(e))', Flight(Peer(e)), x.msg)
  BY <1>2, <1>4, LocalStep
<1>6. Failed(e, x)
  BY <1>4, <1>5 DEF Failed
<1> QED BY <1>2, <1>5, <1>6, FailedIInv

LEMMA PollTimeoutIInv == ASSUME IInv, NEW e \in End, PollTimeout(e) PROVE IInv'
<1> DEFINE s == sess[e]
<1>1. PICK x : x = [s EXCEPT !.state = "Error", !.awaiting = FALSE]
  OBVIOUS
<1>2. s \in Session /\ Facts(e)
  BY Kinds, FactsHold
<1>3. /\ s.awaiting /\ sess' = [sess EXCEPT ![e] = x] /\ clean' \in BOOLEAN
      /\ UNCHANGED <<plan, net, transfers, written, got>>
  BY <1>1 DEF PollTimeout, TimedOut, IInv, Typed
<1>4. s.out # "block" /\ s.state # "Done"
  BY <1>2, <1>3 DEF Facts, EndOK, ReceiverOK, Agreed, Accepting
<1>5. /\ x \in Session /\ x.role = s.role /\ x.state = "Error" /\ ~x.awaiting /\ x.out = s.out
      /\ x.msg = s.msg /\ x.transfer = s.transfer
  BY <1>1, <1>2 DEF Session, State, Finished
<1>6. Quiet(e, x)
  BY <1>3, <1>5, LocalStep
<1>7. Flight(Peer(e))' = Flight(Peer(e))
  BY <1>3, <1>5, PeerEnd DEF IInv, Typed, Flight, FlightOf
<1>8. Failed(e, x)
  BY <1>4, <1>5, <1>7 DEF Failed, Shrinks
<1> QED BY <1>4, <1>6, <1>8, FailedIInv

LEMMA PollOutputIInv == ASSUME IInv, NEW e \in End, PollOutput(e) PROVE IInv'
<1> DEFINE s == sess[e]
           p == Peer(e)
<1>1. PICK x : x = Polled(s)
  OBVIOUS
<1>2. /\ sess' = [sess EXCEPT ![e] = x] /\ UNCHANGED <<plan, transfers, written, clean>>
      /\ net' = IF s.out = "msg" /\ s.transfer # 0
                  THEN [net EXCEPT ![p] = Append(@, s.msg)] ELSE net
      /\ got' = IF s.out = "block" THEN [got EXCEPT ![s.transfer] = Append(@, s.msg.data)]
                                     ELSE got
  BY <1>1 DEF PollOutput
<1>3. s \in Session /\ clean \in BOOLEAN /\ EndOK(e) /\ NoMessage \in Message /\ net[p] \in Seq(Message)
  BY Kinds, MessageTypes, PeerEnd DEF IInv, Typed
<1> DEFINE ex == s.expired /\ ~s.initStart /\ s.out # "msg"
           un == s.unacked \/ s.out = "block"
<1>4. x = [s EXCEPT !.out = "none", !.msg = NoMessage, !.initStart = FALSE, !.expired = ex, !.unacked = un]
  BY <1>1, <1>3 DEF Polled, Session
<1>5. ex \in BOOLEAN /\ un \in BOOLEAN /\ (s.out # "block" => un = s.unacked) /\ (s.out = "block" => un)
  BY <1>3 DEF Session
<1> HIDE DEF ex, un
<1>6. /\ x \in Session /\ x.role = s.role /\ x.state = s.state /\ x.mode = s.mode /\ x.awaiting = s.awaiting
      /\ x.lastBlock = s.lastBlock /\ x.nextBlock = s.nextBlock /\ x.nextQuery = s.nextQuery
      /\ x.transfer = s.transfer /\ x.unacked = un /\ x.out = "none"
  BY <1>3, <1>4, <1>5 DEF Session, Output
<1>7. CASE s.out = "block"
  <2>1. net' = net /\ got' = [got EXCEPT ![s.transfer] = Append(@, s.msg.data)] /\ x.unacked
    BY <1>2, <1>5, <1>6, <1>7
  <2>2. PICK t : t = s.transfer
    OBVIOUS
  <2> QED BY <1>2, <1>6, <1>7, <2>1, <2>2, TakeBlockIInv
<1>8. CASE s.out # "block"
  <2>1. Alike(s, x)
    BY <1>5, <1>6, <1>8 DEF Alike
  <2>2. p \in End /\ p # e /\ Peer(p) = e
    BY PeerEnd
  <2>3. sess'[e] = x /\ sess'[p] = sess[p] /\ net'[e] = net[e]
        /\ net'[p] = IF s.out = "msg" /\ s.transfer # 0 THEN Append(net[p], s.msg) ELSE net[p]
    BY <1>2, <2>2 DEF IInv, Typed
  <2>4. Flight(e)' = Flight(e) /\ Flight(p)' = Flight(p)
    BY <1>6, <2>2, <2>3 DEF Flight, FlightOf
  <2>5. net' \in [End -> Seq(Message)] /\ got' = got
    <3>1. s.msg \in Message
      BY <1>3 DEF Session
    <3>2. net \in [End -> Seq(Message)] /\ Append(net[p], s.msg) \in Seq(Message)
      BY <1>3, <3>1 DEF IInv, Typed
    <3> QED BY <1>2, <1>8, <2>2, <3>2
  <2>6. Quiet(e, x)
    BY <1>2, <1>3, <1>6, <2>4, <2>5 DEF Quiet, Shrinks
  <2> QED BY <2>1, <2>4, <2>6, AlikeIInv DEF Shrinks
<1> QED BY <1>7, <1>8

LEMMA ExpireIInv == ASSUME IInv, NEW e \in End, Expire(e) PROVE IInv'
<1> DEFINE s == sess[e]
<1>1. PICK x : x = [s EXCEPT !.expired = TRUE]
  OBVIOUS
<1>2. s \in Session /\ clean \in BOOLEAN /\ EndOK(e)
  BY Kinds DEF IInv, Typed
<1>3. /\ sess' = [sess EXCEPT ![e] = x] /\ UNCHANGED <<plan, net, transfers, written, got, clean>>
  BY <1>1 DEF Expire, IInv, Typed
<1>4. x \in Session /\ x.role = s.role /\ Alike(s, x) /\ x.out = s.out /\ x.msg = s.msg /\ x.transfer = s.transfer
  BY <1>1, <1>2 DEF Session, Alike, EndOK
<1>5. Quiet(e, x)
  BY <1>2, <1>3, <1>4, LocalStep
<1>6. Flight(Peer(e))' = Flight(Peer(e))
  BY <1>3, <1>4, PeerEnd DEF IInv, Typed, Flight, FlightOf
<1> QED BY <1>4, <1>5, <1>6, AlikeIInv DEF Shrinks

\* A message that no handler sees: it is lost, ignored or refused.
LEMMA DroppedIInv ==
    ASSUME IInv, NEW e \in End, net[e] # << >>, net' = [net EXCEPT ![e] = Tail(@)],
           clean' \in BOOLEAN, UNCHANGED <<plan, sess, transfers, written, got>>
    PROVE  IInv'
<1>1. PICK x : x = sess[e]
  OBVIOUS
<1>2. x \in Session /\ EndOK(e) /\ sess' = [sess EXCEPT ![e] = x]
  BY <1>1, Kinds DEF IInv, Typed
<1>3. Quiet(e, x)
  BY <1>1, <1>2, ReceiveStep
<1>4. Alike(sess[e], x)
  BY <1>1, <1>2 DEF Alike, EndOK
<1>5. Flight(Peer(e))' = Flight(Peer(e))
  BY PeerEnd DEF IInv, Typed, Flight, FlightOf
<1> QED BY <1>3, <1>4, <1>5, AlikeIInv DEF Shrinks

\* A received message that the session refuses with a status report.
LEMMA RefusedIInv ==
    ASSUME IInv, NEW e \in End, NEW x \in Session, Quiet(e, x), sess[e].out = "none",
           x.out # "msg" \/ x.transfer = 0 => Shrinks(Flight(Peer(e))', Flight(Peer(e))),
           Grows(Flight(Peer(e))', Flight(Peer(e)), x.msg),
           NEW m \in Under(e), \A b \in Under(e)' : Precedes(Flight(e), m, b),
           ForSession(sess[e], m), m.type # "Status",
           m.type \in {"Init", "Accept", "Query", "Block", "BlockEOF", "Ack", "AckEOF", "Status"},
           x.state = "Error", ~x.awaiting, x.out # "block",
           x.out = "msg" => x.msg.type = "Status" /\ x.msg.role = x.role /\ x.msg.transfer = x.transfer,
           \/ x.transfer = sess[e].transfer
           \/ m.type = "Init" /\ sess[e].transfer = 0 /\ x.transfer = m.transfer
    PROVE  IInv'
<1> DEFINE s == sess[e]
           p == Peer(e)
           r == sess[p]
<1>1. Facts(e) /\ MessageOK(e, m) /\ \A b \in Under(e)' : Follows(m, b)
  BY FactsHold DEF Facts
<1>2. p \in End /\ Peer(p) = e /\ ((e = "initiator" /\ p = "responder") \/ (e = "responder" /\ p = "initiator"))
  BY DEF End, Peer
<1>3. transfers \in Nat /\ s.transfer \in Nat /\ r.transfer \in Nat
      /\ s.role \in {"sender", "receiver"} /\ (s.transfer # 0 => s.transfer \in Transfer)
  BY <1>2, Kinds
<1>4. Failed(e, x)
  <2>1. \/ x.transfer = s.transfer
        \/ /\ e = "responder" /\ s.transfer = 0
           /\ x.transfer \in 1 .. transfers /\ Untouched(x.transfer)
           /\ \A n \in Under(e)' : n.type = "Init" => x.transfer < n.transfer
    <3>1. CASE x.transfer = s.transfer
      BY <3>1
    <3>2. CASE m.type = "Init" /\ s.transfer = 0 /\ x.transfer = m.transfer
      BY <1>1, <3>2 DEF MessageOK, Follows
    <3> QED BY <3>1, <3>2
  <2> QED BY <2>1 DEF Failed
<1>5. ASSUME s.role = "receiver", s.state = "Done", r.transfer = s.transfer, r.state \in {"AwaitingEOFAck", "Done"}
      PROVE  FALSE
  <2>1. s.transfer # 0 /\ r.role # "receiver"
    BY <1>1, <1>5 DEF Facts, EndOK, Agreed
  <2>2. m.type # "Init"
    <3>1. SUFFICES ASSUME m.type = "Init" PROVE FALSE
      OBVIOUS
    <3>2. e = "responder" /\ s.transfer < m.transfer /\ m.transfer \in 1 .. transfers
      BY <1>1, <3>1 DEF MessageOK
    <3>3. r.transfer \in {0, transfers}
      BY <1>1, <1>2, <3>2 DEF Facts, EndOK
    <3> QED BY <1>3, <1>5, <2>1, <3>2, <3>3
  <2>3. m.transfer = s.transfer
    BY <2>2 DEF ForSession
  <2>4. m.type # "Accept"
    BY <1>1, <1>5, <2>3 DEF MessageOK
  <2>5. m.type \notin AnswerType
    BY <1>1, <2>1 DEF MessageOK
  <2>6. m.type \notin BlockType
    <3>1. Prepared(s.transfer) = Taken(s.transfer) + 0
      BY <1>1, <1>5, <2>1 DEF Facts, ReceiverOK
    <3>2. Taken(s.transfer) \in Nat
      BY <1>3, <2>1, Kinds
    <3>3. Prepared(s.transfer) # Taken(s.transfer) + 1
      BY <3>1, <3>2
    <3> QED BY <1>1, <2>3, <3>3 DEF MessageOK
  <2> QED BY <2>2, <2>4, <2>5, <2>6 DEF AnswerType, AckType, BlockType
<1> QED BY <1>3, <1>4, <1>5, FailedIInv

\* What became of session s when it took message m in: it is y now.
Became(s, m, y) ==
    /\ y \in Session /\ y.role = s.role
    /\ \/ /\ y.state = "Error" /\ ~y.awaiting /\ y.out # "block"
          /\ y.out = "msg" => y.msg.type = "Status" /\ y.msg.role = y.role /\ y.msg.transfer = y.transfer
          /\ \/ y.transfer = s.transfer
             \/ m.type = "Init" /\ s.transfer = 0 /\ y.transfer = m.transfer
       \/ /\ m.type = "Init" /\ s.state = "AwaitingInit" /\ m.role # s.role
          /\ y.state = "Negotiate" /\ y.awaiting \in {s.awaiting, FALSE} /\ y.out = "init" /\ y.transfer = m.transfer
          /\ y.nextBlock = s.nextBlock /\ y.nextQuery = s.nextQuery /\ y.unacked = s.unacked
       \/ /\ m.type = "Accept" /\ m.role # s.role /\ s.state = "AwaitingAccept" /\ y.state = "InProgress"
          /\ y.awaiting <=> (y.mode = IF y.role = "receiver" THEN "SenderDrive" ELSE "ReceiverDrive")
          /\ y.out = "accept" /\ y.unacked = s.unacked /\ y.nextQuery = s.nextQuery
          /\ y.nextBlock = s.nextBlock /\ y.transfer = s.transfer
       \/ /\ m.type \in {"Query", "Ack"} /\ (m.type = "Query" => m.num = s.nextBlock)
          /\ s.state = "InProgress" /\ s.role = "sender" /\ s.awaiting
          /\ y.state = "InProgress" /\ y.out \notin {"msg", "block"} /\ y.unacked = s.unacked
          /\ y.lastBlock = s.lastBlock /\ y.nextBlock = s.nextBlock /\ y.transfer = s.transfer
       \/ /\ m.type = "AckEOF" /\ s.state = "AwaitingEOFAck" /\ s.role = "sender"
          /\ y.state = "Done" /\ ~y.awaiting /\ y.out \notin {"msg", "block"} /\ y.transfer = s.transfer
       \/ /\ m.type \in BlockType /\ s.state = "InProgress" /\ s.role = "receiver" /\ s.awaiting
          /\ y.state = (IF m.type = "BlockEOF" THEN "ReceivedEOF" ELSE "InProgress")
          /\ ~y.awaiting /\ y.out = "block" /\ y.msg = m /\ y.lastBlock = m.num /\ y.mode = s.mode
          /\ y.nextQuery = s.nextQuery /\ y.unacked = s.unacked /\ y.transfer = s.transfer

LEMMA HandledTypes ==
    ASSUME IInv, NEW s \in Session, NEW m \in Message, NEW ok \in BOOLEAN, m.type # "Status",
           NEW y, y = HandleBdxMessage(s, m, ok)
    PROVE  Became(s, m, y)
<1>1. m.type \in {"Init", "Accept", "Query", "Block", "BlockEOF", "Ack", "AckEOF"} /\ m.role \in Role
      /\ m.num \in 0 .. CounterMod - 1 /\ m.bytes \in {0, 1} /\ m.modes \in SUBSET Mode
      /\ m.length \in plan.lengths \cup {0} /\ m.transfer \in Transfer \cup {0}
  BY DEF Message
<1> DEFINE Handled == CASE m.type = "Init" -> HandleTransferInit(s, m, ok)
        [] m.type = "Accept" -> HandleAccept(s, m, ok)
        [] m.type = "Query" -> HandleBlockQuery(s, m, ok)
        [] m.type = "Block" -> HandleBlock(s, m, ok)
        [] m.type = "BlockEOF" -> HandleBlockEOF(s, m, ok)
        [] m.type = "Ack" -> HandleBlockAck(s, m, ok)
        [] m.type = "AckEOF" -> HandleBlockAckEOF(s, m, ok)
<1>2. PICK h : h = Handled
  OBVIOUS
<1>3. y = [h EXCEPT !.expired = FALSE]
  BY <1>2 DEF HandleBdxMessage
<1>4. /\ m.type = "Init" => h = HandleTransferInit(s, m, ok)
      /\ m.type = "Accept" => h = HandleAccept(s, m, ok)
      /\ m.type = "Query" => h = HandleBlockQuery(s, m, ok)
      /\ m.type = "Block" => h = HandleBlock(s, m, ok)
      /\ m.type = "BlockEOF" => h = HandleBlockEOF(s, m, ok)
      /\ m.type = "Ack" => h = HandleBlockAck(s, m, ok)
      /\ m.type = "AckEOF" => h = HandleBlockAckEOF(s, m, ok)
  BY <1>2
<1> HIDE DEF Handled
\* Clearing expired changes nothing else.
<1>5. h \in Session => /\ y \in Session /\ y.role = h.role /\ y.state = h.state /\ y.awaiting = h.awaiting
                       /\ y.out = h.out /\ y.msg = h.msg /\ y.transfer = h.transfer /\ y.nextBlock = h.nextBlock
                       /\ y.nextQuery = h.nextQuery /\ y.lastBlock = h.lastBlock /\ y.unacked = h.unacked /\ y.mode = h.mode
  BY <1>3 DEF Session
<1>6. ASSUME h = PrepareStatusReport(s, ok) PROVE Became(s, m, y)
  <2>1. /\ h \in Session /\ h.role = s.role /\ h.state = "Error" /\ ~h.awaiting /\ h.out # "block"
        /\ h.out = "msg" => h.msg.type = "Status" /\ h.msg.role = s.role /\ h.msg.transfer = s.transfer
        /\ h.transfer = s.transfer
    BY <1>6, ReportTypes
  <2> QED BY <1>5, <2>1 DEF Became
<1>7. CASE m.type = "Init"
  <2>1. CASE s.state # "AwaitingInit" \/ m.role = s.role
    <3>1. PICK z : z = [s EXCEPT !.transfer = IF @ = 0 THEN m.transfer ELSE @]
      OBVIOUS
    <3>2. z \in Session /\ z.role = s.role /\ z.transfer = (IF s.transfer = 0 THEN m.transfer ELSE s.transfer)
      <4>1. PICK k \in Transfer \cup {0} : k = IF s.transfer = 0 THEN m.transfer ELSE s.transfer
        BY <1>1 DEF Session
      <4>2. z = [s EXCEPT !.transfer = k]
        BY <3>1, <4>1 DEF Session
      <4> QED BY <4>1, <4>2 DEF Session
    <3>3. h = PrepareStatusReport(z, ok)
      BY <1>4, <1>7, <2>1, <3>1 DEF HandleTransferInit
    <3>4. /\ h \in Session /\ h.role = z.role /\ h.state = "Error" /\ ~h.awaiting /\ h.out # "block"
          /\ h.out = "msg" => h.msg.type = "Status" /\ h.msg.role = z.role /\ h.msg.transfer = z.transfer
          /\ h.transfer = z.transfer
      BY <3>2, <3>3, ReportTypes
    <3> QED BY <1>5, <1>7, <3>2, <3>4 DEF Became
  <2>2. CASE ~(s.state # "AwaitingInit" \/ m.role = s.role)
    <3>1. PICK z : z = ResolveTransferControlOptions(s, m.modes, ok)
      OBVIOUS
    <3>2. h = [z EXCEPT !.proposed = m.modes, !.length = m.length, !.transfer = m.transfer,
                        !.out = "init", !.state = "Negotiate"]
      BY <1>4, <1>7, <2>2, <3>1 DEF HandleTransferInit
    <3>3. /\ z \in Session /\ z.role = s.role /\ z.awaiting \in {s.awaiting, FALSE}
          /\ z.nextBlock = s.nextBlock /\ z.nextQuery = s.nextQuery /\ z.unacked = s.unacked
      <4>1. CASE m.modes \cap s.opts = {}
        <5>1. z = PrepareStatusReport(s, ok)
          BY <3>1, <4>1 DEF ResolveTransferControlOptions
        <5>2. z \in Session /\ z.role = s.role /\ ~z.awaiting
          BY <5>1, ReportTypes
        <5>3. z.nextBlock = s.nextBlock /\ z.nextQuery = s.nextQuery /\ z.unacked = s.unacked
          BY <5>1 DEF PrepareStatusReport, PrepareOutgoingMessageEvent, Session
        <5>4. z.awaiting \in BOOLEAN
          BY <5>2 DEF Session
        <5> QED BY <5>2, <5>3, <5>4
      <4>2. CASE m.modes \cap s.opts # {} /\ z # s
        <5>1. PICK c \in m.modes \cap s.opts : z = [s EXCEPT !.mode = c]
          BY <3>1, <4>2 DEF ResolveTransferControlOptions
        <5>2. c \in Mode
          BY <1>1
        <5> QED BY <5>1, <5>2 DEF Session
      <4>3. CASE z = s
        BY <4>3
      <4> QED BY <4>1, <4>2, <4>3
    <3>4. /\ h \in Session /\ h.role = z.role /\ h.state = "Negotiate" /\ h.awaiting = z.awaiting /\ h.out = "init"
          /\ h.transfer = m.transfer /\ h.nextBlock = z.nextBlock /\ h.nextQuery = z.nextQuery /\ h.unacked = z.unacked
      BY <1>1, <3>2, <3>3 DEF Session, State, Running, Output
    <3> QED BY <1>5, <1>7, <2>2, <3>3, <3>4 DEF Became
  <2> QED BY <2>1, <2>2
<1>8. CASE m.type = "Accept"
  <2> DEFINE Refuse == m.role = s.role \/ s.state # "AwaitingAccept" \/ ~VerifyProposedMode(s, m.modes)
             mode == CHOOSE c \in m.modes : TRUE
             drive == IF s.role = "receiver" THEN "SenderDrive" ELSE "ReceiverDrive"
             length == IF s.role = "receiver" THEN m.length ELSE s.length
             waits == (mode = drive)
  <2>1. CASE Refuse
    BY <1>4, <1>6, <1>8, <2>1 DEF HandleAccept
  <2>2. CASE ~Refuse
    <3>1. mode \in Mode
      <4>1. m.modes # {}
        BY <2>2, FS_EmptySet DEF VerifyProposedMode
      <4> QED BY <1>1, <4>1
    <3>2. h = [s EXCEPT !.mode = mode, !.state = "InProgress", !.out = "accept", !.length = length, !.awaiting = waits]
      BY <1>4, <1>8, <2>2 DEF HandleAccept, Session
    <3>3. length \in plan.lengths \cup {0} /\ waits \in BOOLEAN
      BY <1>1 DEF Session
    <3> HIDE DEF length, waits, mode
    <3>4. /\ h \in Session /\ h.role = s.role /\ h.state = "InProgress" /\ h.mode = mode /\ h.awaiting = waits
          /\ h.out = "accept" /\ h.unacked = s.unacked /\ h.nextQuery = s.nextQuery /\ h.nextBlock = s.nextBlock
          /\ h.transfer = s.transfer
      BY <3>1, <3>2, <3>3 DEF Session, State, Running, Output
    <3> QED BY <1>5, <1>8, <2>2, <3>3, <3>4 DEF waits, Became
  <2> QED BY <2>1, <2>2
<1>9. CASE m.type = "Query"
  <2>1. CASE s.role # "sender" \/ s.state # "InProgress" \/ ~s.awaiting \/ m.num # s.nextBlock
    BY <1>4, <1>6, <1>9, <2>1 DEF HandleBlockQuery
  <2>2. CASE ~(s.role # "sender" \/ s.state # "InProgress" \/ ~s.awaiting \/ m.num # s.nextBlock)
    <3>1. h = [s EXCEPT !.out = "query", !.awaiting = FALSE, !.lastQuery = m.num]
      BY <1>4, <1>9, <2>2 DEF HandleBlockQuery
    <3>2. /\ h \in Session /\ h.role = s.role /\ h.state = s.state /\ h.out = "query" /\ h.unacked = s.unacked
          /\ h.lastBlock = s.lastBlock /\ h.nextBlock = s.nextBlock /\ h.transfer = s.transfer
      BY <1>1, <3>1 DEF Session, Output
    <3> QED BY <1>5, <1>9, <2>2, <3>2 DEF Became
  <2> QED BY <2>1, <2>2
<1>10. CASE m.type = "Ack"
  <2>1. CASE s.role # "sender" \/ s.state # "InProgress" \/ ~s.awaiting \/ m.num # s.lastBlock
    BY <1>4, <1>6, <1>10, <2>1 DEF HandleBlockAck
  <2>2. CASE ~(s.role # "sender" \/ s.state # "InProgress" \/ ~s.awaiting \/ m.num # s.lastBlock)
    <3>1. PICK waits \in BOOLEAN : waits = (s.mode = "ReceiverDrive")
      OBVIOUS
    <3>2. h = [s EXCEPT !.out = "ack", !.awaiting = waits]
      BY <1>4, <1>10, <2>2, <3>1 DEF HandleBlockAck
    <3>3. /\ h \in Session /\ h.role = s.role /\ h.state = s.state /\ h.out = "ack" /\ h.unacked = s.unacked
          /\ h.lastBlock = s.lastBlock /\ h.nextBlock = s.nextBlock /\ h.transfer = s.transfer
      BY <3>2 DEF Session, Output
    <3> QED BY <1>5, <1>10, <2>2, <3>3 DEF Became
  <2> QED BY <2>1, <2>2
<1>11. CASE m.type = "AckEOF"
  <2>1. CASE s.role # "sender" \/ s.state # "AwaitingEOFAck" \/ ~s.awaiting \/ m.num # s.lastBlock
    BY <1>4, <1>6, <1>11, <2>1 DEF HandleBlockAckEOF
  <2>2. CASE ~(s.role # "sender" \/ s.state # "AwaitingEOFAck" \/ ~s.awaiting \/ m.num # s.lastBlock)
    <3>1. h = [s EXCEPT !.out = "ackEof", !.awaiting = FALSE, !.state = "Done"]
      BY <1>4, <1>11, <2>2 DEF HandleBlockAckEOF
    <3>2. h \in Session /\ h.role = s.role /\ h.state = "Done" /\ h.out = "ackEof" /\ ~h.awaiting /\ h.transfer = s.transfer
      BY <3>1 DEF Session, Output, State, Finished
    <3> QED BY <1>5, <1>11, <2>2, <3>2 DEF Became
  <2> QED BY <2>1, <2>2
<1>12. CASE m.type \in BlockType
  <2>1. CASE h = PrepareStatusReport(s, ok)
    BY <1>6, <2>1
  <2>2. CASE h # PrepareStatusReport(s, ok)
    <3>1. PICK z : z = TakeBlock(s, m)
      OBVIOUS
    <3>2. /\ s.role = "receiver" /\ s.state = "InProgress" /\ s.awaiting
          /\ m.type = "Block" => h = z
          /\ m.type = "BlockEOF" => h = [z EXCEPT !.state = "ReceivedEOF"]
      BY <1>4, <1>12, <2>2, <3>1 DEF HandleBlock, HandleBlockEOF, BlockExpected, BlockType
    <3>3. /\ z \in Session /\ z.role = s.role /\ z.state = s.state /\ ~z.awaiting /\ z.out = "block" /\ z.msg = m
          /\ z.lastBlock = m.num /\ z.mode = s.mode /\ z.nextQuery = s.nextQuery /\ z.unacked = s.unacked
          /\ z.transfer = s.transfer
      <4>1. PICK k \in Nat : k = s.bytes + m.bytes
        BY <1>1 DEF Session
      <4>2. z = [s EXCEPT !.out = "block", !.msg = m, !.bytes = k, !.lastBlock = m.num, !.awaiting = FALSE]
        BY <3>1, <4>1 DEF TakeBlock, Session
      <4> QED BY <1>1, <4>2 DEF Session, Output
    <3>4. /\ h \in Session /\ h.role = s.role /\ ~h.awaiting /\ h.out = "block" /\ h.msg = m
          /\ h.lastBlock = m.num /\ h.mode = s.mode /\ h.nextQuery = s.nextQuery /\ h.unacked = s.unacked
          /\ h.transfer = s.transfer
          /\ h.state = (IF m.type = "BlockEOF" THEN "ReceivedEOF" ELSE "InProgress")
      <4>1. CASE m.type = "Block"
        BY <3>2, <3>3, <4>1
      <4>2. CASE m.type = "BlockEOF"
        <5>1. h = [z EXCEPT !.state = "ReceivedEOF"]
          BY <3>2, <4>2
        <5> QED BY <3>3, <4>2, <5>1 DEF Session, State, Running
      <4> QED BY <1>12, <4>1, <4>2 DEF BlockType
    <3> QED BY <1>5, <1>12, <3>2, <3>4 DEF Became
  <2> QED BY <2>1, <2>2
<1> QED BY <1>1, <1>7, <1>8, <1>9, <1>10, <1>11, <1>12 DEF BlockType

LEMMA HandleMessageReceivedIInv ==
    ASSUME IInv, NEW e \in End, NEW ok \in BOOLEAN, HandleMessageReceived(e, ok) PROVE IInv'
<1> DEFINE s == sess[e]
           m == Head(net[e])
           p == Peer(e)
<1>1. /\ net[e] # << >> /\ net' = [net EXCEPT ![e] = Tail(@)] /\ UNCHANGED <<plan, transfers, written, got>>
  BY DEF HandleMessageReceived
<1>2. s \in Session /\ clean \in BOOLEAN /\ NoMessage \in Message /\ Facts(e) /\ net[e] \in Seq(Message)
  BY Kinds, MessageTypes, FactsHold DEF IInv, Typed
<1>3. m \in Message
  BY <1>1, <1>2
<1>4. m.type \in {"Init", "Accept", "Query", "Block", "BlockEOF", "Ack", "AckEOF", "Status"}
  BY <1>3 DEF Message
<1>5. \/ sess' = sess /\ clean' \in BOOLEAN
      \/ /\ ForSession(s, m) /\ m.type = "Status" /\ clean' = clean
         /\ sess' = [sess EXCEPT ![e] = HandleStatusReportMessage(s)]
      \/ /\ ForSession(s, m) /\ m.type # "Status" /\ s.out = "none" /\ clean' \in BOOLEAN
         /\ sess' = [sess EXCEPT ![e] = HandleBdxMessage(s, m, ok)]
  BY <1>2 DEF HandleMessageReceived
<1>6. CASE sess' = sess /\ clean' \in BOOLEAN
  BY <1>1, <1>6, DroppedIInv
<1>7. CASE /\ ForSession(s, m) /\ m.type = "Status" /\ clean' = clean
           /\ sess' = [sess EXCEPT ![e] = HandleStatusReportMessage(s)]
  <2>1. PICK x : x = HandleStatusReportMessage(s)
    OBVIOUS
  <2>2. /\ x \in Session /\ x.role = s.role /\ x.state = "Error" /\ ~x.awaiting /\ x.out = "status"
        /\ x.transfer = s.transfer
    BY <1>2, <2>1 DEF HandleStatusReportMessage, Session, State, Finished, Output
  <2>3. /\ Quiet(e, x) /\ Shrinks(Flight(p)', Flight(p)) /\ m \in Under(e)
    BY <1>1, <1>2, <1>7, <2>1, <2>2, ReceiveStep
  <2>4. m.transfer = s.transfer /\ (sess[p].transfer = s.transfer => sess[p].state = "Error")
    BY <1>2, <1>7, <2>3 DEF ForSession, Facts, MessageOK
  <2>5. Failed(e, x)
    BY <2>2, <2>3 DEF Failed
  <2> QED BY <2>3, <2>4, <2>5, FailedIInv
<1>8. CASE /\ ForSession(s, m) /\ m.type # "Status" /\ s.out = "none" /\ clean' \in BOOLEAN
           /\ sess' = [sess EXCEPT ![e] = HandleBdxMessage(s, m, ok)]
  <2>1. PICK x : x = HandleBdxMessage(s, m, ok)
    OBVIOUS
  <2>2. Became(s, m, x)
    BY <1>2, <1>3, <1>8, <2>1, HandledTypes
  <2>3. x \in Session /\ x.role = s.role
    BY <2>2 DEF Became
  <2>4. /\ Quiet(e, x)
        /\ x.out # "msg" \/ x.transfer = 0 => Shrinks(Flight(p)', Flight(p))
        /\ Grows(Flight(p)', Flight(p), x.msg)
        /\ m \in Under(e)
        /\ \A b \in Under(e)' : Precedes(Flight(e), m, b)
    BY <1>1, <1>8, <2>1, <2>3, ReceiveStep
  <2>5. PICK n : n = m
    OBVIOUS
  <2>6. m.type # "Init" => m.transfer = s.transfer
    BY <1>8 DEF ForSession
  <2>7. s.state = "AwaitingInit" => ~s.awaiting
    BY <1>2 DEF Facts, EndOK
  <2> HIDE DEF m
  <2>8. CASE /\ x.state = "Error" /\ ~x.awaiting /\ x.out # "block"
             /\ x.out = "msg" => x.msg.type = "Status" /\ x.msg.role = x.role /\ x.msg.transfer = x.transfer
             /\ \/ x.transfer = s.transfer
                \/ m.type = "Init" /\ s.transfer = 0 /\ x.transfer = m.transfer
    BY <1>4, <1>8, <2>3, <2>4, <2>5, <2>8, RefusedIInv
  <2>9. CASE /\ m.type = "Init" /\ s.state = "AwaitingInit" /\ m.role # s.role
             /\ x.state = "Negotiate" /\ x.awaiting \in {s.awaiting, FALSE} /\ x.out = "init" /\ x.transfer = m.transfer
             /\ x.nextBlock = s.nextBlock /\ x.nextQuery = s.nextQuery /\ x.unacked = s.unacked
    BY <2>4, <2>5, <2>7, <2>9, RequestedIInv
  <2>10. CASE /\ m.type = "Accept" /\ m.role # s.role /\ s.state = "AwaitingAccept" /\ x.state = "InProgress"
              /\ x.awaiting <=> (x.mode = IF x.role = "receiver" THEN "SenderDrive" ELSE "ReceiverDrive")
              /\ x.out = "accept" /\ x.unacked = s.unacked /\ x.nextQuery = s.nextQuery
              /\ x.nextBlock = s.nextBlock /\ x.transfer = s.transfer
    BY <2>4, <2>5, <2>6, <2>10, AcceptedIInv
  <2>11. CASE /\ m.type \in {"Query", "Ack"} /\ (m.type = "Query" => m.num = s.nextBlock)
              /\ s.state = "InProgress" /\ s.role = "sender" /\ s.awaiting
              /\ x.state = "InProgress" /\ x.out \notin {"msg", "block"} /\ x.unacked = s.unacked
              /\ x.lastBlock = s.lastBlock /\ x.nextBlock = s.nextBlock /\ x.transfer = s.transfer
    BY <2>4, <2>5, <2>6, <2>11, AnsweredIInv
  <2>12. CASE /\ m.type = "AckEOF" /\ s.state = "AwaitingEOFAck" /\ s.role = "sender"
              /\ x.state = "Done" /\ ~x.awaiting /\ x.out \notin {"msg", "block"} /\ x.transfer = s.transfer
    BY <2>4, <2>5, <2>6, <2>12, CompletedIInv
  <2>13. CASE /\ m.type \in BlockType /\ s.state = "InProgress" /\ s.role = "receiver" /\ s.awaiting
              /\ x.state = (IF m.type = "BlockEOF" THEN "ReceivedEOF" ELSE "InProgress")
              /\ ~x.awaiting /\ x.out = "block" /\ x.msg = m /\ x.lastBlock = m.num /\ x.mode = s.mode
              /\ x.nextQuery = s.nextQuery /\ x.unacked = s.unacked /\ x.transfer = s.transfer
    BY <2>4, <2>5, <2>6, <2>13, BlockIInv DEF BlockType
  <2> QED BY <2>2, <2>8, <2>9, <2>10, <2>11, <2>12, <2>13 DEF Became
<1> QED BY <1>5, <1>6, <1>7, <1>8

-----------------------------------------------------------------------------
(* The invariant and the properties that follow from it.                   *)

LEMMA InitIInv == Init => IInv
<1> SUFFICES ASSUME Init PROVE IInv
  OBVIOUS
<1>1. PICK ri \in Role, rr \in Role, oi \in Offers, or \in Supports, mode \in Uninitialized :
         /\ sess = [e \in End |-> IF e = "initiator" THEN NewSession(ri, oi, mode) ELSE NewSession(rr, or, mode)]
         /\ clean = (ri # rr /\ oi \cap or # {})
  BY DEF Init
<1>2. /\ plan \in Plans /\ net = [e \in End |-> << >>] /\ transfers = 0
      /\ written = [t \in Transfer |-> [blocks |-> 0, bytes |-> 0]] /\ got = [t \in Transfer |-> << >>]
  BY DEF Init
<1>3. 0 \in 0 .. CounterMod - 1 /\ <<0, 0>> \in (Transfer \cup {0}) \X Nat
  BY BdxAssumption
<1>4. NoMessage \in Message
  BY <1>3 DEF NoMessage, Message, Role
<1>5. ASSUME NEW role \in Role, NEW opts \in SUBSET Mode, NEW z, z = NewSession(role, opts, mode)
      PROVE  /\ z \in Session /\ z.state = "Uninitialized" /\ z.transfer = 0 /\ z.out = "none" /\ z.nextBlock = 0
             /\ z.nextQuery = 0 /\ ~z.unacked /\ ~z.awaiting
  <2>1. mode \in Mode \cup {"other"}
    BY BdxAssumption
  <2> QED BY <1>3, <1>4, <1>5, <2>1 DEF NewSession, Session, State, Output
<1>6. oi \in SUBSET Mode /\ or \in SUBSET Mode
  BY BdxAssumption
<1>7. \A e \in End : /\ sess[e] \in Session /\ sess[e].state = "Uninitialized" /\ sess[e].transfer = 0
                     /\ sess[e].out = "none" /\ sess[e].nextBlock = 0 /\ sess[e].nextQuery = 0
                     /\ ~sess[e].unacked /\ ~sess[e].awaiting
  <2>1. PICK a : a = NewSession(ri, oi, mode)
    OBVIOUS
  <2>2. PICK b : b = NewSession(rr, or, mode)
    OBVIOUS
  <2>3. \A e \in End : sess[e] = a \/ sess[e] = b
    BY <1>1, <2>1, <2>2
  <2>4. /\ a \in Session /\ a.state = "Uninitialized" /\ a.transfer = 0 /\ a.out = "none" /\ a.nextBlock = 0
        /\ a.nextQuery = 0 /\ ~a.unacked /\ ~a.awaiting
    BY <1>5, <1>6, <2>1
  <2>5. /\ b \in Session /\ b.state = "Uninitialized" /\ b.transfer = 0 /\ b.out = "none" /\ b.nextBlock = 0
        /\ b.nextQuery = 0 /\ ~b.unacked /\ ~b.awaiting
    BY <1>5, <1>6, <2>2
  <2> QED BY <2>3, <2>4, <2>5
<1>8. Typed
  <2>1. sess \in [End -> Session]
    <3>1. DOMAIN sess = End /\ sess = [e \in End |-> sess[e]]
      BY <1>1
    <3> QED BY <1>7, <3>1
  <2>2. net \in [End -> Seq(Message)] /\ written \in [Transfer -> [blocks : Nat, bytes : Nat]]
    BY <1>2
  <2>3. got \in [Transfer -> Seq((Transfer \cup {0}) \X Nat)]
    BY <1>2
  <2>4. clean \in BOOLEAN
    BY <1>1
  <2> QED BY <1>2, <2>1, <2>2, <2>3, <2>4 DEF Typed
<1>9. \A t \in Transfer : TransferOK(t)
  <2>1. \A t \in Transfer : Prepared(t) = 0 /\ got[t] = << >>
    BY <1>2 DEF Prepared
  <2> QED BY <2>1 DEF TransferOK, Taken
<1>10. \A e \in End : Flight(e) = << >> /\ Under(e) = {} /\ Peer(e) \in End
  <2>1. \A e \in End : Peer(e) \in End /\ Flight(e) = << >>
    BY <1>2, <1>7, PeerEnd DEF Flight, FlightOf
  <2>2. In(<< >>) = {}
    BY DEF In
  <2> QED BY <2>1, <2>2 DEF Under
<1>11. ASSUME NEW e \in End PROVE EndOK(e) /\ SenderOK(e) /\ ReceiverOK(e) /\ FlightOK(e)
  BY <1>2, <1>7, <1>10 DEF EndOK, SenderOK, ReceiverOK, FlightOK, Early, Agreed
<1> QED BY <1>8, <1>9, <1>11 DEF IInv

LEMMA NextIInv == IInv /\ [Next]_vars => IInv'
<1> SUFFICES ASSUME IInv, [Next]_vars PROVE IInv'
  OBVIOUS
<1>1. CASE UNCHANGED vars
  <2>1. UNCHANGED <<plan, sess, net, transfers, written, got, clean>>
    BY <1>1 DEF vars
  <2>2. "initiator" \in End
    BY DEF End
  <2>3. PICK x : x = sess["initiator"]
    OBVIOUS
  <2>4. x \in Session /\ EndOK("initiator") /\ sess' = [sess EXCEPT !["initiator"] = x] /\ clean \in BOOLEAN
    BY <2>1, <2>2, <2>3, Kinds DEF IInv, Typed
  <2>5. Quiet("initiator", x)
    BY <2>1, <2>2, <2>3, <2>4, LocalStep
  <2>6. Alike(sess["initiator"], x)
    BY <2>3, <2>4 DEF Alike, EndOK
  <2>7. Flight(Peer("initiator"))' = Flight(Peer("initiator"))
    BY <2>1 DEF Flight, FlightOf
  <2> QED BY <2>2, <2>5, <2>6, <2>7, AlikeIInv DEF Shrinks
<1>2. ASSUME NEW e \in End,
             \/ StartTransfer(e) \/ WaitForTransfer(e) \/ Reset(e)
             \/ Answer(e) \/ Receive(e) \/ Poll(e) \/ Expire(e) \/ Lose(e)
             \/ \E ok \in Buffers : AbortTransfer(e, ok)
      PROVE  IInv'
  <2>1. Buffers \subseteq BOOLEAN
    BY DEF Buffers
  <2>2. CASE StartTransfer(e)
    BY <2>2, StartTransferIInv
  <2>3. CASE WaitForTransfer(e) \/ Reset(e)
    BY <2>3, FreshActions
  <2>4. CASE Answer(e)
    BY <2>4, PrepareBlockQueryIInv, PrepareBlockAckIInv, PrepareBlockIInv, AcceptTransferIInv DEF Answer
  <2>5. CASE Receive(e)
    <3>1. PICK ok \in BOOLEAN : HandleMessageReceived(e, ok)
      BY <2>1, <2>5 DEF Receive
    <3> QED BY <3>1, HandleMessageReceivedIInv
  <2>6. CASE Poll(e)
    BY <2>6, PollTimeoutIInv, PollOutputIInv DEF Poll
  <2>7. CASE Expire(e)
    BY <2>7, ExpireIInv
  <2>8. CASE Lose(e)
    BY <2>8, DroppedIInv DEF Lose
  <2>9. CASE \E ok \in Buffers : AbortTransfer(e, ok)
    <3>1. PICK ok \in BOOLEAN : AbortTransfer(e, ok)
      BY <2>1, <2>9
    <3> QED BY <3>1, AbortTransferIInv
  <2> QED BY <1>2, <2>2, <2>3, <2>4, <2>5, <2>6, <2>7, <2>8, <2>9
<1> QED BY <1>1, <1>2 DEF Next

\* Both ends and the messages between them stay as IInv describes them: blocks go
\* one at a time, and every message under way is about the last block or the next.
THEOREM InvariantHolds == SafetySpec => []IInv
BY InitIInv, NextIInv, PTL DEF SafetySpec

\* Every member of a session keeps its type, whatever is called in whatever order;
\* in particular the block counters wrap (Inc) where the code's uint32_t do.
THEOREM TypeCorrect == SafetySpec => []TypeOK
<1>1. IInv => TypeOK
  BY DEF IInv, Typed, TypeOK
<1> QED BY <1>1, InvariantHolds, PTL

\* The receiver's caller is given the blocks of every transfer in the order in
\* which they were prepared, each once (HandleBlock, PollOutput): for every number
\* of transfers and blocks, and for every counter with at least two values.
THEOREM InOrderBlocks == SafetySpec => []BlocksInOrder
<1>1. ASSUME IInv PROVE BlocksInOrder
  <2>1. ASSUME NEW t \in Transfer
        PROVE  Len(got[t]) <= written[t].blocks /\ \A i \in DOMAIN got[t] : got[t][i] = <<t, i>>
    <3>1. TransferOK(t) /\ Prepared(t) \in Nat /\ Taken(t) \in Nat
      BY <1>1, Kinds DEF IInv
    <3>2. Taken(t) <= Prepared(t)
      BY <3>1 DEF TransferOK
    <3> QED BY <3>1, <3>2 DEF TransferOK, Taken, Prepared
  <2> QED BY <2>1 DEF BlocksInOrder
<1> QED BY <1>1, InvariantHolds, PTL

\* A sender that is done has a receiver that has every block, and whose session of
\* that transfer, unless it was reset, is done too (PrepareBlockAck,
\* HandleBlockAckEOF).
THEOREM DoneIsReceived == SafetySpec => []DoneMeansReceived
<1>1. ASSUME IInv PROVE DoneMeansReceived
  <2>1. ASSUME NEW e \in End, sess[e].state = "Done", sess[e].role = "sender"
        PROVE  /\ Len(got[sess[e].transfer]) = written[sess[e].transfer].blocks
               /\ sess[Peer(e)].transfer = sess[e].transfer => sess[Peer(e)].state = "Done"
    <3>1. EndOK(e) /\ SenderOK(e)
      BY <1>1 DEF IInv
    <3>2. sess[e].transfer # 0
      BY <2>1, <3>1 DEF EndOK, Agreed
    <3> QED BY <2>1, <3>1, <3>2 DEF SenderOK, Taken, Prepared
  <2> QED BY <2>1 DEF DoneMeansReceived
<1> QED BY <1>1, InvariantHolds, PTL

-----------------------------------------------------------------------------
(* Transfers in which nothing goes wrong outside the sessions.             *)

Bytes(t) == written[t].bytes

\* An answer to the request for transfer t is under way to end e; and before m.
AcceptIn(q, t) == \E a \in In(q) : a.type = "Accept" /\ a.transfer = t
AcceptBefore(q, m) == \E a \in In(q) : a.type = "Accept" /\ a.transfer = m.transfer /\ Precedes(q, a, m)
HasAccept(e, t) == AcceptIn(Flight(e), t)
AfterAccept(e, m) == AcceptBefore(Flight(e), m)

\* Blocks the receiver has and its caller has not.
Pending(r) == IF r.out = "block" THEN 1 ELSE 0

\* A session that holds the control mode d agreed on.
CleanEnd(e, d) ==
    LET s == sess[e]
        i == sess["initiator"]
    IN  /\ s.state # "Error"
        /\ s.state \in {"InProgress", "AwaitingEOFAck", "ReceivedEOF"} => s.mode = d
        /\ s.state = "Negotiate" =>
              /\ s.mode = d /\ s.proposed = {d}
              /\ i.transfer = s.transfer /\ i.state = "AwaitingAccept"
              /\ s.role = "receiver" => s.length = i.length
        /\ s.state \in Early => s.bytes = 0 /\ s.lastQuery = 0
        /\ s.state = "AwaitingEOFAck" => s.awaiting

\* A sender in the middle of a transfer has a receiver that follows it, and one of
\* them waits for the other.
CleanSender(e, d) ==
    LET s == sess[e]
        r == sess[Peer(e)]
    IN  s.role = "sender" /\ s.state = "InProgress" =>
        /\ r.transfer = s.transfer /\ r.state \in {"AwaitingAccept", "InProgress"}
        /\ r.state = "AwaitingAccept" => HasAccept(Peer(e), s.transfer)
        /\ ~s.awaiting => IF r.state = "InProgress" THEN r.awaiting ELSE d = "SenderDrive"

\* A receiver in the middle of a transfer waits for the block its sender will send
\* next, and has counted the bytes of the others.
CleanReceiver(e, d) ==
    LET r == sess[e]
        s == sess[Peer(e)]
        t == r.transfer
    IN  r.role = "receiver" /\ r.state = "InProgress" =>
        /\ s.transfer = t /\ s.state \in {"AwaitingAccept", "InProgress", "AwaitingEOFAck"}
        /\ s.state = "AwaitingAccept" => HasAccept(Peer(e), t)
        /\ r.awaiting => r.lastQuery = Taken(t) % CounterMod
        /\ ~r.awaiting =>
              /\ Prepared(t) = Taken(t) + Pending(r)
              /\ \/ s.state = "InProgress" /\ s.awaiting
                 \/ s.state = "AwaitingAccept" /\ d = "ReceiverDrive"
        /\ r.length = s.length
        /\ Prepared(t) = Taken(t) + Pending(r) => r.bytes = Bytes(t)

\* End e can take message m in when it comes.
Ready(e, m) ==
    \/ sess[e].state = "InProgress" /\ sess[e].awaiting
    \/ sess[e].state = "AwaitingAccept" /\ AfterAccept(e, m)

\* A message that end e will not refuse.
CleanMessage(e, m, d) ==
    LET r == sess[e]
        s == sess[Peer(e)]
        t == m.transfer
    IN  /\ m.type # "Status"
        /\ m.type = "Init" => /\ s.transfer = t /\ s.state = "AwaitingAccept"
                              /\ m.modes = {d} /\ m.length = s.length
        /\ r.transfer = t =>
            /\ m.type = "Accept" =>
                  /\ m.modes = {d} /\ s.transfer = t /\ s.state \in {"InProgress", "AwaitingEOFAck"}
                  /\ IF r.role = "receiver" THEN m.length = s.length ELSE s.length = r.length
                  /\ r.role = "receiver" /\ d = "ReceiverDrive" => Prepared(t) = 0
            /\ m.type = "Query" =>
                  /\ Ready(e, m) /\ d = "ReceiverDrive" /\ NextQuery(m)
                  /\ s.transfer = t /\ s.state = "InProgress" /\ s.awaiting
            /\ m.type = "Ack" =>
                  /\ r.state = "InProgress" /\ r.awaiting
                  /\ d = "SenderDrive" => s.transfer = t /\ s.state = "InProgress" /\ s.awaiting
            /\ m.type \in BlockType =>
                  /\ Ready(e, m) /\ (r.state = "AwaitingAccept" => d = "SenderDrive")
                  /\ s.transfer = t /\ s.state \in {"InProgress", "AwaitingEOFAck"} /\ s.awaiting
                  /\ r.bytes + m.bytes = Bytes(t)
                  /\ m.type = "Block" =>
                        s.state = "InProgress" /\ m.bytes = 1 /\ (s.length > 0 => Bytes(t) <= s.length)

CleanPair(e, d) ==
    LET p == Peer(e)
    IN  /\ CleanEnd(e, d) /\ CleanSender(e, d) /\ CleanReceiver(e, d)
        /\ CleanEnd(p, d) /\ CleanSender(p, d) /\ CleanReceiver(p, d)
        /\ \A m \in Under(e) : CleanMessage(e, m, d)
        /\ \A m \in Under(p) : CleanMessage(p, m, d)

CleanOK(d) ==
    /\ sess["initiator"].opts = {d} /\ d \in sess["responder"].opts
    /\ sess["initiator"].role # sess["responder"].role
    /\ \A t \in Transfer : Prepared(t) = 0 => Bytes(t) = 0
    /\ CleanPair("initiator", d)

\* The inductive invariant behind NoSpuriousError: the transfer has a control mode
\* both ends go by.
CInv == clean => \E d \in Mode : CleanOK(d)

\* The messages under way after e has put a message out.
LEMMA PutOut ==
    ASSUME IInv, NEW e \in End, NEW x, sess[e].out # "msg", sess' = [sess EXCEPT ![e] = x], net' = net
    PROVE  /\ Flight(e)' = Flight(e)
           /\ x.out # "msg" => Flight(Peer(e))' = Flight(Peer(e))
           /\ x.out = "msg" /\ x.transfer # 0 =>
                /\ Under(Peer(e))' = Under(Peer(e)) \cup {x.msg}
                /\ \A t : HasAccept(Peer(e), t) => HasAccept(Peer(e), t)'
                /\ \A m : AfterAccept(Peer(e), m) => AfterAccept(Peer(e), m)'
                /\ HasAccept(Peer(e), x.msg.transfer) => AfterAccept(Peer(e), x.msg)'
                /\ x.msg.type = "Accept" => HasAccept(Peer(e), x.msg.transfer)'
<1> DEFINE p == Peer(e)
<1>1. p \in End /\ p # e /\ Peer(p) = e
  BY PeerEnd
<1>2. sess'[e] = x /\ sess'[p] = sess[p] /\ net[p] \in Seq(Message)
  BY <1>1 DEF IInv, Typed
<1> HIDE DEF p
<1>3. Flight(e)' = Flight(e) /\ Flight(p) = net[p] /\ Flight(p)' = FlightOf(net[p], x)
  BY <1>1, <1>2 DEF Flight, FlightOf, p
<1>4. CASE x.out = "msg" /\ x.transfer # 0
  <2>1. PICK q : q = net[p]
    OBVIOUS
  <2>2. PICK w : w = Append(q, x.msg)
    OBVIOUS
  <2>3. PICK n : n = x.msg
    OBVIOUS
  <2>4. Flight(p) = q /\ Flight(p)' = w
    BY <1>3, <1>4, <2>1, <2>2 DEF FlightOf
  <2>5. /\ In(w) = In(q) \cup {n}
        /\ \A a, b : Precedes(w, a, b) <=> Precedes(q, a, b) \/ (a \in In(q) /\ b = n)
    BY <1>2, <2>1, <2>2, <2>3, InAppend
  <2>6. \A t : AcceptIn(q, t) => AcceptIn(w, t)
    BY <2>5 DEF AcceptIn
  <2>7. \A m : AcceptBefore(q, m) => AcceptBefore(w, m)
    BY <2>5 DEF AcceptBefore
  <2>8. AcceptIn(q, n.transfer) => AcceptBefore(w, n)
    BY <2>5 DEF AcceptIn, AcceptBefore
  <2>9. n.type = "Accept" => AcceptIn(w, n.transfer)
    BY <2>5 DEF AcceptIn
  <2>10. Under(p)' = Under(p) \cup {x.msg}
    BY <2>3, <2>4, <2>5 DEF Under
  <2> QED BY <1>3, <1>4, <2>3, <2>4, <2>6, <2>7, <2>8, <2>9, <2>10 DEF HasAccept, AfterAccept, p
<1>5. CASE x.out # "msg" \/ x.transfer = 0
  BY <1>3, <1>5 DEF FlightOf, p
<1> QED BY <1>4, <1>5

\* The first message of a queue.
LEMMA TailAccepts ==
    ASSUME NEW q \in Seq(Message), q # << >>
    PROVE  /\ \A t : AcceptIn(q, t) => AcceptIn(Tail(q), t) \/ (Head(q).type = "Accept" /\ Head(q).transfer = t)
           /\ \A m : AcceptBefore(q, m) =>
                 AcceptBefore(Tail(q), m) \/ (Head(q).type = "Accept" /\ Head(q).transfer = m.transfer)
           /\ AcceptBefore(q, Head(q)) => Precedes(q, Head(q), Head(q))
<1> DEFINE n == Len(q)
<1>1. PICK w : w = Tail(q)
  OBVIOUS
<1>2. PICK h : h = Head(q)
  OBVIOUS
<1>3. /\ n \in Nat \ {0} /\ DOMAIN q = 1 .. n /\ DOMAIN w = 1 .. n - 1
      /\ h = q[1] /\ \A i \in 1 .. n - 1 : w[i] = q[i + 1]
  BY <1>1, <1>2
<1> HIDE DEF n
<1>4. ASSUME NEW i \in 1 .. n, q[i] # h PROVE i - 1 \in 1 .. n - 1 /\ w[i - 1] = q[i]
  <2>1. i # 1
    BY <1>3, <1>4
  <2>2. i - 1 \in 1 .. n - 1 /\ (i - 1) + 1 = i
    BY <1>3, <2>1
  <2> QED BY <1>3, <2>2
<1>5. ASSUME NEW a \in In(q), a # h PROVE a \in In(w)
  <2>1. PICK i \in 1 .. n : a = q[i]
    BY <1>3, <1>5 DEF In
  <2> QED BY <1>3, <1>4, <1>5, <2>1 DEF In
<1>6. ASSUME NEW a, NEW b, Precedes(q, a, b), a # h PROVE Precedes(w, a, b)
  <2>1. PICK i \in 1 .. n, j \in 1 .. n : i < j /\ a = q[i] /\ b = q[j]
    BY <1>3, <1>6 DEF Precedes
  <2>2. i - 1 \in 1 .. n - 1 /\ w[i - 1] = q[i]
    BY <1>4, <1>6, <2>1
  <2>3. j - 1 \in 1 .. n - 1 /\ (j - 1) + 1 = j /\ i - 1 < j - 1
    BY <1>3, <2>1, <2>2
  <2>4. w[j - 1] = q[j]
    BY <1>3, <2>3
  <2> QED BY <1>3, <2>1, <2>2, <2>3, <2>4 DEF Precedes
<1>7. ASSUME NEW a, Precedes(q, a, h) PROVE Precedes(q, h, h)
  <2>1. PICK i \in 1 .. n, j \in 1 .. n : i < j /\ a = q[i] /\ h = q[j]
    BY <1>3, <1>7 DEF Precedes
  <2>2. 1 < j /\ 1 \in 1 .. n
    BY <1>3, <2>1
  <2> QED BY <1>3, <2>1, <2>2 DEF Precedes
<1>8. \A t : AcceptIn(q, t) => AcceptIn(w, t) \/ (h.type = "Accept" /\ h.transfer = t)
  BY <1>5 DEF AcceptIn
<1>9. \A m : AcceptBefore(q, m) => AcceptBefore(w, m) \/ (h.type = "Accept" /\ h.transfer = m.transfer)
  BY <1>5, <1>6 DEF AcceptBefore
<1>10. AcceptBefore(q, h) => Precedes(q, h, h)
  BY <1>7 DEF AcceptBefore
<1> QED BY <1>1, <1>2, <1>8, <1>9, <1>10

\* The messages under way after e has taken the first one.
LEMMA TookIn ==
    ASSUME IInv, NEW e \in End, NEW x \in Session, x = sess[e] \/ (sess[e].out # "msg" /\ x.out # "msg"),
           sess' = [sess EXCEPT ![e] = x], net[e] # << >>, net' = [net EXCEPT ![e] = Tail(@)],
           NEW h, h = Head(net[e])
    PROVE  /\ Flight(Peer(e))' = Flight(Peer(e))
           /\ h \in Under(e) /\ Under(e)' \subseteq Under(e)
           /\ \A b \in Under(e)' : Follows(h, b)
           /\ \A t : HasAccept(e, t) => HasAccept(e, t)' \/ (h.type = "Accept" /\ h.transfer = t)
           /\ \A m : AfterAccept(e, m) => AfterAccept(e, m)' \/ (h.type = "Accept" /\ h.transfer = m.transfer)
           /\ AfterAccept(e, h) => Follows(h, h)
<1> DEFINE p == Peer(e)
<1>1. p \in End /\ p # e /\ Peer(p) = e
  BY PeerEnd
<1>2. /\ sess'[e] = x /\ sess'[p] = sess[p] /\ net[e] \in Seq(Message) /\ sess[p] \in Session
      /\ net'[e] = Tail(net[e]) /\ net'[p] = net[p]
  BY <1>1 DEF IInv, Typed
<1> HIDE DEF p
<1>3. /\ Flight(p)' = Flight(p)
      /\ Flight(e) = FlightOf(net[e], sess[p]) /\ Flight(e)' = FlightOf(Tail(net[e]), sess[p])
  BY <1>1, <1>2 DEF Flight, FlightOf, p
<1>4. PICK q : q = net[e]
  OBVIOUS
<1>5. PICK r : r = sess[p]
  OBVIOUS
<1>6. q \in Seq(Message) /\ q # << >> /\ h = Head(q) /\ r.msg \in Message
  BY <1>2, <1>4, <1>5 DEF Session
<1>7. PICK f : f = FlightOf(q, r)
  OBVIOUS
<1>8. f \in Seq(Message) /\ f # << >> /\ Head(f) = h /\ FlightOf(Tail(q), r) = Tail(f)
  <2>1. CASE r.out = "msg" /\ r.transfer # 0
    <3>1. f = Append(q, r.msg) /\ FlightOf(Tail(q), r) = Append(Tail(q), r.msg)
      BY <1>7, <2>1 DEF FlightOf
    <3>2. Append(q, r.msg) \in Seq(Message) /\ Append(q, r.msg) # << >> /\ Head(Append(q, r.msg)) = Head(q)
      BY <1>6
    <3>3. Tail(Append(q, r.msg)) = Append(Tail(q), r.msg)
      BY <1>6
    <3> QED BY <1>6, <3>1, <3>2, <3>3
  <2>2. CASE ~(r.out = "msg" /\ r.transfer # 0)
    BY <1>6, <1>7, <2>2 DEF FlightOf
  <2> QED BY <2>1, <2>2
<1>9. Flight(e) = f /\ Flight(e)' = Tail(f)
  BY <1>3, <1>4, <1>5, <1>7, <1>8
<1>10. PICK w : w = Tail(f)
  OBVIOUS
<1>11. /\ Shrinks(w, f) /\ h \in In(f) /\ \A b \in In(w) : Precedes(f, h, b)
  BY <1>8, <1>10, InTail
<1>12. /\ \A t : AcceptIn(f, t) => AcceptIn(w, t) \/ (h.type = "Accept" /\ h.transfer = t)
       /\ \A m : AcceptBefore(f, m) => AcceptBefore(w, m) \/ (h.type = "Accept" /\ h.transfer = m.transfer)
       /\ AcceptBefore(f, h) => Precedes(f, h, h)
  BY <1>8, <1>10, TailAccepts
<1>13. \A a, b : Precedes(f, a, b) => Follows(a, b)
  BY <1>9, FactsHold DEF Facts
<1>14. Flight(e) = f /\ Flight(e)' = w
  BY <1>9, <1>10
<1> HIDE <1>9, <1>10, <1>7, <1>4, <1>5
<1>15. h \in Under(e) /\ Under(e)' \subseteq Under(e) /\ \A b \in Under(e)' : Follows(h, b)
  BY <1>11, <1>13, <1>14 DEF Under, Shrinks
<1>16. /\ \A t : HasAccept(e, t) => HasAccept(e, t)' \/ (h.type = "Accept" /\ h.transfer = t)
       /\ \A m : AfterAccept(e, m) => AfterAccept(e, m)' \/ (h.type = "Accept" /\ h.transfer = m.transfer)
       /\ AfterAccept(e, h) => Follows(h, h)
  BY <1>12, <1>13, <1>14 DEF HasAccept, AfterAccept
<1> QED BY <1>3, <1>15, <1>16 DEF p

\* What holds of one end and its peer holds of the peer and this end.
LEMMA CleanBoth ==
    ASSUME NEW e \in End, NEW d
    PROVE  /\ CleanPair("initiator", d) <=> CleanPair(e, d)
           /\ CleanPair("initiator", d)' <=> CleanPair(e, d)'
<1>1. CASE e = "initiator"
  BY <1>1
<1>2. CASE e = "responder"
  <2>1. Peer("initiator") = e /\ Peer(e) = "initiator"
    BY <1>2 DEF Peer
  <2> QED BY <2>1 DEF CleanPair
<1> QED BY <1>1, <1>2 DEF End

\* What the arguments below start from.
CleanFacts(e, d) ==
    /\ Facts(e) /\ CleanPair(e, d) /\ sess[e].role # sess[Peer(e)].role
    /\ sess[e].role \in {"sender", "receiver"} /\ sess[Peer(e)].role \in {"sender", "receiver"}
    /\ \A t \in Transfer : Prepared(t) = 0 => Bytes(t) = 0

LEMMA CleanFactsHold ==
    ASSUME IInv, NEW d, CleanOK(d), NEW e \in End
    PROVE  CleanFacts(e, d)
<1>1. Facts(e) /\ CleanPair(e, d)
  BY FactsHold, CleanBoth DEF CleanOK
<1>2. Peer(e) \in End /\ sess[e].role # sess[Peer(e)].role
  BY DEF CleanOK, End, Peer
<1> QED BY <1>1, <1>2, Kinds DEF CleanOK, CleanFacts

\* What they end with.
LEMMA CleanAgain ==
    ASSUME NEW d, CleanOK(d), NEW e \in End, NEW x, sess' = [sess EXCEPT ![e] = x], IInv,
           x.role = sess[e].role, x.opts = sess[e].opts, plan' = plan,
           \A t \in Transfer : Prepared(t)' = 0 => Bytes(t)' = 0, CleanPair(e, d)'
    PROVE  CleanOK(d)'
<1>1. \A k \in End : sess'[k].role = sess[k].role /\ sess'[k].opts = sess[k].opts
  <2>1. \A k \in End : sess'[k] = IF k = e THEN x ELSE sess[k]
    BY DEF IInv, Typed
  <2> QED BY <2>1
<1>2. "initiator" \in End /\ "responder" \in End /\ Transfer' = Transfer
  BY DEF End, Transfer
<1>3. CleanPair("initiator", d)'
  BY CleanBoth
<1> QED BY <1>1, <1>2, <1>3 DEF CleanOK

-----------------------------------------------------------------------------
(* Steps that keep a clean transfer clean.                                 *)

\* A step of end e that leaves the histories alone.
CleanStep(e, x) ==
    /\ sess' = [sess EXCEPT ![e] = x] /\ x.role = sess[e].role /\ x.opts = sess[e].opts
    /\ plan' = plan /\ written' = written /\ got' = got

LEMMA CleanFrame ==
    ASSUME IInv, NEW e \in End, NEW x, CleanStep(e, x)
    PROVE  /\ sess'[e] = x /\ sess'[Peer(e)] = sess[Peer(e)] /\ Peer(Peer(e)) = e
           /\ \A t : Prepared(t)' = Prepared(t) /\ Taken(t)' = Taken(t) /\ Bytes(t)' = Bytes(t)
           /\ \A m : NextQuery(m)' = NextQuery(m)
           /\ \/ e = "initiator" /\ Peer(e) = "responder"
              \/ e = "responder" /\ Peer(e) = "initiator"
<1>1. sess'[e] = x /\ sess'[Peer(e)] = sess[Peer(e)] /\ Peer(Peer(e)) = e
  BY PeerEnd DEF IInv, Typed, CleanStep
<1>2. \A t : Prepared(t)' = Prepared(t) /\ Taken(t)' = Taken(t) /\ Bytes(t)' = Bytes(t)
  BY DEF CleanStep, Prepared, Taken, Bytes
<1>3. \A m : NextQuery(m)' = NextQuery(m)
  BY <1>2 DEF NextQuery, NextNum
<1> QED BY <1>1, <1>2, <1>3 DEF End, Peer

\* The answers to requests that end k waits for are still under way.
AcceptsKept(k) ==
    /\ \A t : t = sess[k].transfer /\ HasAccept(k, t) => HasAccept(k, t)'
    /\ \A m : m.transfer = sess[k].transfer /\ AfterAccept(k, m) => AfterAccept(k, m)'

\* x is s but for what the invariant of clean transfers does not look at.
CleanAlike(s, x) ==
    /\ x.state = s.state /\ x.mode = s.mode /\ x.proposed = s.proposed /\ x.awaiting = s.awaiting
    /\ x.length = s.length /\ x.bytes = s.bytes /\ x.lastQuery = s.lastQuery /\ x.transfer = s.transfer
    /\ x.out = "block" <=> s.out = "block"

LEMMA FlightKept ==
    ASSUME NEW k, Flight(k)' = Flight(k) PROVE Under(k)' = Under(k) /\ AcceptsKept(k)
<1>1. Under(k)' = Under(k)
  BY DEF Under
<1>2. (\A v : HasAccept(k, v)' = HasAccept(k, v)) /\ (\A m : AfterAccept(k, m)' = AfterAccept(k, m))
  BY DEF HasAccept, AfterAccept
<1> QED BY <1>1, <1>2 DEF AcceptsKept

LEMMA AlikeClean ==
    ASSUME IInv, NEW d, CleanOK(d), NEW e \in End, NEW x, CleanStep(e, x), CleanAlike(sess[e], x),
           Under(e)' \subseteq Under(e), Under(Peer(e))' \subseteq Under(Peer(e)),
           AcceptsKept(e), AcceptsKept(Peer(e))
    PROVE  CleanOK(d)'
<1> DEFINE p == Peer(e)
           s == sess[e]
           r == sess[p]
<1>1. /\ sess'[e] = x /\ sess'[p] = r /\ Peer(p) = e
      /\ \A t : Prepared(t)' = Prepared(t) /\ Taken(t)' = Taken(t) /\ Bytes(t)' = Bytes(t)
      /\ \A m : NextQuery(m)' = NextQuery(m)
      /\ (e = "initiator" /\ p = "responder") \/ (e = "responder" /\ p = "initiator")
  BY CleanFrame
<1>2. CleanFacts(e, d)
  BY CleanFactsHold
<1>3. x.role = s.role
  BY DEF CleanStep
<1> HIDE DEF p
<1>4. CleanEnd(e, d)' /\ CleanEnd(p, d)'
  BY <1>1, <1>2, <1>3 DEF CleanFacts, CleanPair, CleanEnd, CleanAlike, p
<1>5. CleanSender(e, d)' /\ CleanSender(p, d)'
  BY <1>1, <1>2, <1>3 DEF CleanFacts, CleanPair, CleanSender, CleanAlike, AcceptsKept, p
<1>6. Pending(x) = Pending(s)
  BY DEF CleanAlike, Pending
<1>7. CleanReceiver(e, d)'
  BY <1>1, <1>2, <1>3, <1>6 DEF CleanFacts, CleanPair, CleanReceiver, CleanAlike, AcceptsKept, p
<1>8. CleanReceiver(p, d)'
  BY <1>1, <1>2, <1>3, <1>6 DEF CleanFacts, CleanPair, CleanReceiver, CleanAlike, AcceptsKept, p
<1>9. ASSUME NEW m \in Under(e)' PROVE CleanMessage(e, m, d)'
  <2>1. CleanMessage(e, m, d)
    BY <1>2 DEF CleanFacts, CleanPair
  <2> QED BY <1>1, <1>3, <2>1 DEF CleanMessage, Ready, CleanAlike, AcceptsKept, p
<1>10. ASSUME NEW m \in Under(p)' PROVE CleanMessage(p, m, d)'
  <2>1. CleanMessage(p, m, d)
    BY <1>2 DEF CleanFacts, CleanPair, p
  <2> QED BY <1>1, <1>3, <2>1 DEF CleanMessage, Ready, CleanAlike, AcceptsKept, p
<1>11. CleanPair(e, d)'
  BY <1>4, <1>5, <1>7, <1>8, <1>9, <1>10 DEF CleanPair, p
<1>12. \A t \in Transfer : Prepared(t)' = 0 => Bytes(t)' = 0
  BY <1>1, <1>2 DEF CleanFacts
<1> QED BY <1>11, <1>12, CleanAgain DEF CleanStep

\* A session in none of the states of a transfer is replaced by a new one.
LEMMA FreshClean ==
    ASSUME IInv, NEW d, CleanOK(d), NEW e \in End, NEW x, CleanStep(e, x), net' = net,
           sess[e].state \in {"Uninitialized", "Done"}, sess[e].out # "msg", x.out = "none",
           x.state \in {"Uninitialized", "AwaitingInit"}, x.transfer = 0, x.bytes = 0, x.lastQuery = 0
    PROVE  CleanOK(d)'
<1> DEFINE p == Peer(e)
           s == sess[e]
           r == sess[p]
<1>1. /\ sess'[e] = x /\ sess'[p] = r /\ Peer(p) = e
      /\ \A t : Prepared(t)' = Prepared(t) /\ Taken(t)' = Taken(t) /\ Bytes(t)' = Bytes(t)
      /\ \A m : NextQuery(m)' = NextQuery(m)
      /\ (e = "initiator" /\ p = "responder") \/ (e = "responder" /\ p = "initiator")
  BY CleanFrame
<1>2. CleanFacts(e, d)
  BY CleanFactsHold
<1>3. Flight(e)' = Flight(e) /\ Flight(p)' = Flight(p)
  BY PutOut DEF CleanStep
<1>4. Under(e)' = Under(e) /\ Under(p)' = Under(p)
  BY <1>3 DEF Under
<1>5. \A k \in {e, p} : \A m : AfterAccept(k, m)' = AfterAccept(k, m)
  BY <1>3 DEF AfterAccept
<1> HIDE DEF p
<1>6. CleanEnd(e, d)' /\ CleanEnd(p, d)'
  BY <1>1, <1>2 DEF CleanFacts, CleanPair, CleanEnd, p, Facts, EndOK
<1>7. CleanSender(e, d)' /\ CleanSender(p, d)'
  BY <1>1, <1>2 DEF CleanFacts, CleanPair, CleanSender, p
<1>8. CleanReceiver(e, d)' /\ CleanReceiver(p, d)'
  BY <1>1, <1>2 DEF CleanFacts, CleanPair, CleanReceiver, p
<1>9. ASSUME NEW m \in Under(e)' PROVE CleanMessage(e, m, d)'
  <2>1. CleanMessage(e, m, d) /\ m.transfer # 0
    BY <1>2, <1>4 DEF CleanFacts, CleanPair, Facts, MessageOK
  <2> QED BY <1>1, <2>1 DEF CleanMessage, p
<1>10. ASSUME NEW m \in Under(p)' PROVE CleanMessage(p, m, d)'
  <2>1. CleanMessage(p, m, d)
    BY <1>2, <1>4 DEF CleanFacts, CleanPair, p
  <2> QED BY <1>1, <2>1 DEF CleanMessage, p
<1>11. CleanPair(e, d)'
  BY <1>6, <1>7, <1>8, <1>9, <1>10 DEF CleanPair, p
<1>12. \A t \in Transfer : Prepared(t)' = 0 => Bytes(t)' = 0
  BY <1>1, <1>2 DEF CleanFacts
<1> QED BY <1>11, <1>12, CleanAgain DEF CleanStep

\* The initiator requests a transfer.
LEMMA RequestClean ==
    ASSUME IInv, NEW d, CleanOK(d), NEW e \in End, e = "initiator", NEW x, CleanStep(e, x), net' = net,
           sess[e].state = "Uninitialized", x.state = "AwaitingAccept", x.transfer = transfers + 1,
           x.bytes = sess[e].bytes, x.lastQuery = sess[e].lastQuery, x.out = "msg",
           x.msg.type = "Init", x.msg.transfer = x.transfer, x.msg.modes = sess[e].opts, x.msg.length = x.length
    PROVE  CleanOK(d)'
<1> DEFINE p == Peer(e)
           s == sess[e]
           r == sess[p]
<1>1. /\ sess'[e] = x /\ sess'[p] = r /\ Peer(p) = e
      /\ \A t : Prepared(t)' = Prepared(t) /\ Taken(t)' = Taken(t) /\ Bytes(t)' = Bytes(t)
      /\ \A m : NextQuery(m)' = NextQuery(m)
      /\ (e = "initiator" /\ p = "responder") \/ (e = "responder" /\ p = "initiator")
  BY CleanFrame
<1>2. CleanFacts(e, d) /\ transfers \in Nat
  BY CleanFactsHold, Kinds
<1>3. s.out = "none" /\ s.bytes = 0 /\ s.lastQuery = 0 /\ x.transfer # 0 /\ s.opts = {d}
  BY <1>2 DEF CleanFacts, CleanPair, CleanEnd, Early, Facts, EndOK, CleanOK
<1>4. Flight(e)' = Flight(e) /\ Under(p)' = Under(p) \cup {x.msg}
  BY <1>3, PutOut DEF CleanStep
<1>5. Under(e)' = Under(e)
  BY <1>4 DEF Under
<1> HIDE DEF p
<1>6. CleanEnd(e, d)' /\ CleanEnd(p, d)'
  BY <1>1, <1>2, <1>3 DEF CleanFacts, CleanPair, CleanEnd, p
<1>7. CleanSender(e, d)' /\ CleanSender(p, d)'
  BY <1>1, <1>2 DEF CleanFacts, CleanPair, CleanSender, p
<1>8. CleanReceiver(e, d)' /\ CleanReceiver(p, d)'
  BY <1>1, <1>2 DEF CleanFacts, CleanPair, CleanReceiver, p
<1>9. ASSUME NEW m \in Under(e)' PROVE CleanMessage(e, m, d)'
  <2>1. CleanMessage(e, m, d) /\ m.transfer \in 1 .. transfers /\ m.type # "Init"
    BY <1>1, <1>2, <1>5 DEF CleanFacts, CleanPair, Facts, MessageOK
  <2>2. m.transfer # x.transfer
    BY <1>2, <2>1
  <2> QED BY <1>1, <2>1, <2>2 DEF CleanMessage, p
<1>10. ASSUME NEW m \in Under(p)' PROVE CleanMessage(p, m, d)'
  <2>1. CASE m = x.msg
    BY <1>1, <1>3, <2>1 DEF CleanMessage, p, BlockType
  <2>2. CASE m \in Under(p)
    <3>1. CleanMessage(p, m, d) /\ m.type # "Accept"
      BY <1>1, <1>2, <2>2 DEF CleanFacts, CleanPair, p, Facts, MessageOK
    <3> QED BY <1>1, <3>1 DEF CleanMessage, p
  <2> QED BY <1>4, <2>1, <2>2
<1>11. CleanPair(e, d)'
  BY <1>6, <1>7, <1>8, <1>9, <1>10 DEF CleanPair, p
<1>12. \A t \in Transfer : Prepared(t)' = 0 => Bytes(t)' = 0
  BY <1>1, <1>2 DEF CleanFacts
<1> QED BY <1>11, <1>12, CleanAgain DEF CleanStep

\* The receiver asks for a block.
LEMMA AskClean ==
    ASSUME IInv, NEW d, CleanOK(d), NEW e \in End, NEW x, CleanStep(e, x), net' = net,
           sess[e].state = "InProgress", sess[e].role = "receiver", sess[e].out = "none", ~sess[e].awaiting,
           sess[e].mode = "ReceiverDrive",
           x.state = "InProgress", x.mode = sess[e].mode, x.awaiting, x.out = "msg", x.transfer = sess[e].transfer,
           x.length = sess[e].length, x.bytes = sess[e].bytes, x.lastQuery = sess[e].nextQuery,
           x.msg.type = "Query", x.msg.transfer = x.transfer, x.msg.num = sess[e].nextQuery
    PROVE  CleanOK(d)'
<1> DEFINE p == Peer(e)
           s == sess[e]
           r == sess[p]
           t == s.transfer
<1>1. /\ sess'[e] = x /\ sess'[p] = r /\ Peer(p) = e
      /\ \A v : Prepared(v)' = Prepared(v) /\ Taken(v)' = Taken(v) /\ Bytes(v)' = Bytes(v)
      /\ \A m : NextQuery(m)' = NextQuery(m)
      /\ (e = "initiator" /\ p = "responder") \/ (e = "responder" /\ p = "initiator")
  BY CleanFrame
<1>2. CleanFacts(e, d) /\ t # 0 /\ t \in Transfer
  BY CleanFactsHold, Kinds DEF CleanFacts, Facts, EndOK, Agreed
<1>3. Taken(t) \in Nat /\ Prepared(t) \in Nat
  BY <1>2, Kinds
<1>4. /\ Flight(e)' = Flight(e) /\ Under(p)' = Under(p) \cup {x.msg}
      /\ \A v : HasAccept(p, v) => HasAccept(p, v)'
      /\ \A m : AfterAccept(p, m) => AfterAccept(p, m)'
      /\ HasAccept(p, x.msg.transfer) => AfterAccept(p, x.msg)'
  BY <1>2, PutOut DEF CleanStep
<1>5. /\ Under(e)' = Under(e)
      /\ \A m : AfterAccept(e, m)' = AfterAccept(e, m)
      /\ \A v : HasAccept(e, v)' = HasAccept(e, v)
  BY <1>4 DEF Under, AfterAccept, HasAccept
<1> HIDE DEF p
<1>6. /\ d = "ReceiverDrive" /\ Prepared(t) = Taken(t) /\ r.transfer = t /\ r.role = "sender"
      /\ (r.state = "InProgress" /\ r.awaiting) \/ (r.state = "AwaitingAccept" /\ HasAccept(p, t))
      /\ s.length = r.length /\ s.bytes = Bytes(t)
  <2>1. CleanEnd(e, d) /\ CleanReceiver(e, d)
    BY <1>2 DEF CleanFacts, CleanPair
  <2>2. Pending(s) = 0
    BY DEF Pending
  <2>3. r.role = "sender"
    BY <1>2 DEF CleanFacts, p
  <2> QED BY <1>3, <2>1, <2>2, <2>3 DEF CleanEnd, CleanReceiver, p
<1>7. s.nextQuery = Taken(t) % CounterMod
  <2>1. s.nextQuery = (Taken(t) + 0) % CounterMod
    BY <1>2 DEF CleanFacts, Facts, ReceiverOK
  <2> QED BY <1>3, <2>1
<1>8. NextQuery(x.msg)
  BY <1>6, <1>7 DEF NextQuery, NextNum
<1>9. CleanEnd(e, d)' /\ CleanEnd(p, d)'
  BY <1>1, <1>2, <1>6 DEF CleanFacts, CleanPair, CleanEnd, p, Early
<1>10. CleanSender(e, d)' /\ CleanSender(p, d)'
  BY <1>1, <1>2, <1>6 DEF CleanFacts, CleanPair, CleanSender, p, CleanStep
<1>11. CleanReceiver(e, d)' /\ CleanReceiver(p, d)'
  <2>1. CleanReceiver(p, d)'
    BY <1>1, <1>6 DEF CleanReceiver
  <2>2. Pending(x) = 0 /\ Pending(s) = 0
    BY DEF Pending
  <2>3. CleanReceiver(e, d)'
    BY <1>1, <1>4, <1>6, <1>7, <2>2 DEF CleanReceiver, p
  <2> QED BY <2>1, <2>3
<1>12. ASSUME NEW m \in Under(e)' PROVE CleanMessage(e, m, d)'
  <2>1. CleanMessage(e, m, d) /\ MessageOK(e, m)
    BY <1>2, <1>5 DEF CleanFacts, CleanPair, Facts
  <2>2. m.transfer = t => m.type \notin BlockType \cup {"Accept", "Query", "Ack"}
    BY <1>6, <2>1 DEF CleanMessage, Ready, MessageOK, p, AnswerType, AckType
  <2> QED BY <1>1, <2>1, <2>2 DEF CleanMessage, p
<1>13. ASSUME NEW m \in Under(p)' PROVE CleanMessage(p, m, d)'
  <2>1. CASE m = x.msg
    BY <1>1, <1>4, <1>6, <1>8, <2>1 DEF CleanMessage, p, BlockType, Ready
  <2>2. CASE m \in Under(p)
    <3>1. CleanMessage(p, m, d) /\ m.type \notin BlockType
      BY <1>1, <1>2, <2>2 DEF CleanFacts, CleanPair, p, Facts, MessageOK
    <3> QED BY <1>1, <3>1, <1>4 DEF CleanMessage, p, CleanStep, Ready
  <2> QED BY <1>4, <2>1, <2>2
<1>14. CleanPair(e, d)'
  BY <1>9, <1>10, <1>11, <1>12, <1>13 DEF CleanPair, p
<1>15. \A v \in Transfer : Prepared(v)' = 0 => Bytes(v)' = 0
  BY <1>1, <1>2 DEF CleanFacts
<1> QED BY <1>14, <1>15, CleanAgain DEF CleanStep

\* The receiver acknowledges a block.
LEMMA AcknowledgeClean ==
    ASSUME IInv, NEW d, CleanOK(d), NEW e \in End, NEW x, CleanStep(e, x), net' = net,
           sess[e].state \in {"InProgress", "ReceivedEOF"}, sess[e].role = "receiver", sess[e].out = "none",
           sess[e].unacked,
           x.state = (IF sess[e].state = "ReceivedEOF" THEN "Done" ELSE "InProgress"), x.mode = sess[e].mode,
           x.awaiting <=> (x.state = "InProgress" /\ x.mode = "SenderDrive"),
           x.out = "msg", x.transfer = sess[e].transfer, x.length = sess[e].length, x.bytes = sess[e].bytes,
           x.awaiting => x.lastQuery = Inc(sess[e].lastBlock),
           x.msg.type = (IF sess[e].state = "ReceivedEOF" THEN "AckEOF" ELSE "Ack"), x.msg.transfer = x.transfer
    PROVE  CleanOK(d)'
<1> DEFINE p == Peer(e)
           s == sess[e]
           r == sess[p]
           t == s.transfer
<1>1. /\ sess'[e] = x /\ sess'[p] = r /\ Peer(p) = e
      /\ \A v : Prepared(v)' = Prepared(v) /\ Taken(v)' = Taken(v) /\ Bytes(v)' = Bytes(v)
      /\ \A m : NextQuery(m)' = NextQuery(m)
      /\ (e = "initiator" /\ p = "responder") \/ (e = "responder" /\ p = "initiator")
  BY CleanFrame
<1>2. CleanFacts(e, d) /\ t # 0 /\ t \in Transfer
  BY CleanFactsHold, Kinds DEF CleanFacts, Facts, EndOK, Agreed
<1>3. Taken(t) \in Nat /\ Prepared(t) \in Nat
  BY <1>2, Kinds
<1>4. /\ Flight(e)' = Flight(e) /\ Under(p)' = Under(p) \cup {x.msg}
      /\ \A v : HasAccept(p, v) => HasAccept(p, v)'
      /\ \A m : AfterAccept(p, m) => AfterAccept(p, m)'
  BY <1>2, PutOut DEF CleanStep
<1>5. /\ Under(e)' = Under(e)
      /\ \A m : AfterAccept(e, m)' = AfterAccept(e, m)
      /\ \A v : HasAccept(e, v)' = HasAccept(e, v)
  BY <1>4 DEF Under, AfterAccept, HasAccept
<1> HIDE DEF p
<1>6. /\ ~s.awaiting /\ Prepared(t) = Taken(t) /\ Taken(t) > 0 /\ s.lastBlock = LastNum(t) /\ r.role = "sender"
  BY <1>2 DEF CleanFacts, Facts, ReceiverOK, Accepting, p
<1>7. s.state = "InProgress" =>
          /\ d = s.mode /\ r.transfer = t /\ r.state = "InProgress" /\ r.awaiting
          /\ s.length = r.length /\ s.bytes = Bytes(t)
  <2>1. CleanEnd(e, d) /\ CleanReceiver(e, d) /\ SenderOK(p)
    BY <1>2 DEF CleanFacts, CleanPair, Facts, p
  <2>2. Pending(s) = 0
    BY DEF Pending
  <2>3. r.state = "AwaitingAccept" /\ r.transfer = t => Prepared(t) = 0
    BY <1>2, <1>6, <2>1 DEF SenderOK
  <2> QED BY <1>3, <1>6, <2>1, <2>2, <2>3 DEF CleanEnd, CleanReceiver, p
<1>8. Inc(s.lastBlock) = Taken(t) % CounterMod
  <2>1. Taken(t) - 1 \in Nat /\ (Taken(t) - 1) + 1 = Taken(t)
    BY <1>3, <1>6
  <2>2. Inc((Taken(t) - 1) % CounterMod) = Taken(t) % CounterMod
    BY <2>1, IncMod
  <2> QED BY <1>6, <2>2 DEF LastNum
<1>9. CleanEnd(e, d)' /\ CleanEnd(p, d)'
  BY <1>1, <1>2, <1>7 DEF CleanFacts, CleanPair, CleanEnd, p, Early
<1>10. CleanSender(e, d)' /\ CleanSender(p, d)'
  BY <1>1, <1>2, <1>6, <1>7 DEF CleanFacts, CleanPair, CleanSender, p, CleanStep
<1>11. CleanReceiver(e, d)' /\ CleanReceiver(p, d)'
  <2>1. CleanReceiver(p, d)'
    BY <1>1, <1>6 DEF CleanReceiver
  <2>2. Pending(x) = 0 /\ Pending(s) = 0
    BY DEF Pending
  <2>3. CleanReceiver(e, d)'
    BY <1>1, <1>3, <1>6, <1>7, <1>8, <2>2 DEF CleanReceiver, p
  <2> QED BY <2>1, <2>3
<1>12. ASSUME NEW m \in Under(e)' PROVE CleanMessage(e, m, d)'
  <2>1. CleanMessage(e, m, d) /\ MessageOK(e, m)
    BY <1>2, <1>5 DEF CleanFacts, CleanPair, Facts
  <2>2. m.transfer = t => m.type \notin BlockType \cup {"Accept", "Query", "Ack"}
    BY <1>6, <2>1 DEF CleanMessage, Ready, MessageOK, p, AnswerType, AckType
  <2> QED BY <1>1, <2>1, <2>2 DEF CleanMessage, p
<1>13. ASSUME NEW m \in Under(p)' PROVE CleanMessage(p, m, d)'
  <2>1. CASE m = x.msg
    BY <1>1, <1>7, <2>1 DEF CleanMessage, p, BlockType
  <2>2. CASE m \in Under(p)
    <3>1. CleanMessage(p, m, d) /\ m.type \notin BlockType
      BY <1>1, <1>2, <2>2 DEF CleanFacts, CleanPair, p, Facts, MessageOK
    <3>2. m.type = "Init" => s.state = "AwaitingAccept"
      BY <1>1, <3>1 DEF CleanMessage
    <3>3. CASE r.transfer # m.transfer
      BY <1>1, <3>1, <3>2, <3>3 DEF CleanMessage
    <3>4. CASE r.transfer = m.transfer
      <4>1. m.type = "Accept" => s.state = "InProgress"
        BY <1>1, <3>1, <3>4 DEF CleanMessage
      <4>2. m.type # "Query"
        BY <1>1, <1>6, <3>1, <3>4 DEF CleanMessage
      <4>3. m.type = "Ack" => r.state = "InProgress" /\ r.awaiting /\ d # "SenderDrive"
        BY <1>1, <1>6, <3>1, <3>4 DEF CleanMessage
      <4> QED BY <1>1, <3>1, <3>2, <3>4, <4>1, <4>2, <4>3 DEF CleanMessage, CleanStep
    <3> QED BY <3>3, <3>4
  <2> QED BY <1>4, <2>1, <2>2
<1>14. CleanPair(e, d)'
  BY <1>9, <1>10, <1>11, <1>12, <1>13 DEF CleanPair, p
<1>15. \A v \in Transfer : Prepared(v)' = 0 => Bytes(v)' = 0
  BY <1>1, <1>2 DEF CleanFacts
<1> QED BY <1>14, <1>15, CleanAgain DEF CleanStep

\* The responder accepts a transfer.
LEMMA GrantClean ==
    ASSUME IInv, NEW d, CleanOK(d), NEW e \in End, NEW x, CleanStep(e, x), net' = net,
           sess[e].state = "Negotiate", sess[e].out = "none",
           x.state = "InProgress", x.mode = sess[e].mode,
           x.awaiting <=> (x.mode = IF x.role = "receiver" THEN "SenderDrive" ELSE "ReceiverDrive"),
           x.out = "msg", x.transfer = sess[e].transfer, x.bytes = sess[e].bytes, x.lastQuery = sess[e].lastQuery,
           x.role = "receiver" => x.length = sess[e].length,
           x.msg.type = "Accept", x.msg.transfer = x.transfer, x.msg.length = x.length,
           \E mode \in sess[e].proposed : x.msg.modes = {mode}
    PROVE  CleanOK(d)'
<1> DEFINE p == Peer(e)
           s == sess[e]
           r == sess[p]
           t == s.transfer
<1>1. /\ sess'[e] = x /\ sess'[p] = r /\ Peer(p) = e
      /\ \A v : Prepared(v)' = Prepared(v) /\ Taken(v)' = Taken(v) /\ Bytes(v)' = Bytes(v)
      /\ \A m : NextQuery(m)' = NextQuery(m)
      /\ (e = "initiator" /\ p = "responder") \/ (e = "responder" /\ p = "initiator")
  BY CleanFrame
<1>2. CleanFacts(e, d) /\ t # 0 /\ t \in Transfer
  BY CleanFactsHold, Kinds DEF CleanFacts, Facts, EndOK, Agreed
<1>3. Taken(t) = 0 /\ Prepared(t) = 0 /\ Bytes(t) = 0 /\ \A m \in Under("initiator") : m.transfer # t
  BY <1>2 DEF CleanFacts, Facts, EndOK, Untouched
<1>4. /\ Flight(e)' = Flight(e) /\ Under(p)' = Under(p) \cup {x.msg}
      /\ HasAccept(p, x.msg.transfer)'
  BY <1>2, PutOut DEF CleanStep
<1>5. /\ Under(e)' = Under(e)
      /\ \A m : AfterAccept(e, m)' = AfterAccept(e, m)
      /\ \A v : HasAccept(e, v)' = HasAccept(e, v)
  BY <1>4 DEF Under, AfterAccept, HasAccept
<1> HIDE DEF p
<1>6. /\ d = s.mode /\ r.transfer = t /\ r.state = "AwaitingAccept" /\ e = "responder" /\ p = "initiator"
      /\ x.role = "receiver" => x.length = r.length
      /\ s.bytes = 0 /\ s.lastQuery = 0 /\ x.msg.modes = {d} /\ r.role # s.role
  <2>1. e = "responder" /\ p = "initiator"
    BY <1>1, <1>2 DEF CleanFacts, Facts, EndOK
  <2> QED BY <1>2, <2>1 DEF CleanFacts, CleanPair, CleanEnd, p, Early, CleanStep
<1>7. x.role = s.role /\ s.role \in {"sender", "receiver"} /\ r.role \in {"sender", "receiver"}
  BY <1>2 DEF CleanStep, CleanFacts, p
<1>8. d \in Mode
  <2>1. s.proposed \subseteq Mode
    BY Kinds DEF Session
  <2>2. s.proposed = {d}
    BY <1>2 DEF CleanFacts, CleanPair, CleanEnd
  <2> QED BY <2>1, <2>2
<1>9. CleanEnd(e, d)' /\ CleanEnd(p, d)'
  BY <1>1, <1>2, <1>6 DEF CleanFacts, CleanPair, CleanEnd, p, Early
<1>10. CleanSender(e, d)' /\ CleanSender(p, d)'
  BY <1>1, <1>2, <1>4, <1>6, <1>7, <1>8 DEF CleanFacts, CleanPair, CleanSender, p, Mode
<1>11. CleanReceiver(e, d)' /\ CleanReceiver(p, d)'
  <2>1. CleanReceiver(p, d)'
    BY <1>1, <1>6 DEF CleanReceiver
  <2>2. Pending(x) = 0 /\ 0 % CounterMod = 0
    BY BdxAssumption DEF Pending
  <2>3. CleanReceiver(e, d)'
    BY <1>1, <1>3, <1>4, <1>6, <1>7, <1>8, <2>2 DEF CleanReceiver, p, Mode
  <2> QED BY <2>1, <2>3
<1>12. ASSUME NEW m \in Under(e)' PROVE CleanMessage(e, m, d)'
  <2>1. CleanMessage(e, m, d) /\ MessageOK(e, m)
    BY <1>2, <1>5 DEF CleanFacts, CleanPair, Facts
  <2>2. m.transfer = t => m.type \notin BlockType \cup {"Accept", "Query", "Ack"}
    BY <1>6, <2>1 DEF CleanMessage, Ready, MessageOK, p
  <2> QED BY <1>1, <2>1, <2>2 DEF CleanMessage, p
<1>13. ASSUME NEW m \in Under(p)' PROVE CleanMessage(p, m, d)'
  <2>1. CASE m = x.msg
    BY <1>1, <1>3, <1>6, <1>7, <2>1 DEF CleanMessage, p, BlockType
  <2>2. CASE m \in Under(p)
    <3>1. CleanMessage(p, m, d) /\ m.type # "Init" /\ m.transfer # r.transfer
      BY <1>2, <1>3, <1>6, <2>2 DEF CleanFacts, CleanPair, p, Facts, MessageOK
    <3> QED BY <1>1, <3>1 DEF CleanMessage
  <2> QED BY <1>4, <2>1, <2>2
<1>14. CleanPair(e, d)'
  BY <1>9, <1>10, <1>11, <1>12, <1>13 DEF CleanPair, p
<1>15. \A v \in Transfer : Prepared(v)' = 0 => Bytes(v)' = 0
  BY <1>1, <1>2 DEF CleanFacts
<1> QED BY <1>14, <1>15, CleanAgain DEF CleanStep

\* The sender prepares a block within the terms of the transfer.
LEMMA SendBlockClean ==
    ASSUME IInv, NEW d, CleanOK(d), NEW e \in End, NEW x, sess' = [sess EXCEPT ![e] = x],
           UNCHANGED <<plan, net, got>>,
           sess[e].state = "InProgress", sess[e].role = "sender", sess[e].out = "none", ~sess[e].awaiting,
           NEW t, t = sess[e].transfer, NEW w \in [blocks : Nat, bytes : Nat], NEW bytes \in {0, 1},
           w.blocks = Prepared(t) + 1, w.bytes = Bytes(t) + bytes, written' = [written EXCEPT ![t] = w],
           x.role = "sender", x.opts = sess[e].opts, x.mode = sess[e].mode, x.awaiting, x.out = "msg", x.transfer = t,
           x.length = sess[e].length,
           x.state = (IF x.msg.type = "BlockEOF" THEN "AwaitingEOFAck" ELSE "InProgress"),
           x.msg.type \in BlockType, x.msg.transfer = t, x.msg.bytes = bytes,
           \/ x.msg.type = "BlockEOF"
           \/ bytes = 1 /\ (sess[e].length > 0 => Bytes(t) < sess[e].length)
    PROVE  CleanOK(d)'
<1> DEFINE p == Peer(e)
           s == sess[e]
           r == sess[p]
<1>1. /\ sess'[e] = x /\ sess'[p] = r /\ Peer(p) = e /\ p \in End
      /\ (e = "initiator" /\ p = "responder") \/ (e = "responder" /\ p = "initiator")
  <2>1. Peer(p) = e /\ p \in End /\ p # e
    BY PeerEnd
  <2>2. (e = "initiator" /\ p = "responder") \/ (e = "responder" /\ p = "initiator")
    BY DEF End, Peer
  <2> QED BY <2>1, <2>2 DEF IInv, Typed
<1>2. CleanFacts(e, d) /\ t # 0 /\ t \in Transfer
  BY CleanFactsHold, Kinds DEF CleanFacts, Facts, EndOK, Agreed
<1>3. Taken(t) \in Nat /\ Prepared(t) \in Nat /\ Prepared(t) = Taken(t) /\ s.length \in Nat /\ Bytes(t) \in Nat
  <2>1. s.length \in Nat
    <3>1. plan.lengths \subseteq Nat
      BY BdxAssumption DEF IInv, Typed, Plan
    <3>2. s.length \in plan.lengths \cup {0}
      BY Kinds DEF Session
    <3> QED BY <3>1, <3>2
  <2>2. Bytes(t) \in Nat
    BY <1>2 DEF IInv, Typed, Bytes
  <2> QED BY <1>2, <2>1, <2>2, Kinds DEF CleanFacts, Facts, SenderOK
<1>4. /\ Flight(e)' = Flight(e) /\ Under(p)' = Under(p) \cup {x.msg}
      /\ \A v : HasAccept(p, v) => HasAccept(p, v)'
      /\ \A m : AfterAccept(p, m) => AfterAccept(p, m)'
      /\ HasAccept(p, x.msg.transfer) => AfterAccept(p, x.msg)'
  BY <1>2, PutOut
<1>5. /\ Under(e)' = Under(e)
      /\ \A m : AfterAccept(e, m)' = AfterAccept(e, m)
      /\ \A v : HasAccept(e, v)' = HasAccept(e, v)
  BY <1>4 DEF Under, AfterAccept, HasAccept
<1> HIDE DEF p
<1>6. /\ d = s.mode /\ r.transfer = t /\ r.role = "receiver"
      /\ \/ r.state = "InProgress" /\ r.awaiting
         \/ r.state = "AwaitingAccept" /\ HasAccept(p, t) /\ d = "SenderDrive"
  BY <1>2 DEF CleanFacts, CleanPair, CleanEnd, CleanSender, p
<1>7. r.bytes = Bytes(t) /\ (r.state = "InProgress" => Pending(r) = 0 /\ r.length = s.length)
  <2>1. CASE r.state = "InProgress"
    <3>1. r.out # "block"
      BY <1>2, <1>6, <2>1 DEF CleanFacts, Facts, ReceiverOK, p
    <3>2. Pending(r) = 0 /\ CleanReceiver(p, d)
      BY <1>2, <3>1 DEF Pending, CleanFacts, CleanPair, p
    <3> QED BY <1>1, <1>3, <1>6, <2>1, <3>2 DEF CleanReceiver
  <2>2. CASE r.state = "AwaitingAccept"
    <3>1. Taken(t) = 0 /\ r.bytes = 0
      BY <1>2, <1>6, <2>2 DEF CleanFacts, Facts, ReceiverOK, CleanPair, CleanEnd, p, Early
    <3> QED BY <1>2, <1>3, <2>2, <3>1 DEF CleanFacts
  <2> QED BY <1>6, <2>1, <2>2
<1>8. /\ Prepared(t)' = Prepared(t) + 1 /\ Bytes(t)' = Bytes(t) + bytes /\ Taken(t)' = Taken(t)
      /\ \A v \in Transfer : v # t => Prepared(v)' = Prepared(v) /\ Bytes(v)' = Bytes(v)
  BY <1>2 DEF IInv, Typed, Prepared, Bytes, Taken
<1>9. CleanEnd(e, d)' /\ CleanEnd(p, d)'
  BY <1>1, <1>2, <1>6 DEF CleanFacts, CleanPair, CleanEnd, p, Early
<1>10. CleanSender(e, d)' /\ CleanSender(p, d)'
  BY <1>1, <1>4, <1>6 DEF CleanSender, p
<1>11. CleanReceiver(e, d)' /\ CleanReceiver(p, d)'
  <2>1. CleanReceiver(e, d)'
    BY <1>1 DEF CleanReceiver
  <2>2. CASE r.state = "InProgress"
    <3>1. CleanReceiver(p, d) /\ Prepared(t)' # Taken(t)' + Pending(r)
      BY <1>2, <1>3, <1>7, <1>8, <2>2 DEF CleanFacts, CleanPair, p
    <3> QED BY <1>1, <1>6, <1>7, <1>8, <2>2, <3>1 DEF CleanReceiver
  <2>3. CASE r.state # "InProgress"
    BY <1>1, <2>3 DEF CleanReceiver
  <2> QED BY <2>1, <2>2, <2>3
<1>12. ASSUME NEW m \in Under(e)' PROVE CleanMessage(e, m, d)'
  <2>1. CleanMessage(e, m, d) /\ MessageOK(e, m)
    BY <1>2, <1>5 DEF CleanFacts, CleanPair, Facts
  <2>2. m.transfer = t => m.type \notin BlockType \cup {"Accept", "Query", "Ack"}
    BY <1>6, <2>1 DEF CleanMessage, Ready, MessageOK, p
  <2> QED BY <1>1, <2>1, <2>2 DEF CleanMessage, p
<1>13. ASSUME NEW m \in Under(p)' PROVE CleanMessage(p, m, d)'
  <2>1. CASE m = x.msg
    <3>1. r.bytes + m.bytes = Bytes(t)'
      BY <1>7, <1>8, <2>1
    <3>2. m.type = "Block" => x.state = "InProgress" /\ m.bytes = 1 /\ (x.length > 0 => Bytes(t)' <= x.length)
      <4>1. m.type = "Block" => x.state = "InProgress" /\ bytes = 1 /\ (s.length > 0 => Bytes(t) < s.length)
        BY <2>1
      <4>2. s.length > 0 /\ bytes = 1 /\ Bytes(t) < s.length => Bytes(t)' <= s.length
        BY <1>3, <1>8
      <4> QED BY <2>1, <4>1, <4>2
    <3>3. Ready(p, m)'
      BY <1>1, <1>4, <1>6, <2>1 DEF Ready
    <3> QED BY <1>1, <1>6, <2>1, <3>1, <3>2, <3>3 DEF CleanMessage, BlockType
  <2>2. CASE m \in Under(p)
    <3>1. CleanMessage(p, m, d) /\ MessageOK(p, m)
      BY <1>1, <1>2, <2>2 DEF CleanFacts, CleanPair, p, Facts
    <3>2. m.type # "Init" /\ (m.transfer = t => m.type \notin BlockType \cup {"Query", "Ack"})
      BY <1>1, <1>6, <3>1 DEF CleanMessage, MessageOK, AnswerType, AckType
    <3>3. m.type = "Accept" /\ m.transfer = t => d = "SenderDrive"
      BY <1>6, <3>1 DEF MessageOK
    <3> QED BY <1>1, <1>6, <3>1, <3>2, <3>3 DEF CleanMessage
  <2> QED BY <1>4, <2>1, <2>2
<1>14. CleanPair(e, d)'
  BY <1>9, <1>10, <1>11, <1>12, <1>13 DEF CleanPair, p
<1>15. \A v \in Transfer : Prepared(v)' = 0 => Bytes(v)' = 0
  <2>1. Prepared(t)' # 0
    BY <1>3, <1>8
  <2> QED BY <1>2, <1>8, <2>1 DEF CleanFacts
<1> QED BY <1>14, <1>15, CleanAgain

\* The receiver's caller takes a block.
LEMMA TakeBlockClean ==
    ASSUME IInv, NEW d, CleanOK(d), NEW e \in End, NEW x, sess' = [sess EXCEPT ![e] = x],
           UNCHANGED <<plan, net, written>>,
           sess[e].out = "block", NEW t, t = sess[e].transfer,
           got' = [got EXCEPT ![t] = Append(@, sess[e].msg.data)],
           x.role = sess[e].role, x.opts = sess[e].opts, x.out = "none",
           x.state = sess[e].state, x.mode = sess[e].mode, x.proposed = sess[e].proposed,
           x.awaiting = sess[e].awaiting, x.length = sess[e].length, x.bytes = sess[e].bytes,
           x.lastQuery = sess[e].lastQuery, x.transfer = t
    PROVE  CleanOK(d)'
<1> DEFINE p == Peer(e)
           s == sess[e]
           r == sess[p]
<1>1. /\ sess'[e] = x /\ sess'[p] = r /\ Peer(p) = e /\ p \in End
      /\ (e = "initiator" /\ p = "responder") \/ (e = "responder" /\ p = "initiator")
  <2>1. Peer(p) = e /\ p \in End /\ p # e
    BY PeerEnd
  <2>2. (e = "initiator" /\ p = "responder") \/ (e = "responder" /\ p = "initiator")
    BY DEF End, Peer
  <2> QED BY <2>1, <2>2 DEF IInv, Typed
<1>2. CleanFacts(e, d)
  BY CleanFactsHold
<1>3. s.role = "receiver" /\ r.role = "sender" /\ s.state \in Accepting /\ t # 0 /\ t \in Transfer
  <2>1. s.role = "receiver" /\ s.state \in Accepting
    BY <1>2 DEF CleanFacts, Facts, EndOK
  <2>2. t # 0
    BY <1>2, <2>1 DEF CleanFacts, Facts, EndOK, Accepting, Agreed
  <2> QED BY <1>2, <2>1, <2>2, Kinds DEF CleanFacts
<1>4. ~s.awaiting /\ Prepared(t) = Taken(t) + 1 /\ Taken(t) \in Nat
  BY <1>2, <1>3, Kinds DEF CleanFacts, Facts, ReceiverOK
<1>5. Flight(e)' = Flight(e) /\ Flight(p)' = Flight(p)
  BY PutOut
<1>6. /\ Under(e)' = Under(e) /\ Under(p)' = Under(p)
      /\ \A k \in {e, p} : \A m : AfterAccept(k, m)' = AfterAccept(k, m)
      /\ \A k \in {e, p} : \A v : HasAccept(k, v)' = HasAccept(k, v)
  BY <1>5 DEF Under, AfterAccept, HasAccept
<1> HIDE DEF p
<1>7. /\ Taken(t)' = Taken(t) + 1 /\ \A v : Prepared(v)' = Prepared(v) /\ Bytes(v)' = Bytes(v)
      /\ \A m : NextQuery(m)' = NextQuery(m)
  <2>1. \A v : Prepared(v)' = Prepared(v) /\ Bytes(v)' = Bytes(v)
    BY DEF Prepared, Bytes
  <2>2. got[t] \in Seq((Transfer \cup {0}) \X Nat) /\ got'[t] = Append(got[t], s.msg.data)
    BY <1>3 DEF IInv, Typed
  <2>3. Len(got'[t]) = Len(got[t]) + 1
    BY <2>2
  <2> QED BY <2>1, <2>3 DEF Taken, NextQuery, NextNum
<1>8. Pending(s) = 1 /\ Pending(x) = 0
  BY DEF Pending
<1>9. CleanEnd(e, d)' /\ CleanEnd(p, d)'
  BY <1>1, <1>2 DEF CleanFacts, CleanPair, CleanEnd, p
<1>10. CleanSender(e, d)' /\ CleanSender(p, d)'
  BY <1>1, <1>2, <1>6 DEF CleanFacts, CleanPair, CleanSender, p
<1>11. CleanReceiver(e, d)' /\ CleanReceiver(p, d)'
  <2>1. CleanReceiver(p, d)'
    BY <1>1, <1>3 DEF CleanReceiver
  <2>2. CleanReceiver(e, d)
    BY <1>2 DEF CleanFacts, CleanPair
  <2>3. Taken(t)' + Pending(x) = Taken(t) + Pending(s)
    BY <1>4, <1>7, <1>8
  <2>4. CleanReceiver(e, d)'
    BY <1>1, <1>4, <1>6, <1>7, <2>2, <2>3 DEF CleanReceiver, p
  <2> QED BY <2>1, <2>4
<1>12. ASSUME NEW m \in Under(e)' PROVE CleanMessage(e, m, d)'
  <2>1. CleanMessage(e, m, d)
    BY <1>2, <1>6 DEF CleanFacts, CleanPair
  <2> QED BY <1>1, <1>6, <1>7, <2>1 DEF CleanMessage, Ready, p
<1>13. ASSUME NEW m \in Under(p)' PROVE CleanMessage(p, m, d)'
  <2>1. CleanMessage(p, m, d)
    BY <1>2, <1>6 DEF CleanFacts, CleanPair, p
  <2> QED BY <1>1, <1>6, <1>7, <2>1 DEF CleanMessage, Ready, p
<1>14. CleanPair(e, d)'
  BY <1>9, <1>10, <1>11, <1>12, <1>13 DEF CleanPair, p
<1>15. \A v \in Transfer : Prepared(v)' = 0 => Bytes(v)' = 0
  BY <1>2, <1>7 DEF CleanFacts
<1> QED BY <1>14, <1>15, CleanAgain

\* A request reaches the responder.
LEMMA RequestedClean ==
    ASSUME IInv, NEW d, CleanOK(d), NEW e \in End, NEW x \in Session, CleanStep(e, x),
           sess[e].out = "none", x.out # "msg", net[e] # << >>, net' = [net EXCEPT ![e] = Tail(@)],
           NEW h, h = Head(net[e]), h.type = "Init", sess[e].state = "AwaitingInit",
           x.state = "Negotiate", x.mode = d, x.proposed = h.modes, x.length = h.length, x.transfer = h.transfer,
           x.bytes = sess[e].bytes, x.lastQuery = sess[e].lastQuery
    PROVE  CleanOK(d)'
<1> DEFINE p == Peer(e)
           s == sess[e]
           r == sess[p]
           t == h.transfer
<1>1. /\ sess'[e] = x /\ sess'[p] = r /\ Peer(p) = e
      /\ \A v : Prepared(v)' = Prepared(v) /\ Taken(v)' = Taken(v) /\ Bytes(v)' = Bytes(v)
      /\ \A m : NextQuery(m)' = NextQuery(m)
      /\ (e = "initiator" /\ p = "responder") \/ (e = "responder" /\ p = "initiator")
  BY CleanFrame
<1>2. CleanFacts(e, d)
  BY CleanFactsHold
<1>3. /\ Flight(p)' = Flight(p) /\ h \in Under(e) /\ Under(e)' \subseteq Under(e)
  BY TookIn DEF CleanStep
<1>4. Under(p)' = Under(p)
  BY <1>3 DEF Under
<1> HIDE DEF p
<1>5. /\ e = "responder" /\ p = "initiator" /\ Untouched(t) /\ t # 0
      /\ r.transfer = t /\ r.state = "AwaitingAccept" /\ h.modes = {d} /\ h.length = r.length
      /\ s.bytes = 0 /\ s.lastQuery = 0
  <2>1. CleanMessage(e, h, d) /\ MessageOK(e, h)
    BY <1>2, <1>3 DEF CleanFacts, CleanPair, Facts
  <2>2. s.bytes = 0 /\ s.lastQuery = 0
    BY <1>2 DEF CleanFacts, CleanPair, CleanEnd, Early
  <2> QED BY <1>1, <2>1, <2>2 DEF CleanMessage, MessageOK, p
<1>6. CleanEnd(e, d)' /\ CleanEnd(p, d)'
  BY <1>1, <1>2, <1>5 DEF CleanFacts, CleanPair, CleanEnd, p, Early
<1>7. CleanSender(e, d)' /\ CleanSender(p, d)'
  BY <1>1, <1>5 DEF CleanSender
<1>8. CleanReceiver(e, d)' /\ CleanReceiver(p, d)'
  BY <1>1, <1>5 DEF CleanReceiver
<1>9. ASSUME NEW m \in Under(e)' PROVE CleanMessage(e, m, d)'
  <2>1. m \in Under(e) /\ CleanMessage(e, m, d) /\ MessageOK(e, m)
    BY <1>2, <1>3 DEF CleanFacts, CleanPair, Facts
  <2>2. m.transfer = t => m.type \notin BlockType
    <3>1. Prepared(t) = 0 /\ Taken(t) = 0
      BY <1>5 DEF Untouched
    <3> QED BY <2>1, <3>1 DEF MessageOK
  <2>3. m.transfer = t => m.type \notin AnswerType
    <3>1. ASSUME m.transfer = t, m.type \in AnswerType PROVE FALSE
      <4>1. r.role = "receiver"
        BY <2>1, <3>1 DEF MessageOK, p
      <4> QED BY <1>1, <1>2, <1>5, <2>1, <3>1, <4>1 DEF CleanFacts, Facts, ReceiverOK, p
    <3> QED BY <3>1
  <2>4. m.type # "Accept"
    BY <1>5, <2>1 DEF MessageOK
  <2> QED BY <1>1, <1>5, <2>1, <2>2, <2>3, <2>4 DEF CleanMessage, AnswerType, AckType, p
<1>10. ASSUME NEW m \in Under(p)' PROVE CleanMessage(p, m, d)'
  <2>1. CleanMessage(p, m, d) /\ m.type # "Init" /\ m.transfer # t
    BY <1>2, <1>4, <1>5 DEF CleanFacts, CleanPair, p, Facts, MessageOK, Untouched
  <2> QED BY <1>1, <1>5, <2>1 DEF CleanMessage
<1>11. CleanPair(e, d)'
  BY <1>6, <1>7, <1>8, <1>9, <1>10 DEF CleanPair, p
<1>12. \A v \in Transfer : Prepared(v)' = 0 => Bytes(v)' = 0
  BY <1>1, <1>2 DEF CleanFacts
<1> QED BY <1>11, <1>12, CleanAgain DEF CleanStep

\* Session s has become y with the answer m to its request.
TookAccept(s, m, d, y) ==
    /\ y.role = s.role /\ y.opts = s.opts /\ y.state = "InProgress" /\ y.mode = d /\ y.out = "accept"
    /\ y.length = (IF s.role = "receiver" THEN m.length ELSE s.length)
    /\ y.awaiting <=> (d = IF s.role = "receiver" THEN "SenderDrive" ELSE "ReceiverDrive")
    /\ y.transfer = s.transfer /\ y.bytes = s.bytes /\ y.lastQuery = s.lastQuery

\* The initiator's request was accepted.
LEMMA AcceptedClean ==
    ASSUME IInv, NEW d \in Mode, CleanOK(d), NEW e \in End, NEW x \in Session, CleanStep(e, x),
           sess[e].out = "none", net[e] # << >>, net' = [net EXCEPT ![e] = Tail(@)],
           NEW h, h = Head(net[e]), h.type = "Accept", h.transfer = sess[e].transfer,
           sess[e].state = "AwaitingAccept",
           TookAccept(sess[e], h, d, x)
    PROVE  CleanOK(d)'
<1> USE DEF TookAccept
<1> DEFINE p == Peer(e)
           s == sess[e]
           r == sess[p]
           t == s.transfer
<1>1. /\ sess'[e] = x /\ sess'[p] = r /\ Peer(p) = e
      /\ \A v : Prepared(v)' = Prepared(v) /\ Taken(v)' = Taken(v) /\ Bytes(v)' = Bytes(v)
      /\ \A m : NextQuery(m)' = NextQuery(m)
      /\ (e = "initiator" /\ p = "responder") \/ (e = "responder" /\ p = "initiator")
  BY CleanFrame
<1>2. CleanFacts(e, d) /\ t # 0 /\ t \in Transfer
  BY CleanFactsHold, Kinds DEF CleanFacts, Facts, EndOK, Agreed
<1>3. /\ Flight(p)' = Flight(p) /\ h \in Under(e) /\ Under(e)' \subseteq Under(e)
      /\ \A b \in Under(e)' : Follows(h, b)
  BY TookIn DEF CleanStep
<1>4. /\ Under(p)' = Under(p) /\ \A v : HasAccept(p, v)' = HasAccept(p, v)
      /\ \A m : AfterAccept(p, m)' = AfterAccept(p, m)
  BY <1>3 DEF Under, HasAccept, AfterAccept
<1> HIDE DEF p
<1>5. /\ e = "initiator" /\ p = "responder" /\ r.transfer = t /\ r.state \in {"InProgress", "AwaitingEOFAck"}
      /\ IF s.role = "receiver" THEN h.length = r.length ELSE r.length = s.length
      /\ s.role = "receiver" /\ d = "ReceiverDrive" => Prepared(t) = 0
      /\ s.bytes = 0 /\ s.lastQuery = 0 /\ r.role # s.role
      /\ s.role \in {"sender", "receiver"} /\ r.role \in {"sender", "receiver"}
      /\ x.role = s.role
  <2>1. CleanMessage(e, h, d) /\ MessageOK(e, h)
    BY <1>2, <1>3 DEF CleanFacts, CleanPair, Facts
  <2>2. s.bytes = 0 /\ s.lastQuery = 0
    BY <1>2 DEF CleanFacts, CleanPair, CleanEnd, Early
  <2> QED BY <1>1, <1>2, <2>1, <2>2 DEF CleanMessage, MessageOK, p, CleanFacts, CleanStep
<1>6. CleanEnd(e, d)' /\ CleanEnd(p, d)'
  BY <1>1, <1>2, <1>5 DEF CleanFacts, CleanPair, CleanEnd, p, Early
<1>7. ASSUME s.role = "sender" PROVE r.state = "InProgress" /\ (d = "SenderDrive" => r.awaiting)
  <2>1. r.state = "InProgress"
    BY <1>2, <1>5, <1>7 DEF CleanFacts, Facts, EndOK, p
  <2>2. CleanReceiver(p, d)
    BY <1>2 DEF CleanFacts, CleanPair, p
  <2> QED BY <1>1, <1>5, <1>7, <2>1, <2>2 DEF CleanReceiver, Mode
<1>8. ASSUME s.role = "receiver"
      PROVE  /\ Taken(t) = 0 /\ (d = "ReceiverDrive" => r.state = "InProgress" /\ r.awaiting)
             /\ r.state = "InProgress" /\ ~r.awaiting => d = "SenderDrive"
             /\ \A m \in Under(p) : m.transfer = t => m.type \notin AnswerType
  <2>1. Taken(t) = 0 /\ \A m \in Under(p) : m.transfer = t => m.type \notin AnswerType
    BY <1>2, <1>8 DEF CleanFacts, Facts, ReceiverOK, p
  <2>2. r.state = "InProgress" /\ ~r.awaiting => d = "SenderDrive"
    BY <1>1, <1>2, <1>5, <1>8 DEF CleanFacts, CleanPair, CleanSender, p
  <2>3. r.state = "AwaitingEOFAck" => Prepared(t) > 0
    BY <1>1, <1>2, <1>5, <1>8 DEF CleanFacts, Facts, SenderOK, p
  <2>4. r.awaiting \in BOOLEAN
    BY <1>1, Kinds, PeerEnd DEF p
  <2>5. d = "ReceiverDrive" => r.state = "InProgress"
    <3>1. ~(0 > 0)
      OBVIOUS
    <3> QED BY <1>5, <1>8, <2>3, <3>1
  <2>6. "ReceiverDrive" # "SenderDrive"
    OBVIOUS
  <2> QED BY <2>1, <2>2, <2>4, <2>5, <2>6
<1>9. CleanSender(e, d)' /\ CleanSender(p, d)'
  <2>1. CleanSender(e, d)'
    BY <1>1, <1>5, <1>7 DEF CleanSender, p, Mode
  <2>2. CleanSender(p, d)'
    BY <1>1, <1>5, <1>8 DEF CleanSender
  <2> QED BY <2>1, <2>2
<1>10. CleanReceiver(e, d)' /\ CleanReceiver(p, d)'
  <2>1. Pending(x) = 0 /\ 0 % CounterMod = 0
    BY BdxAssumption DEF Pending
  <2>2. Prepared(t) = 0 => Bytes(t) = 0
    BY <1>2 DEF CleanFacts
  <2>3. CleanReceiver(e, d)'
    BY <1>1, <1>5, <1>8, <2>1, <2>2 DEF CleanReceiver, p, Mode
  <2>4. CleanReceiver(p, d)
    BY <1>2 DEF CleanFacts, CleanPair, p
  <2>5. CleanReceiver(p, d)'
    BY <1>1, <1>5, <1>7, <2>4 DEF CleanReceiver, Mode
  <2> QED BY <2>3, <2>5
<1>11. ASSUME NEW m \in Under(e)' PROVE CleanMessage(e, m, d)'
  <2>1. m \in Under(e) /\ CleanMessage(e, m, d) /\ MessageOK(e, m) /\ Follows(h, m)
    BY <1>2, <1>3 DEF CleanFacts, CleanPair, Facts
  <2>2. m.type # "Init" /\ (m.transfer = t => m.type \notin {"Accept", "Ack"})
    BY <1>5, <2>1 DEF MessageOK, Follows, CleanMessage
  <2>3. m.transfer = t /\ m.type = "Query" => d = "ReceiverDrive" /\ s.role = "sender"
    BY <1>5, <2>1 DEF MessageOK, CleanMessage, AnswerType, p
  <2>4. m.transfer = t /\ m.type \in BlockType => d = "SenderDrive" /\ s.role = "receiver"
    BY <1>5, <2>1 DEF MessageOK, CleanMessage, p
  <2>5. m.transfer = t /\ m.type \in BlockType \cup {"Query"} => x.awaiting
    BY <1>5, <2>3, <2>4
  <2> QED BY <1>1, <2>1, <2>2, <2>3, <2>4, <2>5 DEF CleanMessage, Ready, p
<1>12. ASSUME NEW m \in Under(p)' PROVE CleanMessage(p, m, d)'
  <2>1. CleanMessage(p, m, d) /\ m \in Under(p) /\ MessageOK(p, m)
    BY <1>2, <1>4, <1>5 DEF CleanFacts, CleanPair, p, Facts
  <2>2. m.type # "Init"
    <3>1. ASSUME m.type = "Init" PROVE FALSE
      <4>1. m.transfer = t
        BY <1>1, <2>1, <3>1 DEF CleanMessage
      <4> QED BY <1>3, <1>5, <2>1, <3>1, <4>1 DEF MessageOK, Untouched
    <3> QED BY <3>1
  <2>3. m.transfer = t => m.type \notin BlockType \cup {"Accept", "Query", "Ack"}
    <3>1. m.type # "Accept"
      BY <1>5, <2>1 DEF MessageOK
    <3>2. m.transfer = t => m.type \notin BlockType \cup {"Query"}
      BY <1>1, <1>5, <2>1 DEF CleanMessage
    <3>3. m.transfer = t => m.type # "Ack"
      BY <1>1, <1>5, <1>8, <2>1 DEF MessageOK, AnswerType, AckType
    <3> QED BY <3>1, <3>2, <3>3
  <2> QED BY <1>1, <1>5, <2>1, <2>2, <2>3 DEF CleanMessage
<1>13. CleanPair(e, d)'
  BY <1>6, <1>9, <1>10, <1>11, <1>12 DEF CleanPair, p
<1>14. \A v \in Transfer : Prepared(v)' = 0 => Bytes(v)' = 0
  BY <1>1, <1>2 DEF CleanFacts
<1> QED BY <1>13, <1>14, CleanAgain DEF CleanStep

\* The receiver's answer lets the sender go on.
LEMMA AnsweredClean ==
    ASSUME IInv, IInv', NEW d, CleanOK(d), NEW e \in End, NEW x \in Session, CleanStep(e, x),
           sess[e].out = "none", x.out # "msg", net[e] # << >>, net' = [net EXCEPT ![e] = Tail(@)],
           NEW h, h = Head(net[e]), h.type \in {"Query", "Ack"}, h.transfer = sess[e].transfer,
           h.type = "Ack" => d = "SenderDrive",
           sess[e].state = "InProgress", sess[e].role = "sender", sess[e].awaiting,
           x.state = "InProgress", x.mode = sess[e].mode, ~x.awaiting, x.transfer = sess[e].transfer,
           x.length = sess[e].length
    PROVE  CleanOK(d)'
<1> DEFINE p == Peer(e)
           s == sess[e]
           r == sess[p]
           t == s.transfer
<1>1. /\ sess'[e] = x /\ sess'[p] = r /\ Peer(p) = e
      /\ \A v : Prepared(v)' = Prepared(v) /\ Taken(v)' = Taken(v) /\ Bytes(v)' = Bytes(v)
      /\ \A m : NextQuery(m)' = NextQuery(m)
      /\ (e = "initiator" /\ p = "responder") \/ (e = "responder" /\ p = "initiator")
  BY CleanFrame
<1>2. CleanFacts(e, d) /\ t # 0 /\ p \in End
  BY CleanFactsHold, PeerEnd DEF CleanFacts, Facts, EndOK, Agreed
<1>3. /\ Flight(p)' = Flight(p) /\ h \in Under(e) /\ Under(e)' \subseteq Under(e)
      /\ \A b \in Under(e)' : Follows(h, b)
  BY TookIn DEF CleanStep
<1>4. Under(p)' = Under(p)
  BY <1>3 DEF Under
<1>5. \A m \in Under(p) : MessageOK(p, m)'
  BY <1>2, <1>4 DEF IInv, FlightOK
<1> HIDE DEF p
<1>6. /\ r.transfer = t /\ r.state = "InProgress" /\ r.awaiting /\ r.role = "receiver" /\ d = s.mode
      /\ x.role = "sender"
      /\ h.type = "Query" => d = "ReceiverDrive" /\ NextQuery(h)
  <2>1. CleanMessage(e, h, d)
    BY <1>2, <1>3 DEF CleanFacts, CleanPair
  <2> QED BY <1>2, <2>1 DEF CleanMessage, p, CleanFacts, CleanStep, CleanPair, CleanEnd
<1>7. CleanEnd(e, d)' /\ CleanEnd(p, d)'
  BY <1>1, <1>2, <1>6 DEF CleanFacts, CleanPair, CleanEnd, p, Early
<1>8. CleanSender(e, d)' /\ CleanSender(p, d)'
  BY <1>1, <1>6 DEF CleanSender, p
<1>9. CleanReceiver(e, d)' /\ CleanReceiver(p, d)'
  <2>1. CleanReceiver(p, d)
    BY <1>2 DEF CleanFacts, CleanPair, p
  <2> QED BY <1>1, <1>6, <2>1 DEF CleanReceiver, p
<1>10. ASSUME NEW m \in Under(e)' PROVE CleanMessage(e, m, d)'
  <2>1. m \in Under(e) /\ CleanMessage(e, m, d) /\ MessageOK(e, m) /\ Follows(h, m)
    BY <1>2, <1>3 DEF CleanFacts, CleanPair, Facts
  <2>2. m.transfer = t => m.type \notin BlockType \cup {"Accept"}
    BY <1>6, <2>1 DEF MessageOK, p
  <2>3. m.transfer = t => m.type \notin {"Query", "Ack"}
    <3>1. CASE h.type = "Query"
      BY <1>6, <2>1, <3>1 DEF Follows, AnswerType, AckType
    <3>2. CASE h.type = "Ack"
      BY <2>1, <3>2 DEF Follows, AckType, CleanMessage
    <3> QED BY <3>1, <3>2
  <2> QED BY <1>1, <2>1, <2>2, <2>3 DEF CleanMessage, p
<1>11. ASSUME NEW m \in Under(p)' PROVE CleanMessage(p, m, d)'
  <2>1. CleanMessage(p, m, d) /\ m \in Under(p) /\ MessageOK(p, m) /\ MessageOK(p, m)'
    BY <1>2, <1>4, <1>5 DEF CleanFacts, CleanPair, p, Facts
  <2>2. m.transfer = t => m.type \notin BlockType \cup {"Accept", "Query", "Ack"}
    <3>1. m.transfer = t => m.type \notin BlockType
      BY <1>1, <2>1 DEF MessageOK
    <3>2. m.transfer = t => m.type # "Accept"
      BY <1>6, <2>1 DEF MessageOK
    <3>3. m.type \notin {"Query", "Ack"}
      BY <1>1, <2>1 DEF MessageOK, AnswerType, AckType
    <3> QED BY <3>1, <3>2, <3>3
  <2> QED BY <1>1, <1>6, <2>1, <2>2 DEF CleanMessage
<1>12. CleanPair(e, d)'
  BY <1>7, <1>8, <1>9, <1>10, <1>11 DEF CleanPair, p
<1>13. \A v \in Transfer : Prepared(v)' = 0 => Bytes(v)' = 0
  BY <1>1, <1>2 DEF CleanFacts
<1> QED BY <1>12, <1>13, CleanAgain DEF CleanStep

\* The last block was acknowledged.
LEMMA CompletedClean ==
    ASSUME IInv, NEW d, CleanOK(d), NEW e \in End, NEW x \in Session, CleanStep(e, x),
           sess[e].out = "none", x.out # "msg", net[e] # << >>, net' = [net EXCEPT ![e] = Tail(@)],
           NEW h, h = Head(net[e]), h.type = "AckEOF", h.transfer = sess[e].transfer,
           sess[e].state = "AwaitingEOFAck", x.state = "Done", x.transfer = sess[e].transfer
    PROVE  CleanOK(d)'
<1> DEFINE p == Peer(e)
           s == sess[e]
           r == sess[p]
           t == s.transfer
<1>1. /\ sess'[e] = x /\ sess'[p] = r /\ Peer(p) = e
      /\ \A v : Prepared(v)' = Prepared(v) /\ Taken(v)' = Taken(v) /\ Bytes(v)' = Bytes(v)
      /\ \A m : NextQuery(m)' = NextQuery(m)
      /\ (e = "initiator" /\ p = "responder") \/ (e = "responder" /\ p = "initiator")
  BY CleanFrame
<1>2. CleanFacts(e, d) /\ t # 0
  BY CleanFactsHold DEF CleanFacts, Facts, EndOK, Agreed
<1>3. /\ Flight(p)' = Flight(p) /\ h \in Under(e) /\ Under(e)' \subseteq Under(e)
  BY TookIn DEF CleanStep
<1>4. Under(p)' = Under(p)
  BY <1>3 DEF Under
<1> HIDE DEF p
<1>5. r.transfer = t => r.state = "Done"
  BY <1>2, <1>3 DEF CleanFacts, Facts, MessageOK, p
<1>6. CleanEnd(e, d)' /\ CleanEnd(p, d)'
  BY <1>1, <1>2 DEF CleanFacts, CleanPair, CleanEnd, p, Early
<1>7. CleanSender(e, d)' /\ CleanSender(p, d)'
  BY <1>1, <1>2 DEF CleanSender, p, CleanFacts, CleanPair
<1>8. CleanReceiver(e, d)' /\ CleanReceiver(p, d)'
  <2>1. CleanReceiver(p, d)
    BY <1>2 DEF CleanFacts, CleanPair, p
  <2> QED BY <1>1, <1>5, <2>1 DEF CleanReceiver, p
<1>9. ASSUME NEW m \in Under(e)' PROVE CleanMessage(e, m, d)'
  <2>1. m \in Under(e) /\ CleanMessage(e, m, d) /\ MessageOK(e, m)
    BY <1>2, <1>3 DEF CleanFacts, CleanPair, Facts
  <2>2. m.transfer = t => m.type \notin BlockType \cup {"Accept", "Query", "Ack"}
    BY <2>1 DEF MessageOK, CleanMessage, Ready
  <2> QED BY <1>1, <2>1, <2>2 DEF CleanMessage, p
<1>10. ASSUME NEW m \in Under(p)' PROVE CleanMessage(p, m, d)'
  <2>1. CleanMessage(p, m, d) /\ m \in Under(p) /\ MessageOK(p, m)
    BY <1>2, <1>4 DEF CleanFacts, CleanPair, p, Facts
  <2>2. m.type # "Init"
    BY <1>1, <2>1 DEF CleanMessage
  <2>3. r.transfer = m.transfer => m.type \notin BlockType \cup {"Accept", "Query"}
    BY <1>1, <1>5, <2>1 DEF CleanMessage, MessageOK, Ready
  <2>4. r.transfer = m.transfer /\ m.type = "Ack" => d # "SenderDrive"
    BY <1>1, <2>1 DEF CleanMessage
  <2> QED BY <1>1, <2>1, <2>2, <2>3, <2>4 DEF CleanMessage
<1>11. CleanPair(e, d)'
  BY <1>6, <1>7, <1>8, <1>9, <1>10 DEF CleanPair, p
<1>12. \A v \in Transfer : Prepared(v)' = 0 => Bytes(v)' = 0
  BY <1>1, <1>2 DEF CleanFacts
<1> QED BY <1>11, <1>12, CleanAgain DEF CleanStep

\* A block reaches the receiver.
LEMMA BlockClean ==
    ASSUME IInv, NEW d, CleanOK(d), NEW e \in End, NEW x \in Session, CleanStep(e, x),
           sess[e].out = "none", x.out = "block", net[e] # << >>, net' = [net EXCEPT ![e] = Tail(@)],
           NEW h, h = Head(net[e]), h.type \in BlockType, h.transfer = sess[e].transfer,
           sess[e].state = "InProgress", sess[e].role = "receiver", sess[e].awaiting,
           x.state = (IF h.type = "BlockEOF" THEN "ReceivedEOF" ELSE "InProgress"), x.mode = sess[e].mode, ~x.awaiting,
           x.transfer = sess[e].transfer, x.length = sess[e].length, x.bytes = sess[e].bytes + h.bytes
    PROVE  CleanOK(d)'
<1> DEFINE p == Peer(e)
           s == sess[e]
           r == sess[p]
           t == s.transfer
<1>1. /\ sess'[e] = x /\ sess'[p] = r /\ Peer(p) = e
      /\ \A v : Prepared(v)' = Prepared(v) /\ Taken(v)' = Taken(v) /\ Bytes(v)' = Bytes(v)
      /\ \A m : NextQuery(m)' = NextQuery(m)
      /\ (e = "initiator" /\ p = "responder") \/ (e = "responder" /\ p = "initiator")
  BY CleanFrame
<1>2. CleanFacts(e, d) /\ t # 0 /\ t \in Transfer
  BY CleanFactsHold, Kinds DEF CleanFacts, Facts, EndOK, Agreed
<1>3. /\ Flight(p)' = Flight(p) /\ h \in Under(e) /\ Under(e)' \subseteq Under(e)
      /\ \A b \in Under(e)' : Follows(h, b)
  BY TookIn DEF CleanStep
<1>4. Under(p)' = Under(p)
  BY <1>3 DEF Under
<1> HIDE DEF p
<1>5. /\ r.transfer = t /\ r.role = "sender" /\ x.role = "receiver" /\ r.awaiting /\ d = s.mode
      /\ r.state = (IF h.type = "BlockEOF" THEN "AwaitingEOFAck" ELSE "InProgress")
      /\ x.bytes = Bytes(t) /\ s.length = r.length /\ Prepared(t) = Taken(t) + 1 /\ Taken(t) \in Nat
  <2>1. CleanMessage(e, h, d) /\ MessageOK(e, h) /\ CleanReceiver(e, d) /\ CleanEnd(e, d) /\ CleanEnd(p, d)
    BY <1>2, <1>3 DEF CleanFacts, CleanPair, Facts, p
  <2>2. /\ r.transfer = t /\ r.awaiting /\ x.bytes = Bytes(t) /\ (h.type = "Block" => r.state = "InProgress")
    BY <2>1 DEF CleanMessage, p
  <2>3. r.role = "sender" /\ Prepared(t) = Taken(t) + 1 /\ Taken(t) \in Nat /\ x.role = "receiver"
    BY <1>2, <2>1, Kinds DEF MessageOK, p, CleanStep
  <2>4. h.type = "BlockEOF" => r.state = "AwaitingEOFAck"
    BY <1>1, <2>1, <2>2 DEF MessageOK, p, CleanEnd
  <2> QED BY <2>1, <2>2, <2>3, <2>4 DEF CleanReceiver, CleanEnd, p, BlockType
<1>6. CleanEnd(e, d)' /\ CleanEnd(p, d)'
  BY <1>1, <1>2, <1>5 DEF CleanFacts, CleanPair, CleanEnd, p, Early
<1>7. CleanSender(e, d)' /\ CleanSender(p, d)'
  BY <1>1, <1>5 DEF CleanSender, p
<1>8. CleanReceiver(e, d)' /\ CleanReceiver(p, d)'
  <2>1. Pending(x) = 1
    BY DEF Pending
  <2> QED BY <1>1, <1>5, <2>1 DEF CleanReceiver, p
<1>9. ASSUME NEW m \in Under(e)' PROVE CleanMessage(e, m, d)'
  <2>1. m \in Under(e) /\ CleanMessage(e, m, d) /\ MessageOK(e, m) /\ Follows(h, m)
    BY <1>2, <1>3 DEF CleanFacts, CleanPair, Facts
  <2>2. m.transfer = t => m.type \notin BlockType \cup {"Accept", "Query", "Ack"}
    BY <1>5, <2>1 DEF MessageOK, Follows, p, AnswerType, AckType
  <2> QED BY <1>1, <1>5, <2>1, <2>2 DEF CleanMessage, p
<1>10. ASSUME NEW m \in Under(p)' PROVE CleanMessage(p, m, d)'
  <2>1. CleanMessage(p, m, d) /\ m \in Under(p) /\ MessageOK(p, m)
    BY <1>2, <1>4 DEF CleanFacts, CleanPair, p, Facts
  <2>2. m.type # "Init" /\ m.type \notin BlockType
    BY <1>1, <1>5, <2>1 DEF CleanMessage, MessageOK
  <2>3. m.transfer = t => m.type \notin {"Accept", "Query", "Ack"}
    <3>1. m.transfer = t => m.type # "Accept"
      BY <1>5, <2>1 DEF MessageOK
    <3>2. m.transfer = t => m.type # "Ack"
      BY <1>5, <2>1 DEF MessageOK, AckType
    <3>3. m.transfer = t => m.type # "Query"
      <4>1. m.transfer = t /\ m.type = "Query" => NextQuery(m) /\ OldQuery(m)
        BY <1>1, <1>5, <2>1 DEF CleanMessage, MessageOK
      <4> QED BY <1>2, <4>1, QueriesDiffer
    <3> QED BY <3>1, <3>2, <3>3
  <2> QED BY <1>1, <1>5, <2>1, <2>2, <2>3 DEF CleanMessage
<1>11. CleanPair(e, d)'
  BY <1>6, <1>7, <1>8, <1>9, <1>10 DEF CleanPair, p
<1>12. \A v \in Transfer : Prepared(v)' = 0 => Bytes(v)' = 0
  BY <1>1, <1>2 DEF CleanFacts
<1> QED BY <1>11, <1>12, CleanAgain DEF CleanStep

-----------------------------------------------------------------------------
(* The actions keep a clean transfer clean.                                *)

LEMMA StartTransferClean ==
    ASSUME IInv, NEW d, CleanOK(d), NEW e \in End, StartTransfer(e) PROVE CleanOK(d)'
<1> DEFINE s == sess[e]
           t == transfers + 1
<1>1. /\ e = "initiator" /\ s.state = "Uninitialized" /\ t \in Transfer
      /\ UNCHANGED <<plan, net, written, got>> /\ s \in Session
  BY Kinds DEF StartTransfer
<1>2. PICK len \in plan.lengths :
             sess' = [sess EXCEPT ![e] = PrepareOutgoingMessageEvent(
                        [s EXCEPT !.transfer = t, !.length = len,
                                  !.state = "AwaitingAccept", !.awaiting = TRUE],
                        [MessageOf([s EXCEPT !.transfer = t], "Init") EXCEPT
                            !.modes = s.opts, !.length = len])]
  BY DEF StartTransfer
<1> DEFINE z == [s EXCEPT !.transfer = t]
           i == MessageOf(z, "Init")
           m == [i EXCEPT !.modes = s.opts, !.length = len]
<1>3. z \in Session /\ z.transfer = t
  BY <1>1 DEF Session
<1>4. i \in Message /\ i.type = "Init" /\ i.transfer = t
  BY <1>3, MessageTypes
<1>5. PICK x : x = [s EXCEPT !.transfer = t, !.length = len, !.state = "AwaitingAccept", !.awaiting = TRUE,
                             !.out = "msg", !.msg = m]
  OBVIOUS
<1>6. sess' = [sess EXCEPT ![e] = x]
  BY <1>1, <1>2, <1>5 DEF PrepareOutgoingMessageEvent, Session
<1> HIDE DEF i
<1>7. m.type = "Init" /\ m.transfer = t /\ m.modes = s.opts /\ m.length = len
  BY <1>4 DEF Message
<1> HIDE DEF m, z
<1>8. /\ x.role = s.role /\ x.opts = s.opts /\ x.state = "AwaitingAccept" /\ x.transfer = t /\ x.length = len
      /\ x.out = "msg" /\ x.msg = m /\ x.bytes = s.bytes /\ x.lastQuery = s.lastQuery
  BY <1>1, <1>5 DEF Session
<1>9. CleanStep(e, x) /\ net' = net
  BY <1>1, <1>6, <1>8 DEF CleanStep
<1> QED BY <1>1, <1>7, <1>8, <1>9, RequestClean

LEMMA FreshActionsClean ==
    ASSUME IInv, NEW d, CleanOK(d), NEW e \in End, WaitForTransfer(e) \/ Reset(e) PROVE CleanOK(d)'
<1> DEFINE s == sess[e]
<1>1. s \in Session /\ EndOK(e) /\ CleanEnd(e, d)
  BY Kinds, CleanFactsHold DEF IInv, CleanFacts, CleanPair
<1>2. CASE WaitForTransfer(e)
  <2>1. PICK x : x = [s EXCEPT !.state = "AwaitingInit"]
    OBVIOUS
  <2>2. /\ s.state = "Uninitialized" /\ sess' = [sess EXCEPT ![e] = x] /\ UNCHANGED <<plan, net, written, got>>
    BY <1>2, <2>1 DEF WaitForTransfer, IInv, Typed
  <2>3. s.transfer = 0 /\ s.out = "none" /\ s.bytes = 0 /\ s.lastQuery = 0
    BY <1>1, <2>2 DEF EndOK, CleanEnd, Early
  <2>4. /\ x.role = s.role /\ x.opts = s.opts /\ x.state = "AwaitingInit" /\ x.transfer = 0 /\ x.out = "none"
        /\ x.bytes = 0 /\ x.lastQuery = 0
    BY <1>1, <2>1, <2>3 DEF Session
  <2>5. CleanStep(e, x) /\ net' = net
    BY <2>2, <2>4 DEF CleanStep
  <2> QED BY <2>2, <2>3, <2>4, <2>5, FreshClean
<1>3. CASE Reset(e)
  <2>1. PICK x : x = ResetSession(s)
    OBVIOUS
  <2>2. /\ sess' = [sess EXCEPT ![e] = x] /\ UNCHANGED <<plan, net, written, got>>
        /\ s.out = "none" /\ s.state = "Done"
    BY <1>1, <1>3, <2>1 DEF Reset, Finished, CleanEnd
  <2>3. /\ x.role = s.role /\ x.opts = s.opts /\ x.state = "Uninitialized" /\ x.transfer = 0 /\ x.out = "none"
        /\ x.bytes = 0 /\ x.lastQuery = 0
    BY <1>1, <2>1 DEF ResetSession, NewSession
  <2>4. CleanStep(e, x) /\ net' = net
    BY <2>2, <2>3 DEF CleanStep
  <2> QED BY <2>2, <2>3, <2>4, FreshClean
<1> QED BY <1>2, <1>3

LEMMA PrepareBlockQueryClean ==
    ASSUME IInv, NEW d, CleanOK(d), NEW e \in End, PrepareBlockQuery(e) PROVE CleanOK(d)'
<1> DEFINE s == sess[e]
           i == MessageOf(s, "Query")
           m == [i EXCEPT !.num = s.nextQuery]
<1>1. s \in Session
  BY Kinds
<1>2. i \in Message /\ i.type = "Query" /\ i.transfer = s.transfer
  BY <1>1, MessageTypes
<1>3. PICK x : x = [s EXCEPT !.awaiting = TRUE, !.lastQuery = s.nextQuery, !.nextQuery = Inc(@), !.unacked = FALSE,
                             !.out = "msg", !.msg = m]
  OBVIOUS
<1>4. /\ s.state = "InProgress" /\ s.role = "receiver" /\ s.out = "none" /\ ~s.awaiting /\ s.mode = "ReceiverDrive"
      /\ sess' = [sess EXCEPT ![e] = x] /\ UNCHANGED <<plan, net, written, got>>
  BY <1>1, <1>3 DEF PrepareBlockQuery, PrepareOutgoingMessageEvent, Session
<1> HIDE DEF i
<1>5. m.type = "Query" /\ m.transfer = s.transfer /\ m.num = s.nextQuery
  BY <1>2 DEF Message
<1> HIDE DEF m
<1>6. /\ x.role = s.role /\ x.opts = s.opts /\ x.state = "InProgress" /\ x.mode = s.mode /\ x.awaiting
      /\ x.out = "msg" /\ x.msg = m /\ x.transfer = s.transfer /\ x.length = s.length /\ x.bytes = s.bytes
      /\ x.lastQuery = s.nextQuery
  BY <1>1, <1>3, <1>4 DEF Session
<1>7. CleanStep(e, x) /\ net' = net
  BY <1>4, <1>6 DEF CleanStep
<1> QED BY <1>4, <1>5, <1>6, <1>7, AskClean

LEMMA PrepareBlockAckClean ==
    ASSUME IInv, NEW d, CleanOK(d), NEW e \in End, PrepareBlockAck(e) PROVE CleanOK(d)'
<1> DEFINE s == sess[e]
           type == IF s.state = "ReceivedEOF" THEN "AckEOF" ELSE "Ack"
           i == MessageOf(s, type)
           m == [i EXCEPT !.num = s.lastBlock]
           pr == PrepareOutgoingMessageEvent([s EXCEPT !.unacked = FALSE], m)
<1>1. s \in Session /\ EndOK(e) /\ ReceiverOK(e)
  BY Kinds DEF IInv
<1>2. i \in Message /\ i.type = type /\ i.transfer = s.transfer
  BY <1>1, MessageTypes
<1>3. PICK x : x = IF s.state = "ReceivedEOF"
                   THEN [pr EXCEPT !.state = "Done", !.awaiting = FALSE]
                   ELSE IF s.mode = "SenderDrive"
                   THEN [pr EXCEPT !.lastQuery = Inc(s.lastBlock), !.awaiting = TRUE]
                   ELSE pr
  OBVIOUS
<1>4. /\ s.role = "receiver" /\ s.state \in {"InProgress", "ReceivedEOF"} /\ s.out = "none" /\ s.unacked
      /\ sess' = [sess EXCEPT ![e] = x] /\ UNCHANGED <<plan, net, written, got>>
  BY <1>3 DEF PrepareBlockAck
<1>5. ~s.awaiting
  BY <1>1, <1>4 DEF EndOK, ReceiverOK, Agreed, Accepting
<1> HIDE DEF i
<1>6. m \in Message /\ m.type = type /\ m.transfer = s.transfer
  BY <1>1, <1>2 DEF Message, Session
<1> HIDE DEF m
<1>7. /\ pr \in Session /\ pr.role = s.role /\ pr.opts = s.opts /\ pr.state = s.state /\ pr.mode = s.mode
      /\ pr.awaiting = s.awaiting /\ pr.out = "msg" /\ pr.msg = m /\ pr.transfer = s.transfer
      /\ pr.length = s.length /\ pr.bytes = s.bytes
  BY <1>1, <1>6 DEF PrepareOutgoingMessageEvent, Session, Output
<1> HIDE DEF pr, type
<1>8. /\ x.role = s.role /\ x.opts = s.opts /\ x.mode = s.mode /\ x.out = "msg" /\ x.msg = m /\ x.transfer = s.transfer
      /\ x.length = s.length /\ x.bytes = s.bytes
  BY <1>3, <1>7 DEF Session
<1>9. /\ x.state = (IF s.state = "ReceivedEOF" THEN "Done" ELSE "InProgress")
      /\ x.awaiting <=> (x.state = "InProgress" /\ x.mode = "SenderDrive")
      /\ x.awaiting => x.lastQuery = Inc(s.lastBlock)
  <2>1. pr \in Session
    BY <1>7
  <2> QED BY <1>3, <1>4, <1>5, <1>7, <2>1 DEF Session
<1>10. CleanStep(e, x) /\ net' = net
  BY <1>4, <1>8 DEF CleanStep
<1> QED BY <1>4, <1>6, <1>8, <1>9, <1>10, AcknowledgeClean DEF type

LEMMA AcceptTransferClean ==
    ASSUME IInv, NEW d, CleanOK(d), NEW e \in End, AcceptTransfer(e) PROVE CleanOK(d)'
<1> DEFINE s == sess[e]
           i == MessageOf(s, "Accept")
<1>1. s \in Session /\ EndOK(e)
  BY Kinds DEF IInv
<1>2. i \in Message /\ i.type = "Accept" /\ i.transfer = s.transfer
  BY <1>1, MessageTypes
<1>3. /\ s.state = "Negotiate" /\ s.out = "none" /\ UNCHANGED <<plan, net, written, got>>
  BY DEF AcceptTransfer
<1>4. PICK mode \in s.proposed, len \in plan.lengths : sess' = [sess EXCEPT ![e] = Accepted(s, mode, len)]
  BY DEF AcceptTransfer
<1>5. PICK x : x = Accepted(s, mode, len)
  OBVIOUS
<1> DEFINE length == IF s.role = "sender" THEN len ELSE s.length
           drive == IF s.role = "receiver" THEN "SenderDrive" ELSE "ReceiverDrive"
           m == [i EXCEPT !.modes = {mode}, !.length = length]
           waits == s.awaiting \/ (s.mode = drive)
<1>6. x = [s EXCEPT !.state = "InProgress", !.length = length, !.awaiting = waits,
                    !.out = "msg", !.msg = m]
  BY <1>1, <1>5 DEF Accepted, PrepareOutgoingMessageEvent, Session
<1>7. s.role = "receiver" => length = s.length
  OBVIOUS
<1>8. waits \in BOOLEAN /\ (waits <=> s.awaiting \/ (s.mode = drive))
  OBVIOUS
<1> HIDE DEF i, length, waits, drive
<1>9. m.type = "Accept" /\ m.transfer = s.transfer /\ m.modes = {mode} /\ m.length = length
  BY <1>2 DEF Message
<1> HIDE DEF m
<1>10. /\ x.role = s.role /\ x.opts = s.opts /\ x.state = "InProgress" /\ x.mode = s.mode /\ x.awaiting = waits
       /\ x.out = "msg" /\ x.msg = m /\ x.transfer = s.transfer /\ x.length = length /\ x.bytes = s.bytes
       /\ x.lastQuery = s.lastQuery
  BY <1>1, <1>6 DEF Session
<1>11. ~s.awaiting
  BY <1>1, <1>3 DEF EndOK
<1>12. x.awaiting <=> (x.mode = IF x.role = "receiver" THEN "SenderDrive" ELSE "ReceiverDrive")
  BY <1>8, <1>10, <1>11 DEF drive
<1>13. CleanStep(e, x) /\ net' = net
  BY <1>3, <1>4, <1>5, <1>10 DEF CleanStep
<1>14. \E c \in s.proposed : x.msg.modes = {c}
  BY <1>4, <1>9, <1>10
<1> QED BY <1>3, <1>7, <1>9, <1>10, <1>12, <1>13, <1>14, GrantClean

LEMMA PrepareBlockClean ==
    ASSUME IInv, NEW d, CleanOK(d), NEW e \in End, PrepareBlock(e), clean' PROVE CleanOK(d)'
<1> DEFINE s == sess[e]
           w == written[s.transfer]
<1>1. s \in Session /\ EndOK(e)
  BY Kinds DEF IInv
<1>2. /\ s.state = "InProgress" /\ s.role = "sender" /\ s.out = "none" /\ ~s.awaiting
      /\ UNCHANGED <<plan, net, got>>
  BY DEF PrepareBlock
<1>3. PICK bytes \in {0, 1}, eof \in BOOLEAN :
             /\ sess' = [sess EXCEPT ![e] = PrepareOutgoingMessageEvent(
                          [s EXCEPT !.awaiting = TRUE, !.lastBlock = s.nextBlock,
                                    !.nextBlock = Inc(@),
                                    !.state = IF eof THEN StateAfterEOF ELSE @],
                          [MessageOf(s, IF eof THEN "BlockEOF" ELSE "Block") EXCEPT
                              !.num = s.nextBlock, !.bytes = bytes,
                              !.data = <<s.transfer, w.blocks + 1>>])]
             /\ written' = [written EXCEPT ![s.transfer] =
                              [blocks |-> w.blocks + 1, bytes |-> w.bytes + bytes]]
             /\ clean' = (clean /\ (eof \/ (bytes = 1 /\ (s.length > 0 => w.bytes < s.length))))
  BY DEF PrepareBlock
<1>4. s.transfer # 0 /\ s.transfer \in Transfer
  BY <1>1, <1>2, Kinds DEF EndOK, Agreed
<1>5. w \in [blocks : Nat, bytes : Nat] /\ w.blocks = Prepared(s.transfer) /\ w.bytes = Bytes(s.transfer)
  BY <1>4 DEF IInv, Typed, Prepared, Bytes
<1> HIDE DEF w
<1>6. PICK v : v = [blocks |-> w.blocks + 1, bytes |-> w.bytes + bytes]
  OBVIOUS
<1>7. /\ v \in [blocks : Nat, bytes : Nat] /\ v.blocks = Prepared(s.transfer) + 1
      /\ v.bytes = Bytes(s.transfer) + bytes
  BY <1>5, <1>6
<1> DEFINE type == IF eof THEN "BlockEOF" ELSE "Block"
           i == MessageOf(s, type)
           m == [i EXCEPT !.num = s.nextBlock, !.bytes = bytes, !.data = <<s.transfer, w.blocks + 1>>]
           state == IF eof THEN "AwaitingEOFAck" ELSE "InProgress"
<1>8. i \in Message /\ i.type = type /\ i.transfer = s.transfer
  BY <1>1, MessageTypes
<1>9. PICK x : x = [s EXCEPT !.awaiting = TRUE, !.lastBlock = s.nextBlock, !.nextBlock = Inc(@),
                             !.state = state, !.out = "msg", !.msg = m]
  OBVIOUS
<1>10. sess' = [sess EXCEPT ![e] = x]
  BY <1>1, <1>2, <1>3, <1>9 DEF PrepareOutgoingMessageEvent, StateAfterEOF, Session
<1> HIDE DEF i, state
<1>11. m.type = type /\ m.transfer = s.transfer /\ m.bytes = bytes
  BY <1>8 DEF Message
<1> HIDE DEF m
<1>12. /\ x.role = "sender" /\ x.opts = s.opts /\ x.mode = s.mode /\ x.awaiting /\ x.out = "msg" /\ x.msg = m
       /\ x.transfer = s.transfer /\ x.length = s.length /\ x.state = state
  BY <1>1, <1>2, <1>9 DEF Session
<1>13. m.type \in BlockType /\ x.state = (IF m.type = "BlockEOF" THEN "AwaitingEOFAck" ELSE "InProgress")
  BY <1>11, <1>12 DEF BlockType, state
<1>14. \/ m.type = "BlockEOF"
       \/ bytes = 1 /\ (s.length > 0 => Bytes(s.transfer) < s.length)
  BY <1>3, <1>5, <1>11
<1>15. written' = [written EXCEPT ![s.transfer] = v]
  BY <1>3, <1>6
<1>16. PICK t : t = s.transfer
  OBVIOUS
<1> QED BY <1>2, <1>7, <1>10, <1>11, <1>12, <1>13, <1>14, <1>15, <1>16, SendBlockClean

LEMMA PollOutputClean ==
    ASSUME IInv, NEW d, CleanOK(d), NEW e \in End, PollOutput(e) PROVE CleanOK(d)'
<1> DEFINE s == sess[e]
           p == Peer(e)
<1>1. PICK x : x = Polled(s)
  OBVIOUS
<1>2. /\ sess' = [sess EXCEPT ![e] = x] /\ UNCHANGED <<plan, written>>
      /\ net' = IF s.out = "msg" /\ s.transfer # 0
                  THEN [net EXCEPT ![p] = Append(@, s.msg)] ELSE net
      /\ got' = IF s.out = "block" THEN [got EXCEPT ![s.transfer] = Append(@, s.msg.data)]
                                     ELSE got
  BY <1>1 DEF PollOutput
<1>3. s \in Session
  BY Kinds
<1> DEFINE ex == s.expired /\ ~s.initStart /\ s.out # "msg"
           un == s.unacked \/ s.out = "block"
<1>4. x = [s EXCEPT !.out = "none", !.msg = NoMessage, !.initStart = FALSE, !.expired = ex, !.unacked = un]
  BY <1>1, <1>3 DEF Polled, Session
<1> HIDE DEF ex, un
<1>5. /\ x.role = s.role /\ x.opts = s.opts /\ x.state = s.state /\ x.mode = s.mode /\ x.proposed = s.proposed
      /\ x.awaiting = s.awaiting /\ x.length = s.length /\ x.bytes = s.bytes /\ x.lastQuery = s.lastQuery
      /\ x.transfer = s.transfer /\ x.out = "none"
  BY <1>3, <1>4 DEF Session
<1>6. CASE s.out = "block"
  <2>1. PICK t : t = s.transfer
    OBVIOUS
  <2>2. /\ sess' = [sess EXCEPT ![e] = x] /\ UNCHANGED <<plan, net, written>>
        /\ got' = [got EXCEPT ![t] = Append(@, s.msg.data)]
    BY <1>2, <1>6, <2>1
  <2> QED BY <1>5, <1>6, <2>1, <2>2, TakeBlockClean
<1>7. CASE s.out # "block"
  <2>1. CleanAlike(s, x) /\ CleanStep(e, x)
    BY <1>2, <1>5, <1>7 DEF CleanAlike, CleanStep
  <2>2. p \in End /\ p # e /\ Peer(p) = e
    BY PeerEnd
  <2>3. sess'[e] = x /\ sess'[p] = sess[p] /\ net'[e] = net[e]
        /\ net'[p] = IF s.out = "msg" /\ s.transfer # 0 THEN Append(net[p], s.msg) ELSE net[p]
    BY <1>2, <2>2 DEF IInv, Typed
  <2>4. Flight(e)' = Flight(e) /\ Flight(p)' = Flight(p)
    BY <1>5, <2>2, <2>3 DEF Flight, FlightOf
  <2>5. Under(e)' = Under(e) /\ Under(p)' = Under(p) /\ AcceptsKept(e) /\ AcceptsKept(p)
    BY <2>4, FlightKept
  <2> QED BY <2>1, <2>5, AlikeClean
<1> QED BY <1>6, <1>7

\* Time passes, or nothing happens.
LEMMA ExpireClean ==
    ASSUME IInv, NEW d, CleanOK(d), NEW e \in End, Expire(e) \/ UNCHANGED vars PROVE CleanOK(d)'
<1> DEFINE s == sess[e]
           p == Peer(e)
<1>1. PICK x : x = IF Expire(e) THEN [s EXCEPT !.expired = TRUE] ELSE s
  OBVIOUS
<1>2. s \in Session /\ sess \in [End -> Session]
  BY Kinds DEF IInv, Typed
<1>3. /\ sess' = [sess EXCEPT ![e] = x] /\ UNCHANGED <<plan, net, written, got>>
  BY <1>1, <1>2 DEF Expire, vars
<1>4. CleanAlike(s, x) /\ x.out = s.out /\ x.msg = s.msg /\ x.transfer = s.transfer
      /\ x.role = s.role /\ x.opts = s.opts
  BY <1>1, <1>2 DEF Session, CleanAlike
<1>5. CleanStep(e, x)
  BY <1>3, <1>4 DEF CleanStep
<1>6. Flight(p)' = Flight(p) /\ Flight(e)' = Flight(e)
  BY <1>2, <1>3, <1>4, PeerEnd DEF Flight, FlightOf
<1>7. Under(e)' = Under(e) /\ Under(p)' = Under(p) /\ AcceptsKept(e) /\ AcceptsKept(p)
  BY <1>6, FlightKept
<1> QED BY <1>4, <1>5, <1>7, AlikeClean

\* What the handlers make of messages that they do not refuse.
LEMMA HandledRequest ==
    ASSUME NEW s \in Session, NEW m, NEW ok, NEW d, NEW y, y = HandleBdxMessage(s, m, ok),
           m.type = "Init", s.state = "AwaitingInit", m.role # s.role, m.modes = {d}, d \in s.opts
    PROVE  /\ y.role = s.role /\ y.opts = s.opts /\ y.state = "Negotiate" /\ y.mode = d /\ y.proposed = m.modes
           /\ y.length = m.length /\ y.transfer = m.transfer /\ y.bytes = s.bytes /\ y.lastQuery = s.lastQuery
           /\ y.out = "init"
<1>1. m.modes \cap s.opts = {d} /\ {d} # {}
  OBVIOUS
<1>2. Cardinality({d}) = 1
  BY FS_Singleton
<1>3. (CHOOSE c \in {d} : TRUE) = d
  OBVIOUS
<1>4. ResolveTransferControlOptions(s, m.modes, ok) = [s EXCEPT !.mode = d]
  BY <1>1, <1>2, <1>3 DEF ResolveTransferControlOptions
<1>5. PICK z : z = [s EXCEPT !.mode = d]
  OBVIOUS
<1>6. y = [[z EXCEPT !.proposed = m.modes, !.length = m.length, !.transfer = m.transfer,
                     !.out = "init", !.state = "Negotiate"] EXCEPT !.expired = FALSE]
  BY <1>4, <1>5 DEF HandleBdxMessage, HandleTransferInit
<1>7. /\ DOMAIN z = DOMAIN s /\ z.mode = d /\ z.role = s.role /\ z.opts = s.opts /\ z.bytes = s.bytes
      /\ z.lastQuery = s.lastQuery
  BY <1>5 DEF Session
<1>8. DOMAIN s = {"state", "role", "opts", "mode", "proposed", "out", "msg", "awaiting", "expired", "initStart",
                  "length", "bytes", "lastBlock", "nextBlock", "lastQuery", "nextQuery", "transfer", "unacked"}
  BY DEF Session
<1> QED BY <1>6, <1>7, <1>8

LEMMA HandledAccept ==
    ASSUME NEW s \in Session, NEW m, NEW ok, NEW d, NEW y, y = HandleBdxMessage(s, m, ok),
           m.type = "Accept", s.state = "AwaitingAccept", m.role # s.role, m.modes = {d}, s.opts = {d}
    PROVE  TookAccept(s, m, d, y)
<1>1. VerifyProposedMode(s, m.modes)
  BY FS_Singleton DEF VerifyProposedMode
<1>2. (CHOOSE c \in m.modes : TRUE) = d
  OBVIOUS
<1> DEFINE length == IF s.role = "receiver" THEN m.length ELSE s.length
           waits == (d = IF s.role = "receiver" THEN "SenderDrive" ELSE "ReceiverDrive")
<1>3. HandleAccept(s, m, ok) = [s EXCEPT !.mode = d, !.state = "InProgress", !.out = "accept", !.length = length,
                                        !.awaiting = waits]
  BY <1>1, <1>2 DEF HandleAccept, Session
<1>4. y = [HandleAccept(s, m, ok) EXCEPT !.expired = FALSE]
  BY DEF HandleBdxMessage
<1>5. PICK l, b : l = length /\ b = waits
  OBVIOUS
<1> HIDE DEF length, waits
<1>6. y = [s EXCEPT !.mode = d, !.state = "InProgress", !.out = "accept", !.length = l,
                    !.awaiting = b, !.expired = FALSE]
  BY <1>3, <1>4, <1>5 DEF Session
<1>7. /\ y.role = s.role /\ y.opts = s.opts /\ y.state = "InProgress" /\ y.mode = d /\ y.out = "accept"
      /\ y.length = l /\ y.awaiting = b /\ y.transfer = s.transfer /\ y.bytes = s.bytes /\ y.lastQuery = s.lastQuery
  BY <1>6 DEF Session
<1> QED BY <1>5, <1>7 DEF length, waits, TookAccept

LEMMA HandledAnswer ==
    ASSUME NEW s \in Session, NEW m, NEW ok, NEW y, y = HandleBdxMessage(s, m, ok),
           m.type \in {"Query", "Ack"}, s.state = "InProgress", s.role = "sender", s.awaiting,
           m.type = "Query" => m.num = s.nextBlock, m.type = "Ack" => m.num = s.lastBlock
    PROVE  /\ y.role = s.role /\ y.opts = s.opts /\ y.state = "InProgress" /\ y.mode = s.mode
           /\ y.proposed = s.proposed /\ y.transfer = s.transfer /\ y.length = s.length /\ y.bytes = s.bytes
           /\ y.out \in {"query", "ack"}
           /\ m.type = "Query" => ~y.awaiting
           /\ m.type = "Ack" => (y.awaiting <=> s.mode = "ReceiverDrive") /\ y.lastQuery = s.lastQuery
<1>1. CASE m.type = "Query"
  <2>1. y = [[s EXCEPT !.out = "query", !.awaiting = FALSE, !.lastQuery = m.num] EXCEPT !.expired = FALSE]
    BY <1>1 DEF HandleBdxMessage, HandleBlockQuery
  <2> QED BY <1>1, <2>1 DEF Session
<1>2. CASE m.type = "Ack"
  <2>1. PICK b : b = (s.mode = "ReceiverDrive")
    OBVIOUS
  <2>2. y = [[s EXCEPT !.out = "ack", !.awaiting = b] EXCEPT !.expired = FALSE]
    BY <1>2, <2>1 DEF HandleBdxMessage, HandleBlockAck
  <2>3. /\ y.role = s.role /\ y.opts = s.opts /\ y.state = "InProgress" /\ y.mode = s.mode /\ y.proposed = s.proposed
        /\ y.transfer = s.transfer /\ y.length = s.length /\ y.bytes = s.bytes /\ y.out = "ack" /\ y.awaiting = b
        /\ y.lastQuery = s.lastQuery
    BY <2>2 DEF Session
  <2> QED BY <1>2, <2>1, <2>3
<1> QED BY <1>1, <1>2

LEMMA HandledLastAck ==
    ASSUME NEW s \in Session, NEW m, NEW ok, NEW y, y = HandleBdxMessage(s, m, ok),
           m.type = "AckEOF", s.state = "AwaitingEOFAck", s.role = "sender", s.awaiting, m.num = s.lastBlock
    PROVE  y.role = s.role /\ y.opts = s.opts /\ y.state = "Done" /\ y.out = "ackEof" /\ y.transfer = s.transfer
<1>1. y = [[s EXCEPT !.out = "ackEof", !.awaiting = FALSE, !.state = "Done"] EXCEPT !.expired = FALSE]
  BY DEF HandleBdxMessage, HandleBlockAckEOF
<1> QED BY <1>1 DEF Session

LEMMA HandledBlock ==
    ASSUME NEW s \in Session, NEW m, NEW ok, NEW y, y = HandleBdxMessage(s, m, ok),
           m.type \in BlockType, s.state = "InProgress", s.role = "receiver", s.awaiting, m.num = s.lastQuery,
           m.type = "Block" => m.bytes = 1 /\ ~(s.length > 0 /\ s.bytes + m.bytes > s.length)
    PROVE  /\ y.role = s.role /\ y.opts = s.opts /\ y.mode = s.mode /\ y.out = "block" /\ ~y.awaiting
           /\ y.state = (IF m.type = "BlockEOF" THEN "ReceivedEOF" ELSE "InProgress")
           /\ y.transfer = s.transfer /\ y.length = s.length /\ y.bytes = s.bytes + m.bytes
<1>1. PICK k : k = s.bytes + m.bytes
  OBVIOUS
<1>2. TakeBlock(s, m) = [s EXCEPT !.out = "block", !.msg = m, !.bytes = k, !.lastBlock = m.num, !.awaiting = FALSE]
  BY <1>1 DEF TakeBlock, Session
<1>3. PICK z : z = TakeBlock(s, m)
  OBVIOUS
<1>4. /\ z.role = s.role /\ z.opts = s.opts /\ z.mode = s.mode /\ z.out = "block" /\ ~z.awaiting /\ z.state = s.state
      /\ z.transfer = s.transfer /\ z.length = s.length /\ z.bytes = k /\ DOMAIN z = DOMAIN s
  BY <1>2, <1>3 DEF Session
<1>5. DOMAIN s = {"state", "role", "opts", "mode", "proposed", "out", "msg", "awaiting", "expired", "initStart",
                  "length", "bytes", "lastBlock", "nextBlock", "lastQuery", "nextQuery", "transfer", "unacked"}
  BY DEF Session
<1>6. BlockExpected(s, m)
  BY DEF BlockExpected
<1>7. CASE m.type = "Block"
  <2>1. m.bytes # 0 /\ ~(s.length > 0 /\ s.bytes + m.bytes > s.length)
    BY <1>7
  <2>2. HandleBlock(s, m, ok) = z
    BY <1>3, <1>6, <2>1 DEF HandleBlock
  <2>3. y = [HandleBlock(s, m, ok) EXCEPT !.expired = FALSE]
    BY <1>7 DEF HandleBdxMessage
  <2>4. y = [z EXCEPT !.expired = FALSE]
    BY <2>2, <2>3
  <2> QED BY <1>1, <1>4, <1>5, <1>7, <2>4
<1>8. CASE m.type = "BlockEOF"
  <2>1. y = [[z EXCEPT !.state = "ReceivedEOF"] EXCEPT !.expired = FALSE]
    BY <1>3, <1>6, <1>8 DEF HandleBdxMessage, HandleBlockEOF
  <2> QED BY <1>1, <1>4, <1>5, <1>8, <2>1
<1> QED BY <1>7, <1>8 DEF BlockType

\* The first message under way to end e has not been answered before it came.
LEMMA FirstMessage ==
    ASSUME IInv, NEW e \in End, net[e] # << >>, NEW h, h = Head(net[e])
    PROVE  /\ h \in Message /\ h \in Under(e)
           /\ AfterAccept(e, h) => Follows(h, h)
<1> DEFINE p == Peer(e)
<1>1. net[e] \in Seq(Message) /\ sess[p] \in Session
  BY Kinds, PeerEnd
<1>2. PICK q, r : q = net[e] /\ r = sess[p]
  OBVIOUS
<1>3. q \in Seq(Message) /\ q # << >> /\ h = Head(q) /\ r.msg \in Message
  BY <1>1, <1>2 DEF Session
<1>4. PICK f : f = FlightOf(q, r)
  OBVIOUS
<1>5. f \in Seq(Message) /\ f # << >> /\ Head(f) = h
  <2>1. CASE r.out = "msg" /\ r.transfer # 0
    <3>1. f = Append(q, r.msg)
      BY <1>4, <2>1 DEF FlightOf
    <3>2. Append(q, r.msg) \in Seq(Message) /\ Append(q, r.msg) # << >> /\ Head(Append(q, r.msg)) = Head(q)
      BY <1>3
    <3> QED BY <1>3, <3>1, <3>2
  <2>2. CASE ~(r.out = "msg" /\ r.transfer # 0)
    BY <1>3, <1>4, <2>2 DEF FlightOf
  <2> QED BY <2>1, <2>2
<1>6. Flight(e) = f
  BY <1>2, <1>4 DEF Flight
<1>7. h \in In(f) /\ (AcceptBefore(f, h) => Precedes(f, h, h))
  BY <1>5, InTail, TailAccepts
<1>8. \A a, b : Precedes(f, a, b) => Follows(a, b)
  BY <1>6, FactsHold DEF Facts
<1>9. h \in Message
  BY <1>3
<1> QED BY <1>6, <1>7, <1>8, <1>9 DEF Under, AfterAccept

\* Session s will not refuse message h.
Awaited(s, h, d) ==
    /\ h.type # "Status"
    /\ h.type = "Init" => h.role # s.role /\ h.modes = {d} /\ d \in s.opts
    /\ h.type = "Accept" => s.state = "AwaitingAccept" /\ h.role # s.role /\ h.modes = {d} /\ s.opts = {d}
    /\ h.type = "Query" => s.state = "InProgress" /\ s.role = "sender" /\ s.awaiting /\ h.num = s.nextBlock
    /\ h.type = "Ack" => s.state = "InProgress" /\ s.role = "sender" /\ s.awaiting /\ h.num = s.lastBlock
    /\ h.type = "AckEOF" =>
          s.state = "AwaitingEOFAck" /\ s.role = "sender" /\ s.awaiting /\ h.num = s.lastBlock
    /\ h.type \in BlockType =>
          s.state = "InProgress" /\ s.role = "receiver" /\ s.awaiting /\ h.num = s.lastQuery
    /\ h.type = "Block" => h.bytes = 1 /\ ~(s.length > 0 /\ s.bytes + h.bytes > s.length)

\* The first message under way to end e is one that e expects.
LEMMA Expected ==
    ASSUME IInv, NEW d \in Mode, CleanOK(d), NEW e \in End, net[e] # << >>, NEW h, h = Head(net[e]),
           NEW s, s = sess[e], h.type # "Init" => h.transfer = s.transfer
    PROVE  Awaited(s, h, d)
<1> DEFINE p == Peer(e)
           r == sess[p]
           t == h.transfer
<1>1. CleanFacts(e, d) /\ s \in Session /\ h \in Message /\ (AfterAccept(e, h) => Follows(h, h))
  BY CleanFactsHold, Kinds, FirstMessage
<1>2. CleanMessage(e, h, d) /\ MessageOK(e, h) /\ CleanEnd(e, d) /\ EndOK(e) /\ SenderOK(e)
  BY <1>1, FirstMessage DEF CleanFacts, CleanPair, Facts
<1>3. t \in Nat \ {0} /\ h.role # s.role /\ s.role \in {"sender", "receiver"} /\ r.role # s.role
      /\ t \in Transfer
  <2>1. t \in Transfer \cup {0} /\ t \in 1 .. transfers /\ h.role = r.role
    BY <1>1, <1>2 DEF Message, MessageOK
  <2> QED BY <1>1, <2>1, Kinds DEF CleanFacts
<1>4. s.state # "Error" /\ h.type # "Status"
  BY <1>2 DEF CleanEnd, CleanMessage
<1>5. ASSUME h.type = "Init" PROVE h.modes = {d} /\ d \in s.opts
  BY <1>2, <1>5 DEF CleanMessage, MessageOK, CleanOK
<1>6. ASSUME h.type = "Accept" PROVE s.state = "AwaitingAccept" /\ h.modes = {d} /\ s.opts = {d}
  BY <1>2, <1>4, <1>6 DEF CleanMessage, MessageOK, CleanOK
<1>7. ASSUME h.type = "Query"
      PROVE  s.state = "InProgress" /\ s.role = "sender" /\ s.awaiting /\ h.num = s.nextBlock
  <2>1. Ready(e, h) /\ NextQuery(h)
    BY <1>2, <1>7 DEF CleanMessage
  <2>2. s.state = "InProgress" /\ s.awaiting
    BY <1>1, <1>7, <2>1 DEF Ready, Follows, AnswerType
  <2>3. s.role = "sender"
    BY <1>2, <1>3, <1>7 DEF MessageOK, AnswerType
  <2>4. s.nextBlock = NextNum(t)
    BY <1>2, <1>3, <1>7, <2>2, <2>3 DEF SenderOK
  <2> QED BY <2>1, <2>2, <2>3, <2>4 DEF NextQuery
<1>8. ASSUME h.type \in AckType
      PROVE  /\ s.role = "sender" /\ s.awaiting /\ h.num = s.lastBlock
             /\ s.state = (IF h.type = "Ack" THEN "InProgress" ELSE "AwaitingEOFAck")
  <2>1. s.role = "sender" /\ Prepared(t) > 0 /\ h.num = LastNum(t)
    BY <1>2, <1>3, <1>8 DEF MessageOK, AnswerType
  <2>2. s.awaiting /\ s.state = (IF h.type = "Ack" THEN "InProgress" ELSE "AwaitingEOFAck")
    BY <1>2, <1>4, <1>8 DEF CleanMessage, MessageOK, AckType, CleanEnd
  <2>3. s.lastBlock = LastNum(t)
    BY <1>2, <1>3, <1>8, <2>1, <2>2 DEF SenderOK, AckType
  <2> QED BY <2>1, <2>2, <2>3
<1>9. ASSUME h.type \in BlockType
      PROVE  /\ s.state = "InProgress" /\ s.role = "receiver" /\ s.awaiting /\ h.num = s.lastQuery
             /\ h.type = "Block" => h.bytes = 1 /\ ~(s.length > 0 /\ s.bytes + h.bytes > s.length)
  <2>1. /\ Ready(e, h) /\ s.bytes + h.bytes = Bytes(t)
        /\ h.type = "Block" => h.bytes = 1 /\ (r.length > 0 => Bytes(t) <= r.length)
    BY <1>2, <1>9 DEF CleanMessage, BlockType
  <2>2. s.role = "receiver" /\ Prepared(t) = Taken(t) + 1 /\ h.num = LastNum(t)
    BY <1>2, <1>3, <1>9 DEF MessageOK
  <2>3. s.state = "InProgress" /\ s.awaiting
    BY <1>1, <1>9, <2>1 DEF Ready, Follows, BlockType
  <2>4. s.lastQuery = Taken(t) % CounterMod /\ s.length = r.length
    BY <1>1, <1>9, <2>2, <2>3 DEF CleanFacts, CleanPair, CleanReceiver, BlockType
  <2>5. Prepared(t) - 1 = Taken(t)
    BY <1>3, <2>2, Kinds
  <2>6. h.num = s.lastQuery
    BY <2>2, <2>4, <2>5 DEF LastNum
  <2>7. Bytes(t) \in Nat /\ s.length \in Int
    <3>1. s.length \in plan.lengths \cup {0} /\ plan.lengths \subseteq Nat
      BY <1>1, BdxAssumption DEF Session, IInv, Typed, Plan
    <3> QED BY <1>3, <3>1 DEF IInv, Typed, Bytes
  <2>8. h.type = "Block" => h.bytes = 1 /\ ~(s.length > 0 /\ s.bytes + h.bytes > s.length)
    BY <2>1, <2>4, <2>7
  <2> QED BY <2>2, <2>3, <2>6, <2>8
<1> QED BY <1>3, <1>4, <1>5, <1>6, <1>7, <1>8, <1>9 DEF AckType, BlockType, Awaited

\* A message that the session takes in.
LEMMA HandledClean ==
    ASSUME IInv, IInv', NEW d \in Mode, CleanOK(d), NEW e \in End, NEW ok \in BOOLEAN,
           net[e] # << >>, net' = [net EXCEPT ![e] = Tail(@)], UNCHANGED <<plan, written, got>>,
           NEW h, h = Head(net[e]), NEW s, s = sess[e], ForSession(s, h), s.out = "none",
           h.type = "Init" => s.state = "AwaitingInit",
           NEW x, x = HandleBdxMessage(s, h, ok), sess' = [sess EXCEPT ![e] = x]
    PROVE  CleanOK(d)'
<1>1. s = sess[e]
  OBVIOUS
<1>2. x = HandleBdxMessage(s, h, ok)
  OBVIOUS
<1>3. h.type # "Init" => h.transfer = s.transfer
  BY <1>1 DEF ForSession
<1>4. s \in Session /\ h \in Message /\ CleanEnd(e, d)
  BY <1>1, Kinds, FirstMessage, CleanFactsHold DEF CleanFacts, CleanPair
<1>5. h.type \in {"Init", "Accept", "Query", "Block", "BlockEOF", "Ack", "AckEOF"}
  <2>1. Awaited(s, h, d)
    BY <1>3, Expected
  <2> QED BY <1>4, <2>1 DEF Message, Awaited
<1>6. Became(s, h, x)
  BY <1>2, <1>4, <1>5, HandledTypes
<1>7. x \in Session /\ x.role = s.role
  BY <1>6 DEF Became
<1>8. Awaited(s, h, d)
  BY <1>3, Expected
<1>9. CASE h.type = "Init"
  <2>1. /\ x.role = s.role /\ x.opts = s.opts /\ x.state = "Negotiate" /\ x.mode = d /\ x.proposed = h.modes
        /\ x.length = h.length /\ x.transfer = h.transfer /\ x.bytes = s.bytes /\ x.lastQuery = s.lastQuery
        /\ x.out = "init"
    <3>1. h.role # s.role /\ h.modes = {d} /\ d \in s.opts
      BY <1>8, <1>9 DEF Awaited
    <3> QED BY <1>1, <1>2, <1>4, <1>9, <3>1, HandledRequest
  <2>2. CleanStep(e, x)
    BY <1>1, <2>1 DEF CleanStep
  <2> QED BY <1>1, <1>7, <1>9, <2>1, <2>2, RequestedClean
<1>10. CASE h.type = "Accept"
  <2>1. s.state = "AwaitingAccept" /\ h.role # s.role /\ h.modes = {d} /\ s.opts = {d}
    BY <1>8, <1>10 DEF Awaited
  <2>2. TookAccept(s, h, d, x)
    BY <1>2, <1>4, <1>10, <2>1, HandledAccept
  <2>3. /\ CleanStep(e, x) /\ h.transfer = sess[e].transfer /\ sess[e].state = "AwaitingAccept"
        /\ sess[e].out = "none" /\ TookAccept(sess[e], h, d, x)
    BY <1>1, <1>3, <1>10, <2>1, <2>2 DEF CleanStep, TookAccept
  <2> QED BY <1>7, <1>10, <2>3, AcceptedClean
<1>11. CASE h.type \in {"Query", "Ack"}
  <2>1. /\ s.state = "InProgress" /\ s.role = "sender" /\ s.awaiting
        /\ h.type = "Query" => h.num = s.nextBlock
        /\ h.type = "Ack" => h.num = s.lastBlock
    BY <1>8, <1>11 DEF Awaited
  <2>2. /\ x.role = s.role /\ x.opts = s.opts /\ x.state = "InProgress" /\ x.mode = s.mode
        /\ x.proposed = s.proposed /\ x.transfer = s.transfer /\ x.length = s.length /\ x.bytes = s.bytes
        /\ x.out \in {"query", "ack"}
        /\ h.type = "Query" => ~x.awaiting
        /\ h.type = "Ack" => (x.awaiting <=> s.mode = "ReceiverDrive") /\ x.lastQuery = s.lastQuery
    BY <1>2, <1>4, <1>11, <2>1, HandledAnswer
  <2>3. CleanStep(e, x) /\ s.mode = d /\ h.transfer = s.transfer
    BY <1>1, <1>3, <1>4, <1>11, <2>1, <2>2 DEF CleanStep, CleanEnd
  <2>4. CASE h.type = "Query" \/ d = "SenderDrive"
    <3>1. ~x.awaiting /\ (h.type = "Ack" => d = "SenderDrive") /\ x.out # "msg" /\ x.state = "InProgress"
      BY <1>11, <2>2, <2>3, <2>4
    <3>2. /\ h.transfer = sess[e].transfer /\ sess[e].state = "InProgress" /\ sess[e].role = "sender"
          /\ sess[e].awaiting /\ x.mode = sess[e].mode /\ x.transfer = sess[e].transfer /\ x.length = sess[e].length
      BY <1>1, <2>1, <2>2, <2>3
    <3> QED BY <1>7, <1>11, <2>3, <3>1, <3>2, AnsweredClean
  <2>5. CASE h.type = "Ack" /\ d = "ReceiverDrive"
    <3>1. x.awaiting = s.awaiting
      BY <1>4, <1>7, <2>1, <2>2, <2>3, <2>5 DEF Session
    <3>2. CleanAlike(s, x)
      BY <1>1, <2>1, <2>2, <2>5, <3>1 DEF CleanAlike
    <3>3. /\ Flight(Peer(e))' = Flight(Peer(e)) /\ Under(e)' \subseteq Under(e)
          /\ \A t : HasAccept(e, t) => HasAccept(e, t)' \/ (h.type = "Accept" /\ h.transfer = t)
          /\ \A m : AfterAccept(e, m) => AfterAccept(e, m)' \/ (h.type = "Accept" /\ h.transfer = m.transfer)
      <4>1. sess[e].out # "msg" /\ x.out # "msg"
        BY <2>2
      <4> QED BY <1>1, <1>7, <4>1, TookIn
    <3>4. AcceptsKept(e)
      BY <2>5, <3>3 DEF AcceptsKept
    <3>5. Under(Peer(e))' \subseteq Under(Peer(e)) /\ AcceptsKept(Peer(e))
      BY <3>3, FlightKept
    <3> QED BY <1>1, <2>3, <3>2, <3>3, <3>4, <3>5, AlikeClean
  <2> QED BY <1>11, <2>4, <2>5 DEF Mode
<1>12. CASE h.type = "AckEOF"
  <2>1. s.state = "AwaitingEOFAck" /\ s.role = "sender" /\ s.awaiting /\ h.num = s.lastBlock
    BY <1>8, <1>12 DEF Awaited
  <2>2. x.role = s.role /\ x.opts = s.opts /\ x.state = "Done" /\ x.out = "ackEof" /\ x.transfer = s.transfer
    BY <1>2, <1>4, <1>12, <2>1, HandledLastAck
  <2>3. CleanStep(e, x) /\ h.transfer = s.transfer
    BY <1>1, <1>3, <1>12, <2>2 DEF CleanStep
  <2>4. /\ sess[e].out = "none" /\ x.out # "msg" /\ h.transfer = sess[e].transfer
        /\ sess[e].state = "AwaitingEOFAck" /\ x.state = "Done" /\ x.transfer = sess[e].transfer
    BY <1>1, <2>1, <2>2, <2>3
  <2> QED BY <1>7, <1>12, <2>3, <2>4, CompletedClean
<1>13. CASE h.type \in BlockType
  <2>1. /\ s.state = "InProgress" /\ s.role = "receiver" /\ s.awaiting /\ h.num = s.lastQuery
        /\ h.type = "Block" => h.bytes = 1 /\ ~(s.length > 0 /\ s.bytes + h.bytes > s.length)
    BY <1>8, <1>13 DEF Awaited, BlockType
  <2>2. /\ x.role = s.role /\ x.opts = s.opts /\ x.mode = s.mode /\ x.out = "block" /\ ~x.awaiting
        /\ x.state = (IF h.type = "BlockEOF" THEN "ReceivedEOF" ELSE "InProgress")
        /\ x.transfer = s.transfer /\ x.length = s.length /\ x.bytes = s.bytes + h.bytes
    BY <1>2, <1>4, <1>13, <2>1, HandledBlock
  <2>3. CleanStep(e, x) /\ h.transfer = s.transfer
    BY <1>1, <1>3, <1>13, <2>2 DEF CleanStep, BlockType
  <2>4. /\ sess[e].out = "none" /\ h.transfer = sess[e].transfer /\ sess[e].state = "InProgress"
        /\ sess[e].role = "receiver" /\ sess[e].awaiting /\ x.mode = sess[e].mode /\ x.transfer = sess[e].transfer
        /\ x.length = sess[e].length /\ x.bytes = sess[e].bytes + h.bytes
    BY <1>1, <2>1, <2>2, <2>3
  <2> QED BY <1>7, <1>13, <2>2, <2>3, <2>4, BlockClean
<1> QED BY <1>5, <1>9, <1>10, <1>11, <1>12, <1>13 DEF BlockType

LEMMA HandleMessageReceivedClean ==
    ASSUME IInv, IInv', NEW d \in Mode, CleanOK(d), NEW e \in End, NEW ok \in BOOLEAN,
           HandleMessageReceived(e, ok), clean'
    PROVE  CleanOK(d)'
<1>1. PICK s : s = sess[e]
  OBVIOUS
<1>2. PICK h : h = Head(net[e])
  OBVIOUS
<1>3. net[e] # << >> /\ net' = [net EXCEPT ![e] = Tail(@)] /\ UNCHANGED <<plan, written, got>>
  BY DEF HandleMessageReceived
<1>4. \/ ~ForSession(s, h) /\ sess' = sess
      \/ ForSession(s, h) /\ h.type = "Status"
      \/ /\ ForSession(s, h) /\ s.out = "none" /\ (h.type = "Init" => s.state = "AwaitingInit")
         /\ sess' = [sess EXCEPT ![e] = HandleBdxMessage(s, h, ok)]
  BY <1>1, <1>2 DEF HandleMessageReceived
<1>5. s \in Session /\ sess \in [End -> Session]
  BY <1>1, Kinds DEF IInv, Typed
<1>6. CASE ~ForSession(s, h) /\ sess' = sess
  <2>1. sess' = [sess EXCEPT ![e] = s]
    BY <1>1, <1>5, <1>6
  <2>2. /\ Flight(Peer(e))' = Flight(Peer(e)) /\ Under(e)' \subseteq Under(e)
        /\ \A t : HasAccept(e, t) => HasAccept(e, t)' \/ (h.type = "Accept" /\ h.transfer = t)
        /\ \A m : AfterAccept(e, m) => AfterAccept(e, m)' \/ (h.type = "Accept" /\ h.transfer = m.transfer)
    BY <1>1, <1>2, <1>3, <1>5, <2>1, TookIn
  <2>3. h.transfer # s.transfer
    BY <1>6 DEF ForSession
  <2>4. AcceptsKept(e)
    BY <1>1, <2>2, <2>3 DEF AcceptsKept
  <2>5. Under(Peer(e))' \subseteq Under(Peer(e)) /\ AcceptsKept(Peer(e))
    BY <2>2, FlightKept
  <2>6. CleanStep(e, s) /\ CleanAlike(sess[e], s)
    BY <1>1, <1>3, <2>1 DEF CleanStep, CleanAlike
  <2> QED BY <2>2, <2>4, <2>5, <2>6, AlikeClean
<1>7. CASE ForSession(s, h) /\ h.type = "Status"
  <2>1. h.type # "Init" => h.transfer = s.transfer
    BY <1>7 DEF ForSession
  <2>2. Awaited(s, h, d)
    BY <1>1, <1>2, <1>3, <2>1, Expected
  <2> QED BY <1>7, <2>2 DEF Awaited
<1>8. CASE /\ ForSession(s, h) /\ s.out = "none" /\ (h.type = "Init" => s.state = "AwaitingInit")
           /\ sess' = [sess EXCEPT ![e] = HandleBdxMessage(s, h, ok)]
  <2>1. PICK x : x = HandleBdxMessage(s, h, ok)
    OBVIOUS
  <2> QED BY <1>1, <1>2, <1>3, <1>8, <2>1, HandledClean
<1> QED BY <1>4, <1>6, <1>7, <1>8

-----------------------------------------------------------------------------
(* No error without a reason.                                              *)

LEMMA InitCInv ==
    ASSUME \A o \in Offers : \E d \in Mode : o = {d}, Init
    PROVE  CInv
<1>1. PICK ri \in Role, rr \in Role, oi \in Offers, or \in Supports, mode \in Uninitialized :
         /\ sess = [e \in End |-> IF e = "initiator" THEN NewSession(ri, oi, mode) ELSE NewSession(rr, or, mode)]
         /\ clean = (ri # rr /\ oi \cap or # {})
  BY DEF Init
<1>2. PICK a : a = NewSession(ri, oi, mode)
  OBVIOUS
<1>3. PICK b : b = NewSession(rr, or, mode)
  OBVIOUS
<1>4. sess["initiator"] = a /\ sess["responder"] = b
  BY <1>1, <1>2, <1>3 DEF End
<1>5. a.state = "Uninitialized" /\ a.out = "none" /\ a.bytes = 0 /\ a.lastQuery = 0 /\ a.role = ri /\ a.opts = oi
  BY <1>2 DEF NewSession
<1>6. b.state = "Uninitialized" /\ b.out = "none" /\ b.bytes = 0 /\ b.lastQuery = 0 /\ b.role = rr /\ b.opts = or
  BY <1>3 DEF NewSession
<1>7. \A e \in End : /\ sess[e].state = "Uninitialized" /\ sess[e].out = "none"
                     /\ sess[e].bytes = 0 /\ sess[e].lastQuery = 0
  BY <1>4, <1>5, <1>6 DEF End
<1>8. PICK d \in Mode : oi = {d}
  OBVIOUS
<1>9. \A e \in End : Under(e) = {}
  <2>1. \A e \in End : Flight(e) = << >>
    BY <1>7, PeerEnd DEF Flight, FlightOf, Init
  <2>2. In(<< >>) = {}
    BY DEF In
  <2> QED BY <2>1, <2>2 DEF Under
<1>10. \A e \in End : CleanEnd(e, d) /\ CleanSender(e, d) /\ CleanReceiver(e, d)
  BY <1>7 DEF CleanEnd, CleanSender, CleanReceiver, Early
<1>11. "initiator" \in End /\ Peer("initiator") \in End
  BY DEF End, Peer
<1>12. CleanPair("initiator", d)
  BY <1>9, <1>10, <1>11 DEF CleanPair
<1>13. \A t \in Transfer : Prepared(t) = 0 => Bytes(t) = 0
  BY DEF Init, Bytes
<1>14. clean => oi = {d} /\ d \in or /\ ri # rr
  BY <1>1, <1>8
<1>15. clean => CleanOK(d)
  BY <1>4, <1>5, <1>6, <1>12, <1>13, <1>14 DEF CleanOK
<1> QED BY <1>15 DEF CInv

LEMMA NextCInv == ASSUME IInv, IInv', CInv, [Next]_vars PROVE CInv'
<1> SUFFICES ASSUME clean' PROVE \E d \in Mode : CleanOK(d)'
  BY DEF CInv
<1>1. CASE UNCHANGED vars
  <2>1. clean
    BY <1>1 DEF vars
  <2>2. PICK d \in Mode : CleanOK(d)
    BY <2>1 DEF CInv
  <2>3. "initiator" \in End
    BY DEF End
  <2>4. CleanOK(d)'
    BY <1>1, <2>2, <2>3, ExpireClean
  <2> QED BY <2>4
<1>2. ASSUME NEW e \in End,
             \/ StartTransfer(e) \/ WaitForTransfer(e) \/ Reset(e)
             \/ Answer(e) \/ Receive(e) \/ Poll(e) \/ Expire(e) \/ Lose(e)
             \/ \E ok \in Buffers : AbortTransfer(e, ok)
      PROVE  \E d \in Mode : CleanOK(d)'
  <2>1. Buffers \subseteq BOOLEAN
    BY DEF Buffers
  <2>2. ~Lose(e) /\ ~PollTimeout(e) /\ ~\E ok \in Buffers : AbortTransfer(e, ok)
    BY DEF Lose, PollTimeout, AbortTransfer
  <2>3. clean
    <3>1. CASE StartTransfer(e) \/ WaitForTransfer(e) \/ Reset(e) \/ Expire(e)
      BY <3>1 DEF StartTransfer, WaitForTransfer, Reset, Expire
    <3>2. CASE Answer(e)
      BY <3>2 DEF Answer, PrepareBlockQuery, PrepareBlockAck, PrepareBlock, AcceptTransfer
    <3>3. CASE Receive(e)
      BY <3>3 DEF Receive, HandleMessageReceived
    <3>4. CASE Poll(e)
      BY <2>2, <3>4 DEF Poll, PollOutput
    <3> QED BY <1>2, <2>2, <3>1, <3>2, <3>3, <3>4
  <2>4. PICK d \in Mode : CleanOK(d)
    BY <2>3 DEF CInv
  <2>5. CASE StartTransfer(e)
    BY <2>4, <2>5, StartTransferClean
  <2>6. CASE WaitForTransfer(e) \/ Reset(e)
    BY <2>4, <2>6, FreshActionsClean
  <2>7. CASE Answer(e)
    BY <2>4, <2>7, PrepareBlockQueryClean, PrepareBlockAckClean, PrepareBlockClean, AcceptTransferClean DEF Answer
  <2>8. CASE Receive(e)
    <3>1. PICK ok \in BOOLEAN : HandleMessageReceived(e, ok)
      BY <2>1, <2>8 DEF Receive
    <3> QED BY <2>4, <3>1, HandleMessageReceivedClean
  <2>9. CASE Poll(e)
    BY <2>2, <2>4, <2>9, PollOutputClean DEF Poll
  <2>10. CASE Expire(e)
    BY <2>4, <2>10, ExpireClean
  <2> QED BY <1>2, <2>2, <2>5, <2>6, <2>7, <2>8, <2>9, <2>10
<1> QED BY <1>1, <1>2 DEF Next

\* If the initiator offers one control mode, as TransferInitData::TransferCtlFlags
\* does, neither session fails by itself: as long as the responder supports that
\* mode and has the other role, no message is lost or handed over too early,
\* nothing times out, nobody aborts and the callers keep the terms of the transfer,
\* no handler prepares a status report (HandleTransferInit to HandleBlockAckEOF),
\* however many transfers follow each other by Reset and however often the block
\* counters wrap.
THEOREM NoErrorOfTheirOwn ==
    ASSUME \A o \in Offers : \E d \in Mode : o = {d}
    PROVE  SafetySpec => []NoSpuriousError
<1>1. Init => CInv
  BY InitCInv
<1>2. IInv /\ IInv' /\ CInv /\ [Next]_vars => CInv'
  BY NextCInv
<1>3. CInv => NoSpuriousError
  <2> SUFFICES ASSUME CInv, clean, NEW e \in End PROVE sess[e].state # "Error"
    BY DEF NoSpuriousError
  <2>1. PICK d \in Mode : CleanOK(d)
    BY DEF CInv
  <2>2. CleanPair(e, d)
    BY <2>1, CleanBoth DEF CleanOK
  <2> QED BY <2>2 DEF CleanPair, CleanEnd
<1> QED BY <1>1, <1>2, <1>3, InvariantHolds, PTL DEF SafetySpec
=============================================================================

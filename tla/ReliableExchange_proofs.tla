---------------------- MODULE ReliableExchange_proofs -----------------------
(***************************************************************************)
(* Proofs about ReliableExchange, for every number of messages and of      *)
(* retransmissions and with every fault.                                   *)
(*                                                                         *)
(* Why delivery is in order.  The network reorders at will and a sender    *)
(* may give a message up, so order is not the work of the retransmission   *)
(* table: an application sends only in answer to a message it was given,   *)
(* and the initiator once more to begin with (SentInTurn).  By the time a  *)
(* node sends its message k + 1, its first k have been delivered.          *)
(***************************************************************************)
EXTENDS ReliableExchange, SequenceTheorems, TLAPS

\* What a node may send without having been given a message.
Opening(n) == IF n = Initiator THEN 1 ELSE 0

\* A message of node n that has seen and next as its session's counters.
Genuine(n, m, seen, next) ==
    /\ m \in Msg
    /\ m.from = n
    /\ m.standalone => m.ctr = NoId
    /\ ~m.standalone => m.ctr \in 1 .. next - 1
    /\ m.ack # NoId => m.ack \in seen

\* Messages sent, and one that is promised, do not outnumber those received.
SentInTurn(n, s) ==
    s.next - 1 + (IF s.willSend THEN 1 ELSE 0) <= Len(s.got) + Opening(n)

\* What every handler keeps, also between two of its calls.
Sound(n, s) ==
    /\ s \in NodeState
    /\ s.ackId # NoId => s.ackId \in s.seen
    /\ s.entry # NoMsg => Genuine(n, s.entry, s.seen, s.next) /\ ~s.entry.standalone
    /\ \A m \in s.out : Genuine(n, m, s.seen, s.next)
    /\ \A i \in 1 .. Len(s.got) : s.got[i] = i /\ i \in s.seen
    /\ SentInTurn(n, s)
    /\ s.st = "none" => ~s.willSend /\ ~s.expects
    /\ s.st = "open" /\ ~s.delegate => ~s.willSend /\ ~s.expects
    /\ s.st = "closed" => ~s.delegate /\ ~s.expects /\ ~s.cut

\* Between two handlers nothing waits for nothing.
Settled(s) == s.st = "open" => s.delegate /\ (s.expects \/ s.willSend \/ s.cut)

IInv ==
    /\ TypeOK
    /\ \A n \in Node : Sound(n, node[n]) /\ Settled(node[n])
    /\ \A m \in net : \E n \in Node : Genuine(n, m, node[n].seen, node[n].next)
    /\ \A n \in Node : Len(node[n].got) <= node[Peer(n)].next - 1
    /\ AckedHasArrived

-----------------------------------------------------------------------------
(* Handlers: each keeps Sound, and leaves what its frame says.             *)

\* t comes from s without a message received or sent.
Frame(s, t) ==
    /\ t.seen = s.seen /\ t.got = s.got /\ t.acked = s.acked /\ t.next = s.next
    /\ t.ackId # NoId => t.ackId = s.ackId
    /\ t.expects => s.expects
    /\ t.willSend => s.willSend

\* The context goes on waiting for what it waited for.
Waits(s, t) ==
    /\ t.st = s.st /\ t.delegate = s.delegate
    /\ s.expects \/ s.willSend \/ s.cut => t.expects \/ t.willSend \/ t.cut

\* A standalone ack that is sent, refused or not sent: only a failure that ends
\* the wait for a response changes what the context waits for.
LEMMA SendStandaloneAckSound ==
    ASSUME NEW n \in Node, NEW s, Sound(n, s), s.ackId # NoId, NEW how \in AckOutcome
    PROVE  LET t == SendStandaloneAckMessage(n, s, how)
           IN  /\ Sound(n, t) /\ Frame(s, t) /\ Waits(s, t)
               /\ t.entry = s.entry /\ t.willSend = s.willSend
               /\ ~AckFails(how) => t.ackId = NoId
<1> DEFINE t == SendStandaloneAckMessage(n, s, how)
           Good == /\ Sound(n, t) /\ Frame(s, t) /\ Waits(s, t)
                   /\ t.entry = s.entry /\ t.willSend = s.willSend
                   /\ ~AckFails(how) => t.ackId = NoId
<1>1. s \in NodeState /\ MaxAckFaults \in Nat
  BY ExchangeAssumption DEF Sound
<1> DEFINE faults == IF s.faults < MaxAckFaults THEN s.faults + 1 ELSE s.faults
           a == [from |-> n, ctr |-> NoId, standalone |-> TRUE, ack |-> s.ackId]
<1>2. faults \in 0 .. MaxAckFaults
  BY <1>1 DEF NodeState
<1>3. Genuine(n, a, s.seen, s.next) /\ a \in Msg
  BY <1>1 DEF Genuine, Msg, Sound, NodeState, NoId
<1> HIDE DEF faults, a
<1>4. ASSUME how = "sent" PROVE Good
  <2>1. t = [s EXCEPT !.ackId = NoId, !.out = @ \cup {a}]
    BY <1>4 DEF SendStandaloneAckMessage, a
  <2> HIDE DEF t
  <2>2. t \in NodeState
    BY <1>1, <1>3, <2>1 DEF NodeState
  <2>3. /\ t.st = s.st /\ t.delegate = s.delegate /\ t.expects = s.expects
        /\ t.willSend = s.willSend /\ t.ackId = NoId /\ t.entry = s.entry
        /\ t.next = s.next /\ t.seen = s.seen /\ t.got = s.got /\ t.acked = s.acked
        /\ t.cut = s.cut /\ t.out = s.out \cup {a}
    BY <1>1, <2>1 DEF NodeState
  <2> QED BY <1>3, <2>2, <2>3 DEF Sound, SentInTurn, Frame, Waits
<1>5. ASSUME how = "noBuffer" PROVE Good
  <2>1. t = [s EXCEPT !.faults = faults]
    BY <1>1, <1>5 DEF SendStandaloneAckMessage, faults, NodeState
  <2> HIDE DEF t
  <2>2. t \in NodeState
    BY <1>1, <1>2, <2>1 DEF NodeState
  <2>3. /\ t.st = s.st /\ t.delegate = s.delegate /\ t.expects = s.expects
        /\ t.willSend = s.willSend /\ t.ackId = s.ackId /\ t.entry = s.entry
        /\ t.next = s.next /\ t.seen = s.seen /\ t.got = s.got /\ t.acked = s.acked
        /\ t.cut = s.cut /\ t.out = s.out
    BY <1>1, <2>1 DEF NodeState
  <2>4. AckFails(how)
    BY <1>5 DEF AckFails
  <2> QED BY <2>2, <2>3, <2>4 DEF Sound, SentInTurn, Frame, Waits
<1>6. ASSUME how \in {"refused", "error"} PROVE Good
  <2>1. t = [s EXCEPT !.ackId = NoId, !.expects = FALSE, !.cut = s.cut \/ s.expects,
                      !.faults = faults]
    BY <1>1, <1>6 DEF SendStandaloneAckMessage, faults, NodeState
  <2> HIDE DEF t
  <2>2. t \in NodeState
    BY <1>1, <1>2, <2>1 DEF NodeState
  <2>3. /\ t.st = s.st /\ t.delegate = s.delegate /\ t.expects = FALSE
        /\ t.willSend = s.willSend /\ t.ackId = NoId /\ t.entry = s.entry
        /\ t.next = s.next /\ t.seen = s.seen /\ t.got = s.got /\ t.acked = s.acked
        /\ t.cut = (s.cut \/ s.expects) /\ t.out = s.out
    BY <1>1, <2>1 DEF NodeState
  <2> QED BY <2>2, <2>3 DEF Sound, SentInTurn, Frame, Waits
<1> QED BY <1>4, <1>5, <1>6 DEF AckOutcome

\* Frame is transitive.
LEMMA FrameTrans == ASSUME NEW s, NEW t, NEW u, Frame(s, t), Frame(t, u) PROVE Frame(s, u)
BY DEF Frame

\* Flushing acks, with or without one pending.
LEMMA FlushAcksSound ==
    ASSUME NEW n \in Node, NEW s, Sound(n, s), NEW how \in AckOutcome
    PROVE  LET t == FlushAcks(n, s, how)
           IN  /\ Sound(n, t) /\ Frame(s, t) /\ Waits(s, t)
               /\ t.entry = s.entry /\ t.willSend = s.willSend
               /\ ~AckFails(how) => t.ackId = NoId
<1>1. CASE s.ackId = NoId
  BY <1>1 DEF FlushAcks, Frame, Waits
<1>2. CASE s.ackId # NoId
  BY <1>2, SendStandaloneAckSound DEF FlushAcks
<1> QED BY <1>1, <1>2

\* Closing: the delegate is gone and nothing is waited for.
LEMMA DoCloseSound ==
    ASSUME NEW n \in Node, NEW s, Sound(n, s), NEW how \in AckOutcome
    PROVE  LET t == DoClose(n, s, how)
           IN  /\ Sound(n, t) /\ Frame(s, t)
               /\ t.st = "closed" /\ t.entry = s.entry /\ t.willSend = s.willSend
<1> DEFINE c == [s EXCEPT !.st = "closed", !.delegate = FALSE, !.expects = FALSE, !.cut = FALSE]
<1>1. s \in NodeState
  BY DEF Sound
<1>2. c \in NodeState
  BY <1>1 DEF NodeState
<1>3. /\ c.st = "closed" /\ c.delegate = FALSE /\ c.expects = FALSE
      /\ c.willSend = s.willSend /\ c.ackId = s.ackId /\ c.entry = s.entry
      /\ c.next = s.next /\ c.seen = s.seen /\ c.got = s.got /\ c.acked = s.acked
      /\ c.cut = FALSE /\ c.out = s.out
  BY <1>1 DEF NodeState
<1>4. DoClose(n, s, how) = FlushAcks(n, c, how)
  BY DEF DoClose
<1> HIDE DEF c
<1>5. Sound(n, c) /\ Frame(s, c)
  BY <1>2, <1>3 DEF Sound, SentInTurn, Frame
<1> DEFINE t == FlushAcks(n, c, how)
<1>6. /\ Sound(n, t) /\ Frame(c, t) /\ Waits(c, t)
      /\ t.entry = c.entry /\ t.willSend = c.willSend
  BY <1>5, FlushAcksSound
<1> HIDE DEF t
<1>7. t.st = "closed" /\ t.entry = s.entry /\ t.willSend = s.willSend
  BY <1>3, <1>6 DEF Waits
<1>8. Frame(s, t)
  BY <1>5, <1>6, FrameTrans
<1> QED BY <1>4, <1>6, <1>7, <1>8 DEF t

\* Taking the message out of the retransmission table.
LEMMA ClearRetransTableSound ==
    ASSUME NEW n \in Node, NEW s, Sound(n, s)
    PROVE  LET t == ClearRetransTable(s)
           IN  Sound(n, t) /\ Frame(s, t) /\ Waits(s, t) /\ t.entry = NoMsg /\ t.ackId = s.ackId
<1> DEFINE t == ClearRetransTable(s)
<1>1. s \in NodeState /\ NoMsg \in Msg /\ 0 \in 0 .. MaxRetrans
  BY ExchangeAssumption DEF Sound, NoMsg, Msg, Node
<1>2. t \in NodeState
  BY <1>1 DEF NodeState, ClearRetransTable
<1>3. /\ t.st = s.st /\ t.delegate = s.delegate /\ t.expects = s.expects
      /\ t.willSend = s.willSend /\ t.ackId = s.ackId /\ t.entry = NoMsg
      /\ t.next = s.next /\ t.seen = s.seen /\ t.got = s.got /\ t.acked = s.acked
      /\ t.cut = s.cut /\ t.out = s.out
  BY <1>1 DEF NodeState, ClearRetransTable
<1> HIDE DEF t
<1>4. Sound(n, t) /\ Frame(s, t) /\ Waits(s, t) /\ t.entry = NoMsg /\ t.ackId = s.ackId
  BY <1>2, <1>3 DEF Sound, SentInTurn, Frame, Waits
<1> QED BY <1>4 DEF t

\* Abort closes the context and takes its message out of the table.
LEMMA AbortContextSound ==
    ASSUME NEW n \in Node, NEW s, Sound(n, s), NEW how \in AckOutcome
    PROVE  LET t == AbortContext(n, s, how)
           IN  Sound(n, t) /\ Frame(s, t) /\ t.st = "closed"
<1> DEFINE c == DoClose(n, s, how)
           t == ClearRetransTable(c)
<1>1. Sound(n, c) /\ Frame(s, c) /\ c.st = "closed"
  BY DoCloseSound
<1> HIDE DEF c
<1>2. Sound(n, t) /\ Frame(c, t) /\ Waits(c, t)
  BY <1>1, ClearRetransTableSound
<1> HIDE DEF t
<1>3. Sound(n, t) /\ Frame(s, t) /\ t.st = "closed"
  BY <1>1, <1>2, FrameTrans DEF Waits
<1> QED BY <1>3 DEF t, c, AbortContext

\* MessageHandled leaves a context open only if it waits for something.
LEMMA MessageHandledSound ==
    ASSUME NEW n \in Node, NEW s, Sound(n, s), s.st \in {"open", "closed"}, NEW how \in AckOutcome
    PROVE  LET t == MessageHandled(n, s, how)
           IN  /\ Sound(n, t) /\ Frame(s, t)
               /\ t.st \in {"open", "closed"}
               /\ t.st = "open" => t = s /\ (t.expects \/ t.willSend)
<1>1. CASE s.st = "closed" \/ s.expects \/ s.willSend
  BY <1>1 DEF MessageHandled, Frame
<1>2. CASE ~(s.st = "closed" \/ s.expects \/ s.willSend)
  BY <1>2, DoCloseSound DEF MessageHandled
<1> QED BY <1>1, <1>2

\* Releasing the context.
LEMMA ReleaseSound ==
    ASSUME NEW n \in Node, NEW s, Sound(n, s)
    PROVE  LET t == Release(s)
           IN  /\ Sound(n, t) /\ Frame(s, t) /\ t.out = s.out
               /\ Settled(s) => Settled(t)
<1> DEFINE t == Release(s)
<1>1. s \in NodeState
  BY DEF Sound
<1>2. ASSUME ~(s.st = "closed" /\ s.entry = NoMsg)
      PROVE  t = s
  BY <1>2 DEF Release
<1>3. ASSUME s.st = "closed" /\ s.entry = NoMsg
      PROVE  Sound(n, t) /\ Frame(s, t) /\ t.st # "open" /\ t.out = s.out
  <2>1. CASE s.ackId # NoId
    <3>1. t = [s EXCEPT !.st = "diedAckPending"]
      BY <1>3, <2>1 DEF Release
    <3> HIDE DEF t
    <3>2. t \in NodeState
      BY <1>1, <3>1 DEF NodeState
    <3>3. /\ t.st = "diedAckPending" /\ t.expects = s.expects
          /\ t.willSend = s.willSend /\ t.ackId = s.ackId /\ t.entry = s.entry
          /\ t.next = s.next /\ t.seen = s.seen /\ t.got = s.got /\ t.acked = s.acked
          /\ t.out = s.out
      BY <1>1, <3>1 DEF NodeState
    <3> QED BY <3>2, <3>3 DEF Sound, SentInTurn, Frame
  <2>2. CASE s.ackId = NoId
    <3>1. t = [s EXCEPT !.st = "none", !.willSend = FALSE]
      BY <1>3, <2>2 DEF Release
    <3> HIDE DEF t
    <3>2. t \in NodeState
      BY <1>1, <3>1 DEF NodeState
    <3>3. /\ t.st = "none" /\ t.expects = s.expects
          /\ t.willSend = FALSE /\ t.ackId = s.ackId /\ t.entry = s.entry
          /\ t.next = s.next /\ t.seen = s.seen /\ t.got = s.got /\ t.acked = s.acked
          /\ t.out = s.out
      BY <1>1, <3>1 DEF NodeState
    <3>4. s.next - 1 \in Int /\ Len(s.got) + Opening(n) \in Int /\ ~s.expects
      BY <1>1, <1>3 DEF NodeState, Opening, Sound
    <3>5. SentInTurn(n, t)
      BY <3>3, <3>4 DEF Sound, SentInTurn
    <3> QED BY <3>2, <3>3, <3>4, <3>5 DEF Sound, Frame
  <2> QED BY <2>1, <2>2
<1> HIDE DEF t
<1>4. /\ Sound(n, t) /\ Frame(s, t) /\ t.out = s.out
      /\ Settled(s) => Settled(t)
  BY <1>2, <1>3 DEF Settled, Frame
<1> QED BY <1>4 DEF t

\* t comes from s without a message received.
Onward(s, t) ==
    t.seen = s.seen /\ t.got = s.got /\ t.acked = s.acked /\ s.next <= t.next

\* t comes from s without a message received or sent: Frame, but for the ack.
Same(s, t) ==
    t.seen = s.seen /\ t.got = s.got /\ t.acked = s.acked /\ t.next = s.next

\* The application sends a message in its turn.
LEMMA SendMessageSound ==
    ASSUME NEW n \in Node, NEW s, Sound(n, s), s.st = "open", s.delegate,
           s.next <= MaxMsgs, s.next <= Len(s.got) + Opening(n),
           NEW expect \in BOOLEAN, NEW how \in AckOutcome
    PROVE  LET t == SendMessage(n, s, expect, how)
           IN  /\ Sound(n, t) /\ Onward(s, t)
               /\ t.st \in {"open", "closed", "diedOccupied"}
               /\ t.st = "open" => t.delegate /\ (t.expects \/ t.willSend)
<1> DEFINE t == SendMessage(n, s, expect, how)
           Good == /\ Sound(n, t) /\ Onward(s, t)
                   /\ t.st \in {"open", "closed", "diedOccupied"}
                   /\ t.st = "open" => t.delegate /\ (t.expects \/ t.willSend)
<1>1. s \in NodeState /\ MaxMsgs \in Nat /\ s.next \in Nat \ {0} /\ MaxRetrans \in Nat
  BY ExchangeAssumption DEF Sound, NodeState
<1>2. ASSUME s.entry # NoMsg PROVE Good
  <2>1. t = [s EXCEPT !.st = "diedOccupied"]
    BY <1>2 DEF SendMessage
  <2> HIDE DEF t
  <2>2. t \in NodeState
    BY <1>1, <2>1 DEF NodeState
  <2>3. /\ t.st = "diedOccupied" /\ t.expects = s.expects
        /\ t.willSend = s.willSend /\ t.ackId = s.ackId /\ t.entry = s.entry
        /\ t.next = s.next /\ t.seen = s.seen /\ t.got = s.got /\ t.acked = s.acked
        /\ t.out = s.out
    BY <1>1, <2>1 DEF NodeState
  <2> QED BY <1>1, <2>2, <2>3 DEF Sound, SentInTurn, Onward
<1>3. ASSUME s.entry = NoMsg PROVE Good
  <2> DEFINE m == [from |-> n, ctr |-> s.next, standalone |-> FALSE, ack |-> s.ackId]
             u == [s EXCEPT !.willSend = FALSE, !.expects = @ \/ expect, !.ackId = NoId,
                            !.next = @ + 1, !.entry = m, !.count = 0, !.out = @ \cup {m}]
  <2>1. t = MessageHandled(n, u, how)
    BY <1>3 DEF SendMessage
  <2>2. m \in Msg /\ m # NoMsg
    BY <1>1 DEF Msg, NodeState, Ctr, NoMsg
  <2>3. Genuine(n, m, s.seen, s.next + 1) /\ ~m.standalone
    BY <1>1, <2>2 DEF Genuine, Sound, NodeState
  <2> HIDE DEF m
  <2>4. u \in NodeState
    <3>1. s.next + 1 \in 1 .. MaxMsgs + 1 /\ 0 \in 0 .. MaxRetrans
      BY <1>1
    <3> QED BY <1>1, <2>2, <3>1 DEF NodeState
  <2>5. /\ u.st = "open" /\ u.delegate /\ u.willSend = FALSE
        /\ u.ackId = NoId /\ u.entry = m
        /\ u.next = s.next + 1 /\ u.seen = s.seen /\ u.got = s.got /\ u.acked = s.acked
        /\ u.out = s.out \cup {m}
    BY <1>1 DEF NodeState
  <2> HIDE DEF t, u
  <2>6. \A x : Genuine(n, x, s.seen, s.next) => Genuine(n, x, s.seen, s.next + 1)
    BY <1>1 DEF Genuine, Msg, Ctr, NoId
  <2>7. SentInTurn(n, u)
    BY <1>1, <2>5 DEF SentInTurn, Opening, NodeState
  <2>8. Sound(n, u) /\ Onward(s, u)
    BY <1>1, <2>3, <2>4, <2>5, <2>6, <2>7 DEF Sound, Onward
  <2>9. /\ Sound(n, t) /\ Frame(u, t)
        /\ t.st \in {"open", "closed"}
        /\ t.st = "open" => t = u /\ (t.expects \/ t.willSend)
    BY <2>1, <2>5, <2>8, MessageHandledSound
  <2>10. s.next <= t.next
    BY <1>1, <2>5, <2>9 DEF Frame
  <2> QED BY <2>5, <2>8, <2>9, <2>10 DEF Onward, Frame
<1> QED BY <1>2, <1>3

\* A send that fails drops the ack it would have carried.
LEMMA SendMessageFailsSound ==
    ASSUME NEW n \in Node, NEW s, Sound(n, s)
    PROVE  LET t == SendMessageFails(s)
           IN  Sound(n, t) /\ Frame(s, t) /\ t.st = s.st /\ t.delegate = s.delegate
<1> DEFINE t == SendMessageFails(s)
<1>1. s \in NodeState
  BY DEF Sound
<1>2. t \in NodeState
  BY <1>1 DEF NodeState, SendMessageFails
<1>3. /\ t.st = s.st /\ t.delegate = s.delegate /\ t.expects = FALSE
      /\ t.willSend = FALSE /\ t.ackId = NoId /\ t.entry = s.entry
      /\ t.next = s.next /\ t.seen = s.seen /\ t.got = s.got /\ t.acked = s.acked
      /\ t.cut = s.cut /\ t.out = s.out
  BY <1>1 DEF NodeState, SendMessageFails
<1> HIDE DEF t
<1>4. s.next - 1 \in Int /\ Len(s.got) + Opening(n) \in Int
  BY <1>1 DEF NodeState, Opening
<1>5. SentInTurn(n, t)
  BY <1>3, <1>4 DEF Sound, SentInTurn
<1>6. Sound(n, t) /\ Frame(s, t) /\ t.st = s.st /\ t.delegate = s.delegate
  BY <1>2, <1>3, <1>5 DEF Sound, Frame
<1> QED BY <1>6 DEF t

-----------------------------------------------------------------------------
(* Receiving.                                                              *)

\* An acknowledgment of the message in the table.
LEMMA HandleRcvdAckSound ==
    ASSUME NEW n \in Node, NEW s, Sound(n, s), NEW ack, IsAckOfEntry(s, ack)
    PROVE  LET t == HandleRcvdAck(s, ack)
           IN  /\ Sound(n, t) /\ Waits(s, t)
               /\ t.seen = s.seen /\ t.got = s.got /\ t.next = s.next
               /\ t.acked = s.acked \cup {ack}
<1> DEFINE c == ClearRetransTable(s)
           t == [c EXCEPT !.acked = @ \cup {s.entry.ctr}]
<1>1. s \in NodeState /\ s.entry # NoMsg /\ s.entry.ctr = ack
  BY DEF Sound, IsAckOfEntry
<1>2. ack \in Ctr
  BY <1>1, ExchangeAssumption DEF Sound, Genuine, Ctr, NodeState
<1>3. Sound(n, c) /\ Frame(s, c) /\ Waits(s, c)
  BY ClearRetransTableSound
<1> HIDE DEF c
<1>4. c \in NodeState
  BY <1>3 DEF Sound
<1>5. t \in NodeState
  BY <1>1, <1>2, <1>4 DEF NodeState
<1>6. /\ t.st = c.st /\ t.delegate = c.delegate /\ t.expects = c.expects
      /\ t.willSend = c.willSend /\ t.ackId = c.ackId /\ t.entry = c.entry
      /\ t.next = c.next /\ t.seen = c.seen /\ t.got = c.got
      /\ t.acked = c.acked \cup {ack} /\ t.cut = c.cut /\ t.out = c.out
  BY <1>1, <1>4 DEF NodeState
<1>7. t = HandleRcvdAck(s, ack)
  BY DEF HandleRcvdAck, c
<1> HIDE DEF t
<1>8. Sound(n, t)
  BY <1>3, <1>5, <1>6 DEF Sound, SentInTurn
<1>9. /\ Waits(s, t) /\ t.seen = s.seen /\ t.got = s.got /\ t.next = s.next
      /\ t.acked = s.acked \cup {ack}
  BY <1>3, <1>6 DEF Frame, Waits
<1> QED BY <1>7, <1>8, <1>9

\* What a message received sets as pending ack has been seen.
LEMMA PendingAckSound ==
    ASSUME NEW n \in Node, NEW s, Sound(n, s), NEW ctr \in s.seen \cup {NoId}
    PROVE  LET t == [s EXCEPT !.ackId = ctr]
           IN  /\ Sound(n, t) /\ Waits(s, t) /\ Same(s, t)
               /\ t.ackId = ctr
<1> DEFINE t == [s EXCEPT !.ackId = ctr]
<1>1. s \in NodeState
  BY DEF Sound
<1>2. t \in NodeState
  BY <1>1 DEF NodeState
<1>3. /\ t.st = s.st /\ t.delegate = s.delegate /\ t.expects = s.expects
      /\ t.willSend = s.willSend /\ t.ackId = ctr /\ t.entry = s.entry
      /\ t.next = s.next /\ t.seen = s.seen /\ t.got = s.got /\ t.acked = s.acked
      /\ t.cut = s.cut /\ t.out = s.out
  BY <1>1 DEF NodeState
<1> HIDE DEF t
<1>4. s.next \in Nat
  BY <1>1, ExchangeAssumption DEF NodeState
<1>5. Sound(n, t) /\ Waits(s, t) /\ Same(s, t) /\ t.ackId = ctr
  BY <1>2, <1>3, <1>4 DEF Sound, SentInTurn, Waits, Same
<1> QED BY <1>5 DEF t

\* Waits and Same are transitive, and Frame is Same, which is Onward.
LEMMA SameTrans ==
    ASSUME NEW n \in Node, NEW s, NEW t, NEW u, Sound(n, s)
    PROVE  /\ Same(s, t) /\ Same(t, u) => Same(s, u)
           /\ Waits(s, t) /\ Waits(t, u) => Waits(s, u)
           /\ Frame(s, t) => Same(s, t)
           /\ Same(s, t) => Onward(s, t)
<1>1. s.next \in Nat
  BY ExchangeAssumption DEF Sound, NodeState
<1> QED BY <1>1 DEF Same, Onward, Waits, Frame

\* Noting that a message needs an ack.
LEMMA HandleNeedsAckSound ==
    ASSUME NEW n \in Node, NEW s, Sound(n, s), NEW ctr \in s.seen, NEW dup \in BOOLEAN,
           NEW how \in AckOutcome
    PROVE  LET t == HandleNeedsAck(n, s, ctr, dup, how)
           IN  Sound(n, t) /\ Waits(s, t) /\ Same(s, t)
<1> DEFINE t == HandleNeedsAck(n, s, ctr, dup, how)
           Good(x) == Sound(n, x) /\ Waits(s, x) /\ Same(s, x)
<1>1. ctr # NoId /\ s.ackId \in s.seen \cup {NoId}
  BY ExchangeAssumption DEF Sound, NodeState, Ctr, NoId
<1>2. CASE dup
  <2> DEFINE p == [s EXCEPT !.ackId = ctr]
             x == SendStandaloneAckMessage(n, p, how)
             y == [x EXCEPT !.ackId = s.ackId]
  <2>1. Sound(n, p) /\ Waits(s, p) /\ Same(s, p) /\ p.ackId = ctr
    BY PendingAckSound
  <2>2. t = IF s.ackId \in {NoId, ctr} THEN x ELSE y
    BY <1>2 DEF HandleNeedsAck
  <2> HIDE DEF p
  <2>3. Sound(n, x) /\ Frame(p, x) /\ Waits(p, x)
    BY <1>1, <2>1, SendStandaloneAckSound
  <2> HIDE DEF x
  <2>4. Good(x)
    BY <2>1, <2>3, SameTrans
  <2>5. x.seen = s.seen
    BY <2>4 DEF Same
  <2>6. Sound(n, y) /\ Waits(x, y) /\ Same(x, y)
    BY <1>1, <2>3, <2>5, PendingAckSound
  <2> HIDE DEF y, t
  <2>7. Good(y)
    BY <2>4, <2>6, SameTrans
  <2>8. Good(t)
    BY <2>2, <2>4, <2>7
  <2> QED BY <2>8 DEF t
<1>3. CASE ~dup /\ s.ackId # NoId /\ AckFails(how)
  <2>1. t = SendStandaloneAckMessage(n, s, how)
    BY <1>3 DEF HandleNeedsAck
  <2>2. Sound(n, t) /\ Frame(s, t) /\ Waits(s, t)
    BY <1>3, <2>1, SendStandaloneAckSound
  <2> HIDE DEF t
  <2>3. Good(t)
    BY <2>2, SameTrans
  <2> QED BY <2>3 DEF t
<1>4. CASE ~dup /\ ~(s.ackId # NoId /\ AckFails(how))
  <2> DEFINE x == FlushAcks(n, s, how)
  <2>1. t = [x EXCEPT !.ackId = ctr]
    BY <1>4 DEF HandleNeedsAck
  <2>2. Sound(n, x) /\ Frame(s, x) /\ Waits(s, x)
    BY FlushAcksSound
  <2> HIDE DEF x
  <2>3. Same(s, x) /\ x.seen = s.seen
    BY <2>2, SameTrans DEF Frame
  <2>4. Sound(n, t) /\ Waits(x, t) /\ Same(x, t)
    BY <2>1, <2>2, <2>3, PendingAckSound
  <2> HIDE DEF t
  <2>5. Good(t)
    BY <2>2, <2>3, <2>4, SameTrans
  <2> QED BY <2>5 DEF t
<1> QED BY <1>2, <1>3, <1>4

\* t is where the delegate may leave an open context: its delegate stays.
Reacted(n, s, t) ==
    /\ Sound(n, t) /\ Onward(s, t)
    /\ t.st \in {"open", "closed", "diedOccupied"}

\* What the application does with a message it was given.
LEMMA ReactSound ==
    ASSUME NEW n \in Node, NEW s, Sound(n, s), s.st = "open", s.delegate,
           s.next <= Len(s.got) + Opening(n),
           NEW reaction \in Reaction,
           reaction \in {"willSend", "reply", "request"} => s.next <= MaxMsgs,
           NEW how \in AckOutcome
    PROVE  LET t == React(n, s, reaction, how)
           IN  Reacted(n, s, t) /\ (t.st = "open" => t.delegate)
<1> DEFINE t == React(n, s, reaction, how)
           Good == Reacted(n, s, t) /\ (t.st = "open" => t.delegate)
<1>1. s \in NodeState /\ s.next \in Nat
  BY ExchangeAssumption DEF Sound, NodeState
<1>2. ASSUME reaction = "nothing" PROVE Good
  BY <1>1, <1>2 DEF React, Reacted, Onward
<1>3. ASSUME reaction = "willSend" PROVE Good
  <2>1. t = [s EXCEPT !.willSend = TRUE]
    BY <1>3 DEF React
  <2> HIDE DEF t
  <2>2. t \in NodeState
    BY <1>1, <2>1 DEF NodeState
  <2>3. /\ t.st = s.st /\ t.delegate = s.delegate /\ t.expects = s.expects
        /\ t.willSend = TRUE /\ t.ackId = s.ackId /\ t.entry = s.entry
        /\ t.next = s.next /\ t.seen = s.seen /\ t.got = s.got /\ t.acked = s.acked
        /\ t.out = s.out
    BY <1>1, <2>1 DEF NodeState
  <2>4. SentInTurn(n, t)
    BY <1>1, <2>3 DEF SentInTurn, Opening, NodeState
  <2> QED BY <1>1, <2>2, <2>3, <2>4 DEF Sound, Reacted, Onward
<1>4. ASSUME reaction \in {"reply", "request"} PROVE Good
  <2> DEFINE expect == reaction = "request"
  <2>1. t = SendMessage(n, s, expect, how)
    BY <1>4 DEF React
  <2>2. expect \in BOOLEAN /\ s.next <= MaxMsgs
    BY <1>4
  <2> HIDE DEF expect
  <2>3. /\ Sound(n, t) /\ Onward(s, t)
        /\ t.st \in {"open", "closed", "diedOccupied"}
        /\ t.st = "open" => t.delegate
    BY <2>1, <2>2, SendMessageSound
  <2> QED BY <2>3 DEF Reacted
<1>5. ASSUME reaction = "abort" PROVE Good
  <2>1. t = AbortContext(n, s, how)
    BY <1>5 DEF React
  <2>2. Sound(n, t) /\ Frame(s, t) /\ t.st = "closed"
    BY <2>1, AbortContextSound
  <2> HIDE DEF t
  <2> QED BY <2>2, SameTrans DEF Reacted
<1>6. ASSUME reaction = "sendFails" PROVE Good
  <2>1. t = SendMessageFails(s)
    BY <1>6 DEF React
  <2>2. Sound(n, t) /\ Frame(s, t) /\ t.st = s.st /\ t.delegate = s.delegate
    BY <2>1, SendMessageFailsSound
  <2> HIDE DEF t
  <2> QED BY <2>2, SameTrans DEF Reacted
<1> QED BY <1>2, <1>3, <1>4, <1>5, <1>6 DEF Reaction

\* t comes from s with the message m received, and nothing else.
Received(s, t, m) ==
    /\ s.seen \subseteq t.seen
    /\ s.next <= t.next
    /\ \/ t.got = s.got
       \/ Len(t.got) = Len(s.got) + 1 /\ m.ctr = Len(t.got)
    /\ \/ t.acked = s.acked
       \/ t.acked = s.acked \cup {m.ack} /\ m.ack # NoId

\* A new message goes to the delegate if there is one.
LEMMA DeliverSound ==
    ASSUME NEW n \in Node, NEW s, Sound(n, s), s.st \in {"open", "closed"},
           NEW m \in Msg, m.ctr \in s.seen, m.ctr = Len(s.got) + 1,
           NEW reaction \in Reaction,
           reaction \in {"willSend", "reply", "request"} => s.next <= MaxMsgs,
           NEW how \in AckOutcome
    PROVE  LET t == Deliver(n, s, m, reaction, how)
           IN  /\ Sound(n, t) /\ Received(s, t, m) /\ t.acked = s.acked
               /\ t.st \in {"open", "closed", "diedOccupied"}
               /\ t.st = "open" => t.delegate = s.delegate
<1> DEFINE t == Deliver(n, s, m, reaction, how)
           Good == /\ Sound(n, t) /\ Received(s, t, m) /\ t.acked = s.acked
                   /\ t.st \in {"open", "closed", "diedOccupied"}
                   /\ t.st = "open" => t.delegate = s.delegate
           u == [s EXCEPT !.expects = FALSE, !.cut = FALSE]
<1>1. s \in NodeState /\ s.next \in Nat /\ Len(s.got) \in Nat /\ s.got \in Seq(Ctr) /\ m.ctr \in Ctr
  BY ExchangeAssumption DEF Sound, NodeState
<1>2. u \in NodeState
  BY <1>1 DEF NodeState
<1>3. /\ u.st = s.st /\ u.delegate = s.delegate /\ u.expects = FALSE
      /\ u.willSend = s.willSend /\ u.ackId = s.ackId /\ u.entry = s.entry
      /\ u.next = s.next /\ u.seen = s.seen /\ u.got = s.got /\ u.acked = s.acked
      /\ u.cut = FALSE /\ u.out = s.out
  BY <1>1 DEF NodeState
<1>4. t = IF s.delegate THEN React(n, [u EXCEPT !.got = Append(@, m.ctr)], reaction, how) ELSE u
  BY DEF Deliver
<1> HIDE DEF u
<1>5. Sound(n, u)
  BY <1>2, <1>3 DEF Sound, SentInTurn
<1>6. ASSUME ~s.delegate PROVE Good
  <2>1. t = u
    BY <1>4, <1>6
  <2> HIDE DEF t
  <2>2. s.next <= t.next
    BY <1>1, <1>3, <2>1
  <2>3. Received(s, t, m)
    BY <1>3, <2>1, <2>2 DEF Received
  <2> QED BY <1>3, <1>5, <2>1, <2>3
<1>7. ASSUME s.delegate PROVE Good
  <2> DEFINE v == [u EXCEPT !.got = Append(@, m.ctr)]
             g == Append(s.got, m.ctr)
  <2>1. /\ g \in Seq(Ctr) /\ Len(g) = Len(s.got) + 1 /\ g[Len(s.got) + 1] = m.ctr
        /\ \A i \in 1 .. Len(s.got) : g[i] = s.got[i]
    BY <1>1
  <2> HIDE DEF g
  <2>2. v \in NodeState
    BY <1>2, <1>3, <2>1 DEF NodeState, g
  <2>3. /\ v.st = u.st /\ v.delegate = u.delegate /\ v.expects = u.expects
        /\ v.willSend = u.willSend /\ v.ackId = u.ackId /\ v.entry = u.entry
        /\ v.next = u.next /\ v.seen = u.seen /\ v.got = g /\ v.acked = u.acked
        /\ v.cut = u.cut /\ v.out = u.out
    BY <1>2, <1>3 DEF NodeState, g
  <2>4. t = React(n, v, reaction, how)
    BY <1>4, <1>7
  <2> HIDE DEF v, t
  <2>5. /\ Len(v.got) = Len(s.got) + 1
        /\ \A i \in 1 .. Len(v.got) : v.got[i] = i /\ i \in v.seen
    <3>1. Len(v.got) = Len(s.got) + 1
      BY <2>1, <2>3
    <3>2. ASSUME NEW i \in 1 .. Len(v.got) PROVE v.got[i] = i /\ i \in v.seen
      <4>1. CASE i = Len(s.got) + 1
        BY <1>3, <2>1, <2>3, <4>1
      <4>2. CASE i # Len(s.got) + 1
        <5>1. i \in 1 .. Len(s.got)
          BY <1>1, <3>1, <4>2
        <5> QED BY <1>3, <2>1, <2>3, <5>1 DEF Sound
      <4> QED BY <4>1, <4>2
    <3> QED BY <3>1, <3>2
  <2>6. v.next <= Len(v.got) + Opening(n) /\ SentInTurn(n, v)
    <3> DEFINE w == IF s.willSend THEN 1 ELSE 0
    <3>1. w \in {0, 1} /\ Opening(n) \in Nat
      BY DEF Opening
    <3>2. s.next - 1 + w <= Len(s.got) + Opening(n)
      BY DEF Sound, SentInTurn
    <3>3. v.next = s.next /\ (IF v.willSend THEN 1 ELSE 0) = w
      BY <1>3, <2>3
    <3> HIDE DEF w
    <3> QED BY <1>1, <2>5, <3>1, <3>2, <3>3 DEF SentInTurn
  <2>7. Sound(n, v)
    BY <1>5, <2>2, <2>3, <2>5, <2>6 DEF Sound
  <2>8. v.st = "open" /\ v.delegate
    BY <1>3, <1>7, <2>3 DEF Sound
  <2>9. Reacted(n, v, t) /\ (t.st = "open" => t.delegate)
    BY <1>3, <2>3, <2>4, <2>6, <2>7, <2>8, ReactSound
  <2>10. /\ t.seen = s.seen /\ s.next <= t.next /\ t.acked = s.acked
         /\ Len(t.got) = Len(s.got) + 1
    BY <1>3, <2>3, <2>5, <2>9 DEF Reacted, Onward
  <2>11. t.st = "open" => t.delegate = s.delegate
    <3>1. Sound(n, t)
      BY <2>9 DEF Reacted
    <3>2. t.delegate \in BOOLEAN /\ s.delegate \in BOOLEAN
      BY <1>1, <3>1 DEF Sound, NodeState
    <3> QED BY <1>7, <2>9, <3>2
  <2>12. Received(s, t, m)
    BY <2>10 DEF Received
  <2> QED BY <2>9, <2>10, <2>11, <2>12 DEF Reacted
<1> QED BY <1>6, <1>7

\* HandleMessage with a context: the message may acknowledge the one in the
\* table, is noted for an ack, and goes to the delegate unless it is a
\* standalone ack or a duplicate.
LEMMA HandleMessageSound ==
    ASSUME NEW n \in Node, NEW s, Sound(n, s), s.st \in {"open", "closed"},
           NEW m \in Msg, NEW dup \in BOOLEAN,
           ~m.standalone => m.ctr \in s.seen,
           ~m.standalone /\ ~dup => m.ctr = Len(s.got) + 1,
           s.delegate /\ (m.standalone \/ dup) => s.expects \/ s.willSend \/ s.cut,
           NEW reaction \in Reaction,
           reaction \in {"willSend", "reply", "request"} => s.next <= MaxMsgs,
           NEW how \in AckOutcome
    PROVE  LET t == HandleMessage(n, s, m, dup, reaction, how)
           IN  Sound(n, t) /\ Settled(t) /\ Received(s, t, m)
<1> DEFINE acked    == IF ~dup /\ m.ack # NoId THEN HandleRcvdAck(s, m.ack) ELSE s
           needsAck == ~m.standalone
           noted    == IF needsAck THEN HandleNeedsAck(n, acked, m.ctr, dup, how) ELSE acked
           flushed  == IF noted.delegate THEN noted ELSE FlushAcks(n, noted, how)
           unsent   == noted.ackId # NoId /\ ~noted.delegate /\ AckFails(how)
           handled  == IF BadAck(s, m, dup) THEN s
                       ELSE IF needsAck /\ NeedsAckFails(acked, dup, how) THEN noted
                       ELSE IF unsent \/ m.standalone \/ dup THEN flushed
                       ELSE Deliver(n, flushed, m, reaction, how)
           died     == handled.st \notin {"open", "closed"}
           noChange == (m.standalone \/ dup) /\ handled.delegate
           t        == HandleMessage(n, s, m, dup, reaction, how)
           \* as far as the delegate, which is not called
           Kept(x)  == Sound(n, x) /\ Waits(s, x) /\ Received(s, x, m) /\ x.got = s.got /\ x.next = s.next
           \* after the delegate, or without it
           Dealt(x) == /\ Sound(n, x) /\ Received(s, x, m)
                       /\ x.st \in {"open", "closed", "diedOccupied"}
                       /\ m.standalone \/ dup => Waits(s, x)
<1>1. t = IF died \/ noChange THEN handled ELSE MessageHandled(n, handled, how)
  BY DEF HandleMessage
<1>2. /\ s \in NodeState /\ s.next \in Nat
      /\ \A x : Sound(n, x) => x.next \in Nat
  BY ExchangeAssumption DEF Sound, NodeState
<1>3. Kept(s)
  BY <1>2 DEF Waits, Received
<1>4. ASSUME ~BadAck(s, m, dup) PROVE Kept(acked)
  <2>1. CASE ~dup /\ m.ack # NoId
    <3>1. IsAckOfEntry(s, m.ack) /\ acked = HandleRcvdAck(s, m.ack)
      BY <1>4, <2>1 DEF BadAck
    <3>2. /\ Sound(n, acked) /\ Waits(s, acked)
          /\ acked.seen = s.seen /\ acked.got = s.got /\ acked.next = s.next
          /\ acked.acked = s.acked \cup {m.ack}
      BY <3>1, HandleRcvdAckSound
    <3> HIDE DEF acked
    <3> QED BY <1>2, <2>1, <3>2 DEF Received
  <2>2. CASE ~(~dup /\ m.ack # NoId)
    BY <1>3, <2>2
  <2> QED BY <2>1, <2>2
<1>5. ASSUME NEW x, NEW y, Kept(x), Sound(n, y), Same(x, y), Waits(x, y)
      PROVE  Kept(y)
  <2>1. x.next \in Nat /\ y.next \in Nat
    BY <1>2, <1>5
  <2>2. Received(s, y, m) /\ y.got = s.got /\ y.next = s.next
    BY <1>2, <1>5, <2>1 DEF Received, Same
  <2> QED BY <1>5, <2>2 DEF Waits
<1> HIDE DEF acked
<1>6. ASSUME ~BadAck(s, m, dup) PROVE Kept(noted)
  <2>1. CASE needsAck
    <3>1. m.ctr \in acked.seen /\ Sound(n, acked)
      BY <1>4, <1>6, <2>1 DEF Received
    <3>2. noted = HandleNeedsAck(n, acked, m.ctr, dup, how)
      BY <2>1
    <3>3. Sound(n, noted) /\ Waits(acked, noted) /\ Same(acked, noted)
      BY <3>1, <3>2, HandleNeedsAckSound
    <3> HIDE DEF noted, Kept
    <3> QED BY <1>4, <1>5, <1>6, <3>3
  <2>2. CASE ~needsAck
    BY <1>4, <1>6, <2>2
  <2> QED BY <2>1, <2>2
<1> HIDE DEF noted
<1>7. ASSUME ~BadAck(s, m, dup) PROVE Kept(flushed)
  <2>1. CASE ~noted.delegate
    <3>1. flushed = FlushAcks(n, noted, how) /\ Sound(n, noted)
      BY <1>6, <1>7, <2>1
    <3>2. Sound(n, flushed) /\ Frame(noted, flushed) /\ Waits(noted, flushed)
      BY <3>1, FlushAcksSound
    <3> HIDE DEF flushed
    <3>3. Same(noted, flushed)
      BY <3>1, <3>2, SameTrans
    <3> HIDE DEF Kept
    <3> QED BY <1>5, <1>6, <1>7, <3>2, <3>3
  <2>2. CASE noted.delegate
    BY <1>6, <1>7, <2>2
  <2> QED BY <2>1, <2>2
<1> HIDE DEF flushed
<1>8. ASSUME NEW x, Kept(x) PROVE Dealt(x)
  BY <1>8 DEF Waits
<1>9. ASSUME ~BadAck(s, m, dup), ~m.standalone, ~dup
      PROVE  Dealt(Deliver(n, flushed, m, reaction, how))
  <2> DEFINE x == Deliver(n, flushed, m, reaction, how)
  <2>1. /\ Sound(n, flushed) /\ flushed.st \in {"open", "closed"}
        /\ flushed.got = s.got /\ s.seen \subseteq flushed.seen /\ flushed.next = s.next
        /\ Received(s, flushed, m)
    BY <1>7, <1>9 DEF Waits, Received
  <2>2. flushed.next \in Nat /\ MaxMsgs \in Nat
    BY <1>2, <2>1, ExchangeAssumption
  <2>3. /\ Sound(n, x) /\ Received(flushed, x, m) /\ x.acked = flushed.acked
        /\ x.st \in {"open", "closed", "diedOccupied"}
    BY <1>9, <2>1, <2>2, DeliverSound
  <2> HIDE DEF x
  <2>4. Received(s, x, m)
    <3>1. x.next \in Nat
      BY <1>2, <2>3
    <3> QED BY <1>2, <2>1, <2>2, <2>3, <3>1 DEF Received
  <2>5. Dealt(x)
    BY <1>9, <2>3, <2>4
  <2> QED BY <2>5 DEF x
<1> HIDE DEF Kept, Dealt
<1>10. Dealt(handled)
  BY <1>3, <1>6, <1>7, <1>8, <1>9
<1> USE DEF Dealt
<1> HIDE DEF handled
<1>11. CASE died \/ noChange
  <2>1. t = handled
    BY <1>1, <1>11
  <2>2. Settled(handled)
    <3>1. CASE died
      BY <3>1 DEF Settled
    <3>2. CASE noChange
      BY <1>10, <3>2 DEF Settled, Waits
    <3> QED BY <1>11, <3>1, <3>2
  <2> HIDE DEF t
  <2>3. Sound(n, t) /\ Settled(t) /\ Received(s, t, m)
    BY <1>10, <2>1, <2>2
  <2> QED BY <2>3 DEF t
<1>12. CASE ~(died \/ noChange)
  <2>1. t = MessageHandled(n, handled, how) /\ handled.st \in {"open", "closed"}
    BY <1>1, <1>12
  <2>2. Sound(n, handled) /\ Received(s, handled, m)
    BY <1>10
  <2>3. /\ Sound(n, t) /\ Frame(handled, t)
        /\ t.st = "open" => t = handled /\ (t.expects \/ t.willSend)
    BY <2>1, <2>2, MessageHandledSound
  <2> HIDE DEF t
  <2>4. Received(s, t, m)
    BY <2>2, <2>3 DEF Received, Frame
  <2>5. Settled(t)
    BY <2>2, <2>3 DEF Sound, Settled
  <2>6. Sound(n, t) /\ Settled(t) /\ Received(s, t, m)
    BY <2>3, <2>4, <2>5
  <2> QED BY <2>6 DEF t
<1> QED BY <1>11, <1>12

\* The session commits the counter of a message.
LEMMA SeenSound ==
    ASSUME NEW n \in Node, NEW s, Sound(n, s), NEW ctr \in Ctr
    PROVE  LET t == [s EXCEPT !.seen = @ \cup {ctr}]
           IN  /\ Sound(n, t) /\ Waits(s, t) /\ t.seen = s.seen \cup {ctr}
               /\ t.expects = s.expects /\ t.willSend = s.willSend /\ t.cut = s.cut
               /\ t.got = s.got /\ t.acked = s.acked /\ t.next = s.next
<1> DEFINE t == [s EXCEPT !.seen = @ \cup {ctr}]
<1>1. s \in NodeState
  BY DEF Sound
<1>2. t \in NodeState
  BY <1>1 DEF NodeState
<1>3. /\ t.st = s.st /\ t.delegate = s.delegate /\ t.expects = s.expects
      /\ t.willSend = s.willSend /\ t.ackId = s.ackId /\ t.entry = s.entry
      /\ t.next = s.next /\ t.seen = s.seen \cup {ctr} /\ t.got = s.got /\ t.acked = s.acked
      /\ t.cut = s.cut /\ t.out = s.out
  BY <1>1 DEF NodeState
<1> HIDE DEF t
<1>4. \A x : Genuine(n, x, s.seen, s.next) => Genuine(n, x, t.seen, t.next)
  BY <1>3 DEF Genuine
<1>5. Sound(n, t)
  BY <1>2, <1>3, <1>4 DEF Sound, SentInTurn
<1>6. Sound(n, t) /\ Waits(s, t) /\ t.seen = s.seen \cup {ctr}
      /\ t.expects = s.expects /\ t.willSend = s.willSend /\ t.cut = s.cut
      /\ t.got = s.got /\ t.acked = s.acked /\ t.next = s.next
  BY <1>3, <1>5 DEF Waits
<1> QED BY <1>6 DEF t

\* A new context has nothing to wait for yet.
LEMMA CreateObjectSound ==
    ASSUME NEW n \in Node, NEW s, Sound(n, s), s.st = "none", NEW delegate \in BOOLEAN
    PROVE  LET t == CreateObject(s, delegate)
           IN  /\ Sound(n, t) /\ Same(s, t) /\ t.st = "open" /\ t.delegate = delegate
               /\ ~t.willSend /\ ~t.expects
<1> DEFINE t == CreateObject(s, delegate)
<1>1. s \in NodeState
  BY DEF Sound
<1>2. t \in NodeState
  BY <1>1 DEF NodeState, CreateObject
<1>3. /\ t.st = "open" /\ t.delegate = delegate /\ t.expects = s.expects
      /\ t.willSend = s.willSend /\ t.ackId = s.ackId /\ t.entry = s.entry
      /\ t.next = s.next /\ t.seen = s.seen /\ t.got = s.got /\ t.acked = s.acked
      /\ t.cut = s.cut /\ t.out = s.out
  BY <1>1 DEF NodeState, CreateObject
<1> HIDE DEF t
<1>4. /\ Sound(n, t) /\ Same(s, t) /\ t.st = "open" /\ t.delegate = delegate
      /\ ~t.willSend /\ ~t.expects
  BY <1>2, <1>3 DEF Sound, SentInTurn, Same
<1> QED BY <1>4 DEF t

\* A message received, with or without an exchange to receive it on.
LEMMA OnMessageReceivedSound ==
    ASSUME NEW n \in Node, NEW s, Sound(n, s), Settled(s), s.st \in {"none", "open", "closed"},
           NEW m \in Msg, ~m.standalone => m.ctr # NoId,
           ~m.standalone /\ m.ctr \notin s.seen => m.ctr = Len(s.got) + 1,
           NEW reaction \in Reaction,
           reaction \in {"willSend", "reply", "request"} => s.next <= MaxMsgs,
           NEW how \in AckOutcome, NEW room \in BOOLEAN
    PROVE  LET t == OnMessageReceived(n, s, m, reaction, how, room)
           IN  Sound(n, t) /\ Settled(t) /\ Received(s, t, m)
<1> DEFINE dup == IsDuplicate(s, m)
           u   == IF m.standalone THEN s ELSE [s EXCEPT !.seen = @ \cup {m.ctr}]
           t   == OnMessageReceived(n, s, m, reaction, how, room)
           Good(x) == Sound(n, x) /\ Settled(x) /\ Received(s, x, m)
<1>1. dup \in BOOLEAN /\ dup = (m.ctr \in s.seen)
  BY DEF IsDuplicate
<1>2. /\ s.st # "none" => t = Release(HandleMessage(n, u, m, dup, reaction, how))
      /\ s.st = "none" /\ (m.standalone \/ ~room) => t = u
      /\ s.st = "none" /\ ~m.standalone /\ room =>
            t = Release(HandleMessage(n, CreateObject(u, n = Responder /\ ~dup),
                                      m, dup, reaction, how))
  BY DEF OnMessageReceived
<1> HIDE DEF dup
<1>3. s.next \in Nat /\ (~m.standalone => m.ctr \in Ctr)
  BY ExchangeAssumption DEF Sound, NodeState, Msg
<1>4. /\ Sound(n, u) /\ Waits(s, u) /\ s.seen \subseteq u.seen
      /\ u.expects = s.expects /\ u.willSend = s.willSend /\ u.cut = s.cut
      /\ u.got = s.got /\ u.acked = s.acked /\ u.next = s.next
  <2>1. CASE m.standalone
    BY <2>1 DEF Waits
  <2>2. CASE ~m.standalone
    BY <1>3, <2>2, SeenSound
  <2> QED BY <2>1, <2>2
<1>5. ~m.standalone => m.ctr \in u.seen
  BY <1>3, <1>4, SeenSound
<1> HIDE DEF u, t
<1>6. Settled(u) /\ Received(s, u, m) /\ u.st = s.st /\ u.delegate = s.delegate
  BY <1>3, <1>4 DEF Settled, Waits, Received
<1>7. ~m.standalone /\ ~dup => m.ctr = Len(u.got) + 1
  BY <1>1, <1>4
<1>8. reaction \in {"willSend", "reply", "request"} => u.next <= MaxMsgs
  BY <1>4
<1>9. ASSUME NEW v, Sound(n, v), v.st \in {"open", "closed"}, Same(u, v),
             v.delegate /\ (m.standalone \/ dup) => v.expects \/ v.willSend \/ v.cut
      PROVE  Good(Release(HandleMessage(n, v, m, dup, reaction, how)))
  <2> DEFINE h == HandleMessage(n, v, m, dup, reaction, how)
             r == Release(h)
  <2>1. /\ ~m.standalone => m.ctr \in v.seen
        /\ ~m.standalone /\ ~dup => m.ctr = Len(v.got) + 1
        /\ reaction \in {"willSend", "reply", "request"} => v.next <= MaxMsgs
    BY <1>5, <1>7, <1>8, <1>9 DEF Same
  <2>2. Sound(n, h) /\ Settled(h) /\ Received(v, h, m)
    BY <1>1, <1>9, <2>1, HandleMessageSound
  <2> HIDE DEF h
  <2>3. Sound(n, r) /\ Frame(h, r) /\ Settled(r)
    BY <2>2, ReleaseSound
  <2> HIDE DEF r
  <2>4. /\ v.seen = u.seen /\ v.got = s.got /\ v.acked = s.acked /\ v.next = s.next
    BY <1>4, <1>9 DEF Same
  <2>5. Received(s, r, m)
    BY <1>4, <2>2, <2>3, <2>4 DEF Received, Frame
  <2>6. Good(r)
    BY <2>3, <2>5
  <2> QED BY <2>6 DEF r, h
<1> HIDE DEF Good
<1>10. CASE s.st # "none"
  <2>1. u.st \in {"open", "closed"} /\ Same(u, u)
    BY <1>6, <1>10 DEF Same
  <2>2. u.delegate => u.expects \/ u.willSend \/ u.cut
    BY <1>4, <1>6, <2>1 DEF Settled, Sound
  <2>3. Good(t)
    BY <1>2, <1>4, <1>9, <1>10, <2>1, <2>2
  <2> QED BY <2>3 DEF Good, t
<1>11. CASE s.st = "none" /\ (m.standalone \/ ~room)
  <2>1. Good(t)
    BY <1>2, <1>4, <1>6, <1>11 DEF Good
  <2> QED BY <2>1 DEF Good, t
<1>12. CASE s.st = "none" /\ ~m.standalone /\ room
  <2> DEFINE d == n = Responder /\ ~dup
             c == CreateObject(u, d)
  <2>1. d \in BOOLEAN /\ (d => ~dup)
    BY <1>1
  <2> HIDE DEF d
  <2>2. Sound(n, c) /\ Same(u, c) /\ c.st = "open" /\ c.delegate = d
    BY <1>4, <1>6, <1>12, <2>1, CreateObjectSound
  <2>3. t = Release(HandleMessage(n, c, m, dup, reaction, how))
    BY <1>2, <1>12 DEF d
  <2> HIDE DEF c
  <2>4. Good(t)
    BY <1>9, <1>12, <2>1, <2>2, <2>3
  <2> QED BY <2>4 DEF Good, t
<1> QED BY <1>10, <1>11, <1>12

-----------------------------------------------------------------------------
(* Steps of the specification.                                             *)

\* The two nodes are each other's peers.
LEMMA PeerNode ==
    ASSUME NEW n \in Node
    PROVE  /\ Peer(n) \in Node /\ Peer(n) # n /\ Peer(Peer(n)) = n
           /\ \A k \in Node : k = n \/ k = Peer(n)
           /\ Opening(n) + Opening(Peer(n)) = 1
           /\ Opening(n) \in Nat /\ Opening(Peer(n)) \in Nat
BY ExchangeAssumption DEF Node, Peer, Opening

\* A handler that ends in a sound and settled state, having received nothing
\* that was not sent and nothing acknowledged that has not arrived.
LEMMA EndsIInv ==
    ASSUME IInv, NEW n \in Node, NEW s, Ends(n, s), Sound(n, s), Settled(s),
           node[n].seen \subseteq s.seen, node[n].next <= s.next,
           Len(s.got) <= node[Peer(n)].next - 1,
           s.acked \subseteq node[Peer(n)].seen
    PROVE  IInv'
<1> DEFINE t == [s EXCEPT !.out = {}]
           p == Peer(n)
<1>1. s \in NodeState
  BY DEF Sound
<1>2. t \in NodeState
  BY <1>1 DEF NodeState
<1>3. /\ t.st = s.st /\ t.delegate = s.delegate /\ t.expects = s.expects
      /\ t.willSend = s.willSend /\ t.ackId = s.ackId /\ t.entry = s.entry
      /\ t.next = s.next /\ t.seen = s.seen /\ t.got = s.got /\ t.acked = s.acked
      /\ t.cut = s.cut /\ t.out = {}
  BY <1>1 DEF NodeState
<1>4. node' = [node EXCEPT ![n] = t] /\ net' = net \cup s.out
  BY DEF Ends
<1>5. p \in Node /\ p # n /\ Peer(p) = n /\ \A k \in Node : k = n \/ k = p
  BY PeerNode
<1> HIDE DEF t, p
<1>6. node'[n] = t /\ node'[p] = node[p]
  BY <1>4, <1>5 DEF IInv, TypeOK
<1>7. Sound(n, t) /\ Settled(t)
  BY <1>2, <1>3 DEF Sound, SentInTurn, Settled
<1>8. \A k \in Node : Sound(k, node'[k]) /\ Settled(node'[k]) /\ node'[k].out = {}
  BY <1>3, <1>5, <1>6, <1>7 DEF IInv, TypeOK
<1>9. /\ node[n].next \in Nat /\ s.next \in Nat /\ node[p].next \in Nat
      /\ Len(node[p].got) \in Nat
  <2>1. node[n] \in NodeState /\ node[p] \in NodeState
    BY <1>5 DEF IInv, TypeOK
  <2>2. \A x \in NodeState : x.next \in Nat /\ Len(x.got) \in Nat
    BY ExchangeAssumption DEF NodeState
  <2> QED BY <1>1, <2>1, <2>2
<1>10. \A m : Genuine(n, m, node[n].seen, node[n].next) => Genuine(n, m, s.seen, s.next)
  BY <1>9 DEF Genuine
<1>11. ASSUME NEW m \in net' PROVE \E k \in Node : Genuine(k, m, node'[k].seen, node'[k].next)
  <2>1. CASE m \in net
    <3>1. PICK k \in Node : Genuine(k, m, node[k].seen, node[k].next)
      BY <2>1 DEF IInv
    <3>2. Genuine(k, m, node'[k].seen, node'[k].next)
      BY <1>3, <1>5, <1>6, <1>10, <3>1
    <3> QED BY <3>2
  <2>2. CASE m \in s.out
    BY <1>3, <1>6, <2>2 DEF Sound
  <2> QED BY <1>4, <2>1, <2>2
<1>12. \A k \in Node : Len(node'[k].got) <= node'[Peer(k)].next - 1
  <2>1. Len(node[p].got) <= s.next - 1
    BY <1>5, <1>9 DEF IInv
  <2> QED BY <1>3, <1>5, <1>6, <2>1 DEF p
<1>13. \A k \in Node : node'[k].acked \subseteq node'[Peer(k)].seen
  <2>1. node[p].acked \subseteq s.seen
    BY <1>5 DEF IInv, AckedHasArrived
  <2> QED BY <1>3, <1>5, <1>6, <2>1 DEF p
<1>14. TypeOK'
  <2>1. node' \in [Node -> NodeState]
    BY <1>2, <1>4 DEF IInv, TypeOK
  <2>2. net' \subseteq Msg
    BY <1>4 DEF IInv, TypeOK, Sound, Genuine
  <2> QED BY <1>8, <2>1, <2>2 DEF TypeOK
<1> QED BY <1>8, <1>11, <1>12, <1>13, <1>14 DEF IInv, AckedHasArrived

\* A handler without a message received.
LEMMA OnwardIInv ==
    ASSUME IInv, NEW n \in Node, NEW s, Ends(n, s), Sound(n, s), Settled(s),
           Onward(node[n], s)
    PROVE  IInv'
<1>1. /\ Len(node[n].got) <= node[Peer(n)].next - 1
      /\ node[n].acked \subseteq node[Peer(n)].seen
  BY DEF IInv, AckedHasArrived
<1> QED BY <1>1, EndsIInv DEF Onward

\* A node with an exchange handles something and may release the context.
LEMMA ReleasedIInv ==
    ASSUME IInv, NEW n \in Node, NEW s, Ends(n, Release(s)), Sound(n, s), Settled(s),
           Onward(node[n], s)
    PROVE  IInv'
<1> DEFINE r == Release(s)
<1>1. Sound(n, r) /\ Frame(s, r) /\ Settled(r)
  BY ReleaseSound
<1>2. Ends(n, r)
  OBVIOUS
<1> HIDE DEF r
<1>3. Onward(node[n], r)
  BY <1>1 DEF Onward, Frame
<1> QED BY <1>1, <1>2, <1>3, OnwardIInv

\* IInv holds of a node, with the types of its numbers.
LEMMA NodeSound ==
    ASSUME IInv, NEW n \in Node
    PROVE  /\ Sound(n, node[n]) /\ Settled(node[n]) /\ node[n] \in NodeState
           /\ node[n].next \in Nat /\ Len(node[n].got) \in Nat /\ MaxMsgs \in Nat
           /\ node[n].next - 1 <= Len(node[n].got) + Opening(n)
           /\ node[n].willSend => node[n].next <= Len(node[n].got) + Opening(n)
           /\ AckOutcomes(n) \subseteq AckOutcome
<1> DEFINE s == node[n]
<1>1. Sound(n, s) /\ Settled(s) /\ s \in NodeState
  BY DEF IInv, Sound
<1> HIDE DEF s
<1>2. s.next \in Nat /\ Len(s.got) \in Nat /\ MaxMsgs \in Nat
  BY <1>1, ExchangeAssumption DEF NodeState
<1>3. Opening(n) \in Nat
  BY DEF Opening
<1>4. /\ s.next - 1 <= Len(s.got) + Opening(n)
      /\ s.willSend => s.next <= Len(s.got) + Opening(n)
  BY <1>1, <1>2, <1>3 DEF Sound, SentInTurn
<1>5. AckOutcomes(n) \subseteq AckOutcome
  BY DEF AckOutcomes
<1> QED BY <1>1, <1>2, <1>4, <1>5 DEF s

\* At the start nothing has been sent or received.
LEMMA InitIInv == Init => IInv
<1> SUFFICES ASSUME Init PROVE IInv
  OBVIOUS
<1>1. /\ NoContext.st = "none" /\ NoContext.expects = FALSE /\ NoContext.willSend = FALSE
      /\ NoContext.ackId = NoId /\ NoContext.entry = NoMsg /\ NoContext.next = 1
      /\ NoContext.seen = {} /\ NoContext.got = <<>> /\ NoContext.acked = {}
      /\ NoContext.out = {}
  BY DEF NoContext
<1>2. NoContext \in NodeState
  <2>1. NoMsg \in Msg /\ MaxMsgs \in Nat /\ MaxRetrans \in Nat /\ MaxAckFaults \in Nat
    BY ExchangeAssumption DEF NoMsg, Msg, Node
  <2>2. /\ 1 \in 1 .. MaxMsgs + 1 /\ 0 \in 0 .. MaxRetrans /\ 0 \in 0 .. MaxAckFaults
        /\ << >> \in Seq(Ctr)
    BY <2>1
  <2> QED BY <2>1, <2>2 DEF NoContext, NodeState
<1>3. ASSUME NEW n \in Node PROVE Sound(n, NoContext) /\ Settled(NoContext)
  <2>1. Len(NoContext.got) = 0 /\ Opening(n) \in Nat
    BY <1>1 DEF Opening
  <2>2. SentInTurn(n, NoContext)
    BY <1>1, <2>1 DEF SentInTurn
  <2> QED BY <1>1, <1>2, <2>1, <2>2 DEF Sound, Settled
<1>4. \A n \in Node : node[n] = NoContext /\ node[Peer(n)] = NoContext
  BY PeerNode DEF Init
<1>5. TypeOK
  BY <1>1, <1>2 DEF Init, TypeOK
<1>6. \A n \in Node : Len(node[n].got) <= node[Peer(n)].next - 1
  BY <1>1, <1>4
<1>7. AckedHasArrived
  BY <1>1, <1>4 DEF AckedHasArrived
<1> QED BY <1>3, <1>4, <1>5, <1>6, <1>7 DEF IInv, Init

\* A message arrives.  If it is new it is the next one the delegate waits for.
LEMMA ReceiveIInv == ASSUME IInv, NEW n \in Node, Receive(n) PROVE IInv'
<1> DEFINE p == Peer(n)
           s == node[n]
<1>1. PICK m \in net : /\ m.from = p
                       /\ \E x \in {OnMessageReceived(n, s, m, reaction, how, room) :
                                     reaction \in Reactions(n, m), how \in AckOutcomes(n),
                                     room \in Available} : Ends(n, x)
  BY DEF Receive
<1>2. PICK reaction \in Reactions(n, m), how \in AckOutcomes(n), room \in Available :
          Ends(n, OnMessageReceived(n, s, m, reaction, how, room))
  BY <1>1
<1>3. p \in Node /\ p # n /\ Opening(n) + Opening(p) = 1 /\ Opening(n) \in Nat /\ Opening(p) \in Nat
  BY PeerNode
<1>4. Genuine(p, m, node[p].seen, node[p].next)
  <2>1. PICK k \in Node : Genuine(k, m, node[k].seen, node[k].next)
    BY DEF IInv
  <2> QED BY <1>1, <2>1 DEF Genuine
<1>5. /\ Sound(n, s) /\ Settled(s) /\ s \in NodeState
      /\ s.next \in Nat /\ Len(s.got) \in Nat /\ s.next - 1 <= Len(s.got) + Opening(n)
      /\ how \in AckOutcome
  BY NodeSound
<1>6. /\ node[p].next \in Nat /\ Len(node[p].got) \in Nat
      /\ node[p].next - 1 <= Len(node[p].got) + Opening(p)
  BY <1>3, NodeSound
<1>7. Len(s.got) <= node[p].next - 1 /\ Len(node[p].got) <= s.next - 1
  BY <1>3, PeerNode DEF IInv
<1>8. s.acked \subseteq node[p].seen
  BY DEF IInv, AckedHasArrived
<1>9. s.st \in {"none", "open", "closed"}
  BY DEF Receive, Alive
<1> HIDE DEF s, p
<1>10. /\ m \in Msg /\ (~m.standalone => m.ctr # NoId)
       /\ ~m.standalone => m.ctr \in 1 .. node[p].next - 1
       /\ m.ack # NoId => m.ack \in node[p].seen
  BY <1>4, <1>6 DEF Genuine, NoId
<1>11. ASSUME ~m.standalone, m.ctr \notin s.seen PROVE m.ctr = Len(s.got) + 1
  <2>1. m.ctr \in Nat \ {0} /\ m.ctr <= node[p].next - 1
    BY <1>6, <1>10, <1>11
  <2>2. m.ctr \notin 1 .. Len(s.got)
    BY <1>5, <1>11 DEF Sound
  <2>3. node[p].next - 1 <= Len(s.got) + 1
    <3>1. \A a, b, c, d, e, f \in Nat :
              a - 1 <= b + e /\ b <= c - 1 /\ c - 1 <= d + f /\ f + e = 1 => a - 1 <= d + 1
      OBVIOUS
    <3> QED BY <1>3, <1>5, <1>6, <1>7, <3>1
  <2> QED BY <1>5, <1>6, <2>1, <2>2, <2>3
<1>12. /\ reaction \in Reaction /\ room \in BOOLEAN
       /\ reaction \in {"willSend", "reply", "request"} => s.next <= MaxMsgs
  BY DEF Reactions, Reaction, MaySend, Available, s
<1> DEFINE t == OnMessageReceived(n, s, m, reaction, how, room)
<1>13. Sound(n, t) /\ Settled(t) /\ Received(s, t, m)
  BY <1>5, <1>9, <1>10, <1>11, <1>12, OnMessageReceivedSound
<1>14. Ends(n, t)
  BY <1>2
<1> HIDE DEF t
<1>15. t.acked \subseteq node[p].seen
  BY <1>8, <1>10, <1>13 DEF Received
<1>16. Len(t.got) <= node[p].next - 1
  <2>1. CASE t.got = s.got
    BY <1>7, <2>1
  <2>2. CASE Len(t.got) = Len(s.got) + 1 /\ m.ctr = Len(t.got)
    <3>1. CASE ~m.standalone
      BY <1>6, <1>10, <2>2, <3>1
    <3>2. CASE m.standalone
      <4>1. m.ctr = 0
        BY <1>4, <3>2 DEF Genuine, NoId
      <4> QED BY <1>5, <2>2, <4>1
    <3> QED BY <3>1, <3>2
  <2> QED BY <1>13, <2>1, <2>2 DEF Received
<1> QED BY <1>13, <1>14, <1>15, <1>16, EndsIInv DEF Received, s, p

\* The initiator opens the exchange.
LEMMA StartIInv == ASSUME IInv, NEW expect \in BOOLEAN, Start(expect) PROVE IInv'
<1> DEFINE n == Initiator
           c == CreateObject(node[n], TRUE)
           t == SendMessage(n, c, expect, "sent")
<1>1. n \in Node /\ Opening(n) = 1
  BY DEF Node, Opening
<1>2. /\ Sound(n, node[n]) /\ node[n].next = 1 /\ Len(node[n].got) \in Nat
      /\ node[n].st = "none" /\ 1 <= MaxMsgs
  BY <1>1, NodeSound DEF Start, MaySend
<1>3. Ends(n, Release(t))
  BY DEF Start
<1> HIDE DEF n
<1>4. Sound(n, c) /\ Same(node[n], c) /\ c.st = "open" /\ c.delegate
  BY <1>1, <1>2, CreateObjectSound
<1> HIDE DEF c
<1>5. c.next = 1 /\ 1 <= Len(c.got) + Opening(n)
  BY <1>1, <1>2, <1>4 DEF Same
<1>6. /\ Sound(n, t) /\ Onward(c, t)
      /\ t.st = "open" => t.delegate /\ (t.expects \/ t.willSend)
  BY <1>1, <1>2, <1>4, <1>5, SendMessageSound DEF AckOutcome
<1> HIDE DEF t
<1>7. Onward(node[n], t) /\ Settled(t)
  BY <1>4, <1>6 DEF Onward, Same, Settled
<1> QED BY <1>1, <1>3, <1>6, <1>7, ReleasedIInv

\* The promised message is sent.
LEMMA AppSendIInv ==
    ASSUME IInv, NEW n \in Node, NEW expect \in BOOLEAN, NEW how \in AckOutcomes(n),
           AppSend(n, expect, how)
    PROVE  IInv'
<1> DEFINE s == node[n]
           t == SendMessage(n, s, expect, how)
<1>1. /\ Sound(n, s) /\ Settled(s) /\ how \in AckOutcome
      /\ s.willSend => s.next <= Len(s.got) + Opening(n)
  BY NodeSound
<1>2. s.st = "open" /\ s.willSend /\ s.next <= MaxMsgs /\ Ends(n, Release(t))
  BY DEF AppSend, MaySend
<1>3. s.delegate
  BY <1>1, <1>2 DEF Settled
<1>4. /\ Sound(n, t) /\ Onward(s, t)
      /\ t.st = "open" => t.delegate /\ (t.expects \/ t.willSend)
  BY <1>1, <1>2, <1>3, SendMessageSound
<1>5. Settled(t)
  BY <1>4 DEF Settled
<1> QED BY <1>2, <1>4, <1>5, ReleasedIInv

\* It cannot be sent, and the exchange is aborted.
LEMMA AppSendFailsIInv ==
    ASSUME IInv, NEW n \in Node, NEW how \in AckOutcomes(n), AppSendFails(n, how)
    PROVE  IInv'
<1> DEFINE s == node[n]
           f == SendMessageFails(s)
           t == AbortContext(n, f, how)
<1>1. Sound(n, s) /\ how \in AckOutcome
  BY NodeSound
<1>2. Ends(n, Release(t))
  BY DEF AppSendFails
<1> HIDE DEF s
<1>3. Sound(n, f) /\ Frame(s, f)
  BY <1>1, SendMessageFailsSound
<1> HIDE DEF f
<1>4. Sound(n, t) /\ Frame(f, t) /\ t.st = "closed"
  BY <1>1, <1>3, AbortContextSound
<1> HIDE DEF t
<1>5. Onward(s, t) /\ Settled(t)
  BY <1>1, <1>3, <1>4, FrameTrans, SameTrans DEF Settled
<1> QED BY <1>2, <1>4, <1>5, ReleasedIInv DEF s

\* The application closes or aborts the exchange.
LEMMA AppCloseIInv ==
    ASSUME IInv, NEW n \in Node, NEW how \in AckOutcomes(n), AppClose(n, how)
    PROVE  IInv'
<1> DEFINE s == node[n]
<1>1. Sound(n, s) /\ how \in AckOutcome
  BY NodeSound
<1>2. ASSUME NEW t, Sound(n, t), Frame(s, t), t.st = "closed", Ends(n, Release(t))
      PROVE  IInv'
  <2>1. Onward(s, t) /\ Settled(t)
    BY <1>1, <1>2, SameTrans DEF Settled
  <2> QED BY <1>2, <2>1, ReleasedIInv
<1>3. CASE Ends(n, Release(DoClose(n, s, how)))
  BY <1>1, <1>2, <1>3, DoCloseSound
<1>4. CASE Ends(n, Release(AbortContext(n, s, how)))
  BY <1>1, <1>2, <1>4, AbortContextSound
<1> QED BY <1>3, <1>4 DEF AppClose

\* The response did not come.
LEMMA NotifyResponseTimeoutIInv ==
    ASSUME IInv, NEW n \in Node, NEW how \in AckOutcomes(n), NotifyResponseTimeout(n, how)
    PROVE  IInv'
<1> DEFINE s == node[n]
           u == [s EXCEPT !.expects = FALSE]
           t == MessageHandled(n, u, how)
<1>1. Sound(n, s) /\ Settled(s) /\ s \in NodeState /\ how \in AckOutcome
  BY NodeSound
<1>2. s.st = "open" /\ Ends(n, Release(t))
  BY DEF NotifyResponseTimeout
<1> HIDE DEF s
<1>3. u \in NodeState
  BY <1>1 DEF NodeState
<1>4. /\ u.st = s.st /\ u.delegate = s.delegate /\ u.expects = FALSE
      /\ u.willSend = s.willSend /\ u.ackId = s.ackId /\ u.entry = s.entry
      /\ u.next = s.next /\ u.seen = s.seen /\ u.got = s.got /\ u.acked = s.acked
      /\ u.cut = s.cut /\ u.out = s.out
  BY <1>1 DEF NodeState
<1> HIDE DEF u
<1>5. Sound(n, u) /\ Frame(s, u)
  BY <1>1, <1>3, <1>4 DEF Sound, SentInTurn, Frame
<1>6. /\ Sound(n, t) /\ Frame(u, t)
      /\ t.st = "open" => t = u /\ (t.expects \/ t.willSend)
  BY <1>1, <1>2, <1>4, <1>5, MessageHandledSound
<1> HIDE DEF t
<1>7. Settled(t)
  BY <1>1, <1>2, <1>4, <1>6 DEF Settled
<1>8. Onward(s, t)
  BY <1>1, <1>5, <1>6, FrameTrans, SameTrans
<1> QED BY <1>2, <1>6, <1>7, <1>8, ReleasedIInv DEF s

\* The ack timer expired.
LEMMA AckTimeoutIInv ==
    ASSUME IInv, NEW n \in Node, NEW how \in AckOutcomes(n), AckTimeout(n, how)
    PROVE  IInv'
<1> DEFINE s == node[n]
           t == SendStandaloneAckMessage(n, s, how)
<1>1. Sound(n, s) /\ Settled(s) /\ how \in AckOutcome
  BY NodeSound
<1>2. s.ackId # NoId /\ Ends(n, t)
  BY DEF AckTimeout
<1> HIDE DEF s
<1>3. Sound(n, t) /\ Frame(s, t) /\ Waits(s, t)
  BY <1>1, <1>2, SendStandaloneAckSound
<1> HIDE DEF t
<1>4. Settled(t) /\ Onward(s, t)
  BY <1>1, <1>3, SameTrans DEF Settled, Waits
<1> QED BY <1>2, <1>3, <1>4, OnwardIInv DEF s

\* A retransmission repeats the message of the table.
LEMMA RetransmitIInv == ASSUME IInv, NEW n \in Node, Retransmit(n) PROVE IInv'
<1> DEFINE s == node[n]
           t == [s EXCEPT !.count = @ + 1, !.out = {s.entry}]
<1>1. Sound(n, s) /\ Settled(s) /\ s \in NodeState
  BY NodeSound
<1>2. s.entry # NoMsg /\ s.count # MaxRetrans /\ Ends(n, t)
  BY DEF Retransmit
<1> HIDE DEF s
<1>3. s.count + 1 \in 0 .. MaxRetrans /\ s.entry \in Msg
  BY <1>1, <1>2, ExchangeAssumption DEF NodeState
<1>4. t \in NodeState
  BY <1>1, <1>3 DEF NodeState
<1>5. /\ t.st = s.st /\ t.delegate = s.delegate /\ t.expects = s.expects
      /\ t.willSend = s.willSend /\ t.ackId = s.ackId /\ t.entry = s.entry
      /\ t.next = s.next /\ t.seen = s.seen /\ t.got = s.got /\ t.acked = s.acked
      /\ t.cut = s.cut /\ t.out = {s.entry}
  BY <1>1 DEF NodeState
<1> HIDE DEF t
<1>6. Genuine(n, s.entry, s.seen, s.next)
  BY <1>1, <1>2 DEF Sound
<1>7. Sound(n, t)
  BY <1>1, <1>4, <1>5, <1>6 DEF Sound, SentInTurn
<1>8. Same(s, t) /\ Settled(t)
  BY <1>1, <1>5 DEF Same, Settled
<1>9. Onward(s, t)
  BY <1>1, <1>8, SameTrans
<1> QED BY <1>2, <1>7, <1>8, <1>9, OnwardIInv DEF s

\* The message is given up.
LEMMA GiveUpIInv == ASSUME IInv, NEW n \in Node, GiveUp(n) PROVE IInv'
<1> DEFINE s == node[n]
           t == ClearRetransTable(s)
<1>1. Sound(n, s) /\ Settled(s)
  BY NodeSound
<1>2. Ends(n, Release(t))
  BY DEF GiveUp
<1> HIDE DEF s
<1>3. Sound(n, t) /\ Frame(s, t) /\ Waits(s, t)
  BY <1>1, ClearRetransTableSound
<1> HIDE DEF t
<1>4. Settled(t) /\ Onward(s, t)
  BY <1>1, <1>3, SameTrans DEF Settled, Waits
<1> QED BY <1>2, <1>3, <1>4, ReleasedIInv DEF s

\* Every step keeps the invariant.
LEMMA NextIInv == IInv /\ [Next]_vars => IInv'
<1> SUFFICES ASSUME IInv, [Next]_vars PROVE IInv'
  OBVIOUS
<1>1. ASSUME NEW expect \in BOOLEAN, Start(expect) PROVE IInv'
  BY <1>1, StartIInv
<1>2. ASSUME NEW n \in Node, Receive(n) PROVE IInv'
  BY <1>2, ReceiveIInv
<1>3. ASSUME NEW n \in Node, NEW expect \in BOOLEAN, NEW how \in AckOutcomes(n),
             AppSend(n, expect, how)
      PROVE  IInv'
  BY <1>3, AppSendIInv
<1>4. ASSUME NEW n \in Node, NEW how \in AckOutcomes(n), AppSendFails(n, how) PROVE IInv'
  BY <1>4, AppSendFailsIInv
<1>5. ASSUME NEW n \in Node, NEW how \in AckOutcomes(n), AppClose(n, how) PROVE IInv'
  BY <1>5, AppCloseIInv
<1>6. ASSUME NEW n \in Node, NEW how \in AckOutcomes(n), NotifyResponseTimeout(n, how) PROVE IInv'
  BY <1>6, NotifyResponseTimeoutIInv
<1>7. ASSUME NEW n \in Node, NEW how \in AckOutcomes(n), AckTimeout(n, how) PROVE IInv'
  BY <1>7, AckTimeoutIInv
<1>8. ASSUME NEW n \in Node, Retransmit(n) PROVE IInv'
  BY <1>8, RetransmitIInv
<1>9. ASSUME NEW n \in Node, GiveUp(n) PROVE IInv'
  BY <1>9, GiveUpIInv
<1>10. CASE UNCHANGED vars
  BY <1>10 DEF IInv, TypeOK, AckedHasArrived, vars
<1> QED BY <1>1, <1>2, <1>3, <1>4, <1>5, <1>6, <1>7, <1>8, <1>9, <1>10 DEF Next

-----------------------------------------------------------------------------

\* The inductive invariant holds in every reachable state.
THEOREM InvariantHolds == Spec => []IInv
BY InitIInv, NextIInv, PTL DEF Spec

(* Type correctness of both nodes and of the network: counters stay within *)
(* the messages of the exchange and a handler leaves nothing unsent.       *)
THEOREM TypeCorrect == Spec => []TypeOK
<1>1. IInv => TypeOK
  BY DEF IInv
<1> QED BY <1>1, InvariantHolds, PTL

(* The application of either node is given the peer's messages in order    *)
(* and at most once (ExchangeContext::HandleMessage behind the session's   *)
(* duplicate detection), whatever the network does and however often the   *)
(* exchange is closed and created again.                                   *)
THEOREM InOrderDelivery == Spec => []DeliveredInOrder
<1>1. IInv => DeliveredInOrder
  <2> SUFFICES ASSUME IInv, NEW n \in Node, NEW i \in 1 .. Len(node[n].got),
                      NEW j \in 1 .. Len(node[n].got), i < j
               PROVE  node[n].got[i] < node[n].got[j]
    BY DEF DeliveredInOrder
  <2>1. node[n].got[i] = i /\ node[n].got[j] = j
    BY DEF IInv, Sound
  <2> QED BY <2>1
<1> QED BY <1>1, InvariantHolds, PTL

(* No message is taken out of the retransmission table by the ack of       *)
(* another one: a message acknowledged (ReliableMessageContext::           *)
(* HandleRcvdAck) has arrived at the peer's session.                       *)
THEOREM NoFalseAck == Spec => []AckedHasArrived
<1>1. IInv => AckedHasArrived
  BY DEF IInv
<1> QED BY <1>1, InvariantHolds, PTL

(* Between two events no open context is left that nothing will close      *)
(* (ExchangeContext::MessageHandled is called on every path that needs it) *)
(* but one whose wait a failed standalone ack has cut short.               *)
THEOREM NoLeak == Spec => []NoLeakedExchange
<1>1. IInv => NoLeakedExchange
  BY DEF IInv, NoLeakedExchange, Settled
<1> QED BY <1>1, InvariantHolds, PTL
=============================================================================

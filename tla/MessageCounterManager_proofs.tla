------------------- MODULE MessageCounterManager_proofs --------------------
(***************************************************************************)
(* Proofs about MessageCounterManager, for every number of peers, every    *)
(* size of the table and of the window and every counter range.            *)
(***************************************************************************)
EXTENDS MessageCounterManager, FiniteSetTheorems, WellFoundedInduction, TLAPS

(***************************************************************************)
(* Induction over the natural numbers for sets rather than predicates.     *)
(***************************************************************************)
LEMMA LeastElement ==
    ASSUME NEW S, S \subseteq Nat, S # {}
    PROVE  \E x \in S : \A y \in S : x <= y
<1> DEFINE Less == {xy \in Nat \X Nat : xy[1] < xy[2]}
<1>1. IsWellFoundedOn(Less, Nat)
  BY NatLessThanWellFounded DEF OpToRel
<1> HIDE DEF Less
<1>2. PICK x \in S : \A y \in S : <<y, x>> \notin Less
  BY <1>1, WFMin
<1>3. \A y \in S : y < x => <<y, x>> \in Less
  BY DEF Less
<1>4. ASSUME NEW y \in S PROVE x <= y
  <2>1. x \in Nat /\ y \in Nat
    OBVIOUS
  <2>2. ~(y < x)
    BY <1>2, <1>3
  <2> QED BY <2>1, <2>2
<1> QED BY <1>4

\* A set that holds 0 and is closed under successor holds every natural.
LEMMA SetInduction ==
    ASSUME NEW S, 0 \in S, \A n \in Nat : n \in S => n + 1 \in S
    PROVE  \A n \in Nat : n \in S
<1> SUFFICES ASSUME NEW b \in Nat \ S PROVE FALSE
  OBVIOUS
<1>1. PICK x \in Nat \ S : \A y \in Nat \ S : x <= y
  BY LeastElement
<1>2. x - 1 \in Nat /\ x - 1 \in S
  BY <1>1
<1> QED BY <1>1, <1>2

-----------------------------------------------------------------------------
(* Dispatching one message.                                                *)

(***************************************************************************)
(* The window of a session tells what has been passed up: nothing before   *)
(* the session is synchronized and nothing above its maximum, and within   *)
(* the window exactly the counters whose bit is set.                       *)
(***************************************************************************)
SessionOK(s) ==
    /\ s.pmc \in PeerCounterType
    /\ s.delivered \in [Counters -> 0 .. 1]
    /\ ~IsSynchronized(s.pmc) => \A c \in Counters : s.delivered[c] = 0
    /\ IsSynchronized(s.pmc) =>
         \A c \in Counters :
            /\ c > s.pmc.maxCounter => s.delivered[c] = 0
            /\ c <= s.pmc.maxCounter /\ s.pmc.maxCounter - c < WindowSize =>
                  (s.delivered[c] = 1 <=> s.pmc.maxCounter - c \in s.pmc.window)

(***************************************************************************)
(* Commit keeps the type, and advances the maximum to the counter.         *)
(***************************************************************************)
LEMMA CommitType ==
    ASSUME NEW q \in PeerCounterType, NEW c \in Counters, Verify(q, c) = "ok"
    PROVE  /\ Commit(q, c) \in PeerCounterType
           /\ Commit(q, c).status = q.status
           /\ Commit(q, c).maxCounter = IF c <= q.maxCounter THEN q.maxCounter ELSE c
           /\ \A o \in Offsets :
                 o \in Commit(q, c).window <=>
                    IF c <= q.maxCounter THEN o \in q.window \/ o = q.maxCounter - c
                    ELSE o = 0 \/ o - (c - q.maxCounter) \in q.window
<1> USE CounterAssumption DEF Counters, Offsets, PeerCounterType
<1>1. CASE c <= q.maxCounter
  <2>1. q.maxCounter - c \in Offsets
    BY <1>1 DEF Verify, IsSynchronized
  <2> QED BY <1>1, <2>1 DEF Commit
<1>2. CASE ~(c <= q.maxCounter)
  <2> DEFINE w == {0} \cup (IF c - q.maxCounter < WindowSize
                            THEN ShiftWindow(q.window, c - q.maxCounter) ELSE {})
  <2>1. Commit(q, c) = [q EXCEPT !.maxCounter = c, !.window = w]
    BY <1>2 DEF Commit
  <2>2. w \in SUBSET Offsets
    BY DEF ShiftWindow
  <2>3. \A o \in Offsets : o \in w <=> o = 0 \/ o - (c - q.maxCounter) \in q.window
    BY <1>2 DEF ShiftWindow
  <2> HIDE DEF w
  <2> QED BY <1>2, <2>1, <2>2, <2>3
<1> QED BY <1>1, <1>2

(***************************************************************************)
(* Dispatch keeps the window true, takes back nothing, and passes up a     *)
(* message whose counter the window still covers.                          *)
(***************************************************************************)
LEMMA DispatchOK ==
    ASSUME NEW s, s = [pmc |-> s.pmc, delivered |-> s.delivered],
           SessionOK(s), NEW c \in Counters
    PROVE  LET t == Dispatch(s, c)
           IN  /\ t = [pmc |-> t.pmc, delivered |-> t.delivered]
               /\ SessionOK(t)
               /\ t.pmc.status = s.pmc.status
               /\ \A d \in Counters : s.delivered[d] = 1 => t.delivered[d] = 1
               /\ t.pmc.maxCounter \in {s.pmc.maxCounter, c}
               /\ IsSynchronized(s.pmc) /\ s.pmc.maxCounter - c < WindowSize =>
                     t.delivered[c] = 1
<1> DEFINE t == Dispatch(s, c)
<1>1. CASE Verify(s.pmc, c) # "ok"
  <2>1. t = s
    BY <1>1 DEF Dispatch
  <2>2. IsSynchronized(s.pmc) /\ s.pmc.maxCounter - c < WindowSize => s.delivered[c] = 1
    BY <1>1, CounterAssumption DEF Verify, SessionOK, PeerCounterType, Counters, IsSynchronized
  <2> QED BY <2>1, <2>2
<1>2. CASE Verify(s.pmc, c) = "ok"
  <2> USE CounterAssumption
  <2> DEFINE q == Commit(s.pmc, c)
             d == [s.delivered EXCEPT ![c] = IF @ = 2 THEN 2 ELSE @ + 1]
  <2>1. t = [pmc |-> q, delivered |-> d]
    BY <1>2 DEF Dispatch
  <2>2. IsSynchronized(s.pmc) /\ s.delivered[c] = 0
    BY <1>2 DEF Verify, SessionOK, PeerCounterType, Counters, IsSynchronized
  <2>3. /\ d \in [Counters -> 0 .. 1]
        /\ \A e \in Counters : d[e] = IF e = c THEN 1 ELSE s.delivered[e]
    BY <2>2 DEF SessionOK
  <2>4. /\ q \in PeerCounterType
        /\ q.status = s.pmc.status
        /\ q.maxCounter = IF c <= s.pmc.maxCounter THEN s.pmc.maxCounter ELSE c
        /\ \A o \in Offsets :
             o \in q.window <=>
                IF c <= s.pmc.maxCounter THEN o \in s.pmc.window \/ o = s.pmc.maxCounter - c
                ELSE o = 0 \/ o - (c - s.pmc.maxCounter) \in s.pmc.window
    BY <1>2, CommitType DEF SessionOK
  <2> HIDE DEF q, d
  <2>5. ASSUME NEW e \in Counters
        PROVE  /\ e > q.maxCounter => d[e] = 0
               /\ e <= q.maxCounter /\ q.maxCounter - e < WindowSize =>
                    (d[e] = 1 <=> q.maxCounter - e \in q.window)
    <3>1. s.pmc.maxCounter \in Nat /\ s.pmc.window \subseteq Offsets
      BY DEF SessionOK, PeerCounterType, Counters
    <3>2. CASE c <= s.pmc.maxCounter
      <4>1. q.maxCounter = s.pmc.maxCounter
        BY <2>4, <3>2
      <4>2. ASSUME e <= q.maxCounter, q.maxCounter - e < WindowSize
            PROVE  d[e] = 1 <=> q.maxCounter - e \in q.window
        <5>1. q.maxCounter - e \in Offsets
          BY <3>1, <4>1, <4>2 DEF Counters, Offsets
        <5>2. q.maxCounter - e \in q.window <=>
                 q.maxCounter - e \in s.pmc.window \/ e = c
          BY <5>1, <2>4, <3>1, <3>2 DEF Counters
        <5> QED BY <5>2, <2>2, <2>3, <3>1, <4>1, <4>2 DEF SessionOK, Counters
      <4> QED BY <2>2, <2>3, <3>1, <3>2, <4>1, <4>2 DEF SessionOK, Counters
    <3>3. CASE ~(c <= s.pmc.maxCounter)
      <4>1. q.maxCounter = c
        BY <2>4, <3>3
      <4>2. ASSUME e <= c, c - e < WindowSize
            PROVE  d[e] = 1 <=> c - e \in q.window
        <5>1. c - e \in Offsets
          BY <4>2 DEF Counters, Offsets
        <5>2. c - e \in q.window <=> e = c \/ s.pmc.maxCounter - e \in s.pmc.window
          BY <5>1, <2>4, <3>1, <3>3 DEF Counters
        <5>3. s.pmc.maxCounter - e \in s.pmc.window =>
                 e <= s.pmc.maxCounter /\ s.pmc.maxCounter - e < WindowSize
          BY <3>1 DEF Counters, Offsets
        <5>4. e <= s.pmc.maxCounter => s.pmc.maxCounter - e < WindowSize
          BY <4>2, <3>1, <3>3 DEF Counters
        <5> QED BY <5>2, <5>3, <5>4, <2>2, <2>3, <3>1, <4>2 DEF SessionOK, Counters
      <4> QED BY <2>2, <2>3, <3>1, <3>3, <4>1, <4>2 DEF SessionOK, Counters
    <3> QED BY <3>2, <3>3
  <2>6. SessionOK([pmc |-> q, delivered |-> d])
    BY <2>2, <2>3, <2>4, <2>5 DEF SessionOK, IsSynchronized
  <2> QED BY <2>1, <2>3, <2>4, <2>6
<1> QED BY <1>1, <1>2

-----------------------------------------------------------------------------
(* Processing the table.                                                   *)

\* f holds the sessions that the loop goes through in its first n rounds.
IsLoop(f, p, s, n) ==
    f = [i \in 0 .. n |->
            IF i = 0 THEN s
            ELSE IF IsPendingOf(p, i) THEN Dispatch(f[i - 1], table[i].counter)
            ELSE f[i - 1]]

(***************************************************************************)
(* The recursion that stands for the loop has a solution.                  *)
(***************************************************************************)
LEMMA LoopExists == ASSUME NEW p, NEW s, NEW n \in Nat PROVE \E f : IsLoop(f, p, s, n)
<1> DEFINE S == {k \in Nat : \E f : IsLoop(f, p, s, k)}
<1>1. 0 \in S
  <2>1. IsLoop([i \in 0 .. 0 |-> s], p, s, 0)
    BY DEF IsLoop
  <2> QED BY <2>1
<1>2. ASSUME NEW k \in Nat, k \in S PROVE k + 1 \in S
  <2>1. PICK f : IsLoop(f, p, s, k)
    BY <1>2
  <2> DEFINE Round(g, i) == IF i = 0 THEN s
                            ELSE IF IsPendingOf(p, i) THEN Dispatch(g[i - 1], table[i].counter)
                            ELSE g[i - 1]
             g == [i \in 0 .. k + 1 |-> IF i = k + 1 THEN Round(f, i) ELSE f[i]]
  <2>2. \A i \in 0 .. k : f[i] = Round(f, i)
    BY <2>1 DEF IsLoop
  <2>3. \A i \in 0 .. k : g[i] = f[i]
    OBVIOUS
  <2>4. g[k + 1] = Round(f, k + 1)
    OBVIOUS
  <2>5. ASSUME NEW i \in 0 .. k + 1 PROVE g[i] = Round(g, i)
    <3>1. CASE i = 0
      BY <3>1, <2>2, <2>3
    <3>2. CASE i # 0
      <4>1. i - 1 \in 0 .. k
        BY <3>2
      <4>2. g[i - 1] = f[i - 1]
        BY <4>1, <2>3
      <4> HIDE DEF g
      <4>3. Round(g, i) = Round(f, i)
        BY <4>2, <3>2
      <4> HIDE DEF Round
      <4>4. CASE i = k + 1
        BY <4>4, <4>3, <2>4
      <4>5. CASE i # k + 1
        BY <4>5, <4>3, <2>2, <2>3
      <4> QED BY <4>4, <4>5
    <3> QED BY <3>1, <3>2
  <2>6. g = [i \in 0 .. k + 1 |-> Round(g, i)]
    <3>1. g = [i \in 0 .. k + 1 |-> g[i]]
      OBVIOUS
    <3> HIDE DEF g, Round
    <3> QED BY <3>1, <2>5
  <2>7. IsLoop(g, p, s, k + 1)
    BY <2>6 DEF IsLoop
  <2> HIDE DEF g
  <2>8. \E h : IsLoop(h, p, s, k + 1)
    BY <2>7
  <2> QED BY <2>8
<1>3. n \in S
  <2> HIDE DEF S
  <2> QED BY <1>1, <1>2, SetInduction
<1> QED BY <1>3

\* ProcessPendingMessages is the last of the loop's sessions.
LEMMA ProcessPendingLoop ==
    ASSUME NEW p, NEW s
    PROVE  \E f : IsLoop(f, p, s, TableSize) /\ ProcessPendingMessages(p, s) = f[TableSize]
<1> DEFINE f == CHOOSE g : IsLoop(g, p, s, TableSize)
<1>1. IsLoop(f, p, s, TableSize)
  BY LoopExists, TableAssumption
<1>2. ProcessPendingMessages(p, s) = f[TableSize]
  BY DEF ProcessPendingMessages, IsLoop
<1> HIDE DEF f
<1> QED BY <1>1, <1>2

(***************************************************************************)
(* Processing the table keeps the window of the session true, and passes   *)
(* up every message of the session that a window which ends at most at     *)
(* bound still covers.                                                     *)
(***************************************************************************)
LEMMA ProcessPendingOK ==
    ASSUME NEW p, NEW s, s = [pmc |-> s.pmc, delivered |-> s.delivered],
           SessionOK(s), IsSynchronized(s.pmc),
           NEW bound \in Nat, s.pmc.maxCounter <= bound,
           \A i \in 1 .. TableSize : IsPendingOf(p, i) =>
              table[i].counter \in Counters /\ table[i].counter <= bound
    PROVE  LET t == ProcessPendingMessages(p, s)
           IN  /\ SessionOK(t)
               /\ t = [pmc |-> t.pmc, delivered |-> t.delivered]
               /\ IsSynchronized(t.pmc)
               /\ \A i \in 1 .. TableSize :
                     IsPendingOf(p, i) /\ bound - table[i].counter < WindowSize =>
                        t.delivered[table[i].counter] = 1
<1>1. PICK f : IsLoop(f, p, s, TableSize) /\ ProcessPendingMessages(p, s) = f[TableSize]
  BY ProcessPendingLoop
<1> DEFINE Good(t, n) ==
             /\ SessionOK(t)
             /\ t = [pmc |-> t.pmc, delivered |-> t.delivered]
             /\ IsSynchronized(t.pmc)
             /\ t.pmc.maxCounter <= bound
             /\ \A i \in 1 .. n :
                   IsPendingOf(p, i) /\ bound - table[i].counter < WindowSize =>
                      t.delivered[table[i].counter] = 1
           S == {n \in Nat : n <= TableSize => Good(f[n], n)}
<1>2. f[0] = s
  BY <1>1, TableAssumption DEF IsLoop
<1>3. \A i \in 1 .. TableSize :
         f[i] = IF IsPendingOf(p, i) THEN Dispatch(f[i - 1], table[i].counter) ELSE f[i - 1]
  <2> TAKE i \in 1 .. TableSize
  <2>1. i \in 0 .. TableSize /\ i # 0
    BY TableAssumption
  <2> QED BY <1>1, <2>1 DEF IsLoop
<1>4. 0 \in S
  BY <1>2
<1>5. ASSUME NEW n \in Nat, n \in S PROVE n + 1 \in S
  <2> SUFFICES ASSUME n + 1 <= TableSize PROVE Good(f[n + 1], n + 1)
    OBVIOUS
  <2>1. Good(f[n], n)
    BY <1>5, TableAssumption
  <2>2. n + 1 \in 1 .. TableSize /\ n + 1 - 1 = n
    BY TableAssumption
  <2>3. \A i \in 1 .. n + 1 : i \in 1 .. n \/ i = n + 1
    OBVIOUS
  <2>4. CASE ~IsPendingOf(p, n + 1)
    <3>1. f[n + 1] = f[n]
      BY <1>3, <2>2, <2>4
    <3> QED BY <3>1, <2>1, <2>3, <2>4
  <2>5. CASE IsPendingOf(p, n + 1)
    <3> DEFINE c == table[n + 1].counter
               t == f[n]
               u == Dispatch(t, c)
    <3>1. f[n + 1] = u
      BY <1>3, <2>2, <2>5
    <3>2. c \in Counters /\ c <= bound
      BY <2>2, <2>5
    <3>3. /\ SessionOK(u) /\ u = [pmc |-> u.pmc, delivered |-> u.delivered]
          /\ u.pmc.status = t.pmc.status
          /\ \A d \in Counters : t.delivered[d] = 1 => u.delivered[d] = 1
          /\ u.pmc.maxCounter \in {t.pmc.maxCounter, c}
          /\ IsSynchronized(t.pmc) /\ t.pmc.maxCounter - c < WindowSize =>
                u.delivered[c] = 1
      BY <2>1, <3>2, DispatchOK
    <3>4. IsSynchronized(u.pmc) /\ u.pmc.maxCounter <= bound
      BY <2>1, <3>2, <3>3 DEF IsSynchronized
    <3>5. ASSUME NEW i \in 1 .. n + 1, IsPendingOf(p, i),
                 bound - table[i].counter < WindowSize
          PROVE  u.delivered[table[i].counter] = 1
      <4>1. CASE i \in 1 .. n
        <5>1. t.delivered[table[i].counter] = 1
          BY <2>1, <3>5, <4>1
        <5>2. i \in 1 .. TableSize
          BY <4>1, TableAssumption
        <5>3. table[i].counter \in Counters
          BY <3>5, <5>2
        <5> QED BY <5>1, <5>3, <3>3
      <4>2. CASE i = n + 1
        <5>1. t.pmc.maxCounter \in Nat /\ t.pmc.maxCounter <= bound
          BY <2>1, CounterAssumption DEF SessionOK, PeerCounterType, Counters
        <5>2. t.pmc.maxCounter - c < WindowSize
          BY <5>1, <3>2, <3>5, <4>2, CounterAssumption DEF Counters
        <5> QED BY <5>2, <2>1, <3>3, <4>2
      <4> QED BY <2>3, <4>1, <4>2
    <3> QED BY <3>1, <3>3, <3>4, <3>5
  <2> QED BY <2>4, <2>5
<1>6. TableSize \in S
  <2> HIDE DEF S
  <2> QED BY <1>4, <1>5, SetInduction, TableAssumption
<1> QED BY <1>1, <1>6, TableAssumption

-----------------------------------------------------------------------------
(* The inductive invariant.                                                *)

Pending(p) == {i \in DOMAIN table : IsPendingOf(p, i)}

\* What has been passed up is what the window says.
WindowsTrue == \A p \in Peer : SessionOK(Session(p))

\* Only counters that the peer has used are queued, and no answer is ahead of it.
CountersUsed ==
    /\ \A p \in Peer : next[p] >= 1
    /\ \A i \in DOMAIN table : table[i] # Empty =>
          table[i].counter >= 1 /\ table[i].counter < next[table[i].peer]
    /\ \A r \in responses : r.counter >= 1 /\ r.counter <= next[r.peer]

\* The challenge of an attempt is the one sent on the exchange that waits.
ChallengeIsAttempts ==
    \A p \in Peer : IsSynchronizing(pmc[p]) => pmc[p].challenge = waiting[p]

IInv ==
    /\ TypeOK
    /\ WindowsTrue
    /\ CountersUsed
    /\ SyncingHasTimer
    /\ ChallengeIsAttempts
    /\ QueueDrained
    /\ AttemptsBounded

\* Initially every session is unsynchronized and the table is empty.
LEMMA InitIInv == Init => IInv
<1> SUFFICES ASSUME Init PROVE IInv
  OBVIOUS
<1> USE TableAssumption, CounterAssumption
<1>1. Reset \in PeerCounterType
  BY DEF Reset, PeerCounterType, Status, Counters
<1>2. \A p \in Peer : SessionOK(Session(p))
  BY <1>1 DEF Init, Session, SessionOK, Reset, IsSynchronized
<1>3. \A i \in DOMAIN table : table[i] = Empty
  BY DEF Init
<1>4. AttemptsBounded
  <2>1. \A p \in Peer : Pending(p) = {}
    BY <1>3 DEF Pending, IsPendingOf
  <2>2. \A p \in Peer : attempts[p] <= Cardinality(Pending(p))
    <3> TAKE p \in Peer
    <3>1. Cardinality(Pending(p)) = 0
      BY <2>1, FS_EmptySet
    <3> QED BY <3>1 DEF Init
  <2> QED BY <2>2 DEF AttemptsBounded, Pending
<1>5. TypeOK
  BY <1>1 DEF Init, TypeOK, Message, Counters
<1> QED
  BY <1>2, <1>3, <1>4, <1>5
  DEF Init, IInv, WindowsTrue, CountersUsed, SyncingHasTimer, ChallengeIsAttempts, QueueDrained,
      Reset, IsSynchronizing

\* AddToReceiveTable finds a free entry if there is one.
LEMMA FirstFreeIsFree ==
    ASSUME TypeOK, FreeSlots # {}
    PROVE  FirstFree \in 1 .. TableSize /\ table[FirstFree] = Empty
<1>1. FreeSlots \subseteq 1 .. TableSize /\ FreeSlots \subseteq Nat
  BY DEF TypeOK, FreeSlots
<1>2. FirstFree \in FreeSlots
  BY <1>1, LeastElement DEF FirstFree
<1> QED BY <1>1, <1>2 DEF FreeSlots

\* No session has more entries in the table than the table has.
LEMMA PendingBounded ==
    ASSUME NEW p, DOMAIN table = 1 .. TableSize
    PROVE  IsFiniteSet(Pending(p)) /\ Cardinality(Pending(p)) <= TableSize
<1>1. IsFiniteSet(1 .. TableSize) /\ Cardinality(1 .. TableSize) = TableSize
  BY FS_Interval, TableAssumption
<1>2. Pending(p) \in SUBSET (1 .. TableSize)
  BY DEF Pending
<1> HIDE DEF Pending
<1>3. IsFiniteSet(Pending(p)) /\ Cardinality(Pending(p)) <= Cardinality(1 .. TableSize)
  BY <1>1, <1>2, FS_Subset
<1> QED BY <1>1, <1>3

\* A peer that uses a counter disturbs nothing at the receiver.
LEMMA PeerSendIInv == ASSUME IInv, NEW p \in Peer, PeerSend(p) PROVE IInv'
<1> USE CounterAssumption
<1>1. TypeOK'
  BY DEF IInv, TypeOK, PeerSend, Counters
<1>2. CountersUsed'
  BY DEF IInv, TypeOK, PeerSend, CountersUsed, Counters, Message, Empty
<1> QED
  BY <1>1, <1>2
  DEF IInv, PeerSend, WindowsTrue, Session, SyncingHasTimer, ChallengeIsAttempts, QueueDrained,
      AttemptsBounded, IsPendingOf

\* An answer carries a counter that the peer has reached.
LEMMA PeerRespondIInv ==
    ASSUME IInv, NEW p \in Peer, NEW n \in Attempts, PeerRespond(p, n) PROVE IInv'
<1> USE CounterAssumption
<1>1. TypeOK'
  BY DEF IInv, TypeOK, PeerRespond
<1>2. CountersUsed'
  BY DEF IInv, TypeOK, PeerRespond, CountersUsed, Counters
<1> QED
  BY <1>1, <1>2
  DEF IInv, PeerRespond, WindowsTrue, Session, SyncingHasTimer, ChallengeIsAttempts, QueueDrained,
      AttemptsBounded, IsPendingOf

\* Queueing a message and starting an attempt: the table grows with attempts.
LEMMA ReceiveUnsyncedIInv ==
    ASSUME IInv, NEW p \in Peer, NEW counter \in Counters, ReceiveUnsynced(p, counter)
    PROVE  IInv'
<1> USE CounterAssumption, TableAssumption
<1>1. CASE FreeSlots = {}
  <2>1. UNCHANGED vars
    BY <1>1 DEF ReceiveUnsynced, QueueReceivedMessageAndStartSync, vars
  <2> QED
    BY <2>1
    DEF vars, IInv, TypeOK, WindowsTrue, Session, CountersUsed, SyncingHasTimer, ChallengeIsAttempts, QueueDrained,
        AttemptsBounded, IsPendingOf
<1>2. CASE FreeSlots # {}
  <2> DEFINE k == FirstFree
             m == [peer |-> p, counter |-> counter]
  <2>1. k \in 1 .. TableSize /\ table[k] = Empty
    BY <1>2, FirstFreeIsFree DEF IInv
  <2>2. table' = [table EXCEPT ![k] = m] /\ StartSync(p)
    BY <1>2 DEF ReceiveUnsynced, QueueReceivedMessageAndStartSync
  <2>3. UNCHANGED <<next, responses, delivered>> /\ counter \in 1 .. next[p] - 1
        /\ ~IsSynchronized(pmc[p])
    BY DEF ReceiveUnsynced
  <2>4. m \in Message /\ m # Empty
    BY <2>3 DEF Message, Empty
  <2> HIDE DEF k
  <2>5. /\ DOMAIN table = 1 .. TableSize /\ DOMAIN table' = 1 .. TableSize
        /\ table'[k] = m
        /\ \A i \in 1 .. TableSize : i # k => table'[i] = table[i]
    BY <2>1, <2>2 DEF IInv, TypeOK
  <2>6. Pending(p)' = Pending(p) \cup {k} /\ k \notin Pending(p)
    BY <2>1, <2>4, <2>5 DEF Pending, IsPendingOf
  <2>7. \A q \in Peer : q # p => Pending(q)' = Pending(q)
    BY <2>1, <2>5 DEF Pending, IsPendingOf, Empty
  <2>8. /\ Cardinality(Pending(p)') = Cardinality(Pending(p)) + 1
        /\ Cardinality(Pending(p)') <= TableSize
        /\ Cardinality(Pending(p)) \in Nat
    <3>1. IsFiniteSet(Pending(p))
      BY <2>5, PendingBounded
    <3>2. Cardinality(Pending(p)) \in Nat
      BY <3>1, FS_CardinalityType
    <3>3. Pending(p)' \subseteq 1 .. TableSize
      BY <2>5 DEF Pending
    <3>4. Cardinality(Pending(p)') <= TableSize
      BY <3>3, FS_Interval, FS_Subset
    <3> QED BY <3>1, <3>2, <3>4, <2>6, FS_AddElement
  <2>9. attempts[p] <= Cardinality(Pending(p))
    BY <2>3 DEF IInv, AttemptsBounded, Pending
  <2>10. attempts[p] \in Nat /\ attempts[p] + 1 <= Cardinality(Pending(p)')
         /\ attempts[p] + 1 \in Attempts
    BY <2>8, <2>9 DEF IInv, TypeOK, Attempts
  <2>11. \A q \in Peer : q # p => /\ pmc'[q] = pmc[q]
                                  /\ attempts'[q] = attempts[q]
                                  /\ waiting'[q] = waiting[q]
    BY <2>2 DEF IInv, TypeOK, StartSync
  <2>12. /\ pmc' \in [Peer -> PeerCounterType]
         /\ attempts' \in [Peer -> 0 .. TableSize]
         /\ waiting' \in [Peer -> 0 .. TableSize]
         /\ ~IsSynchronized(pmc'[p])
         /\ attempts'[p] <= Cardinality(Pending(p)')
         /\ IsSynchronizing(pmc'[p]) <=> waiting'[p] # 0
         /\ IsSynchronizing(pmc'[p]) => pmc'[p].challenge = waiting'[p]
    <3>1. CASE IsSynchronizing(pmc[p]) /\ UNCHANGED <<pmc, attempts, waiting>>
      BY <3>1, <2>3, <2>8, <2>10 DEF IInv, TypeOK, SyncingHasTimer, ChallengeIsAttempts
    <3>2. CASE /\ ~IsSynchronizing(pmc[p])
               /\ attempts' = [attempts EXCEPT ![p] = @ + 1]
               /\ waiting' = [waiting EXCEPT ![p] = attempts[p] + 1]
               /\ pmc' = [pmc EXCEPT ![p] = SyncStarting(attempts[p] + 1)]
      <4>1. SyncStarting(attempts[p] + 1) \in PeerCounterType
        BY <2>10, ChallengeAssumption DEF SyncStarting, PeerCounterType, Status, Counters
      <4>2. /\ IsSynchronizing(SyncStarting(attempts[p] + 1))
            /\ ~IsSynchronized(SyncStarting(attempts[p] + 1))
            /\ SyncStarting(attempts[p] + 1).challenge = attempts[p] + 1
        BY DEF SyncStarting, IsSynchronizing, IsSynchronized
      <4>3. pmc'[p] = SyncStarting(attempts[p] + 1) /\ waiting'[p] = attempts[p] + 1
            /\ attempts'[p] = attempts[p] + 1
        BY <3>2 DEF IInv, TypeOK
      <4>4. attempts[p] + 1 \in 0 .. TableSize /\ attempts[p] + 1 # 0
        BY <2>10 DEF Attempts
      <4> QED BY <3>2, <4>1, <4>2, <4>3, <4>4, <2>10 DEF IInv, TypeOK
    <3>3. CASE /\ ~IsSynchronizing(pmc[p])
               /\ pmc' = [pmc EXCEPT ![p] = SyncFailed]
               /\ UNCHANGED <<attempts, waiting>>
      <4>1. SyncFailed \in PeerCounterType /\ ~IsSynchronizing(SyncFailed) /\ ~IsSynchronized(SyncFailed)
        BY DEF SyncFailed, Reset, PeerCounterType, Status, Counters, IsSynchronizing, IsSynchronized
      <4>2. pmc'[p] = SyncFailed /\ attempts'[p] = attempts[p] /\ waiting'[p] = waiting[p]
        BY <3>3 DEF IInv, TypeOK
      <4> QED BY <3>3, <4>1, <4>2, <2>8, <2>10 DEF IInv, TypeOK, SyncingHasTimer
    <3> QED BY <3>1, <3>2, <3>3, <2>2 DEF StartSync
  <2>13. TypeOK'
    BY <2>12, <2>1, <2>2, <2>3, <2>4 DEF IInv, TypeOK
  <2>14. WindowsTrue'
    BY <2>3, <2>11, <2>12 DEF IInv, TypeOK, WindowsTrue, Session, SessionOK
  <2>15. CountersUsed'
    <3>1. ASSUME NEW i \in 1 .. TableSize, table'[i] # Empty
          PROVE  table'[i].counter >= 1 /\ table'[i].counter < next[table'[i].peer]
      <4>1. CASE i = k
        BY <4>1, <2>3, <2>5 DEF IInv, TypeOK, Counters
      <4>2. CASE i # k
        BY <3>1, <4>2, <2>5 DEF IInv, CountersUsed
      <4> QED BY <4>1, <4>2
    <3> QED BY <3>1, <2>3, <2>5 DEF IInv, CountersUsed
  <2>16. SyncingHasTimer' /\ ChallengeIsAttempts'
    BY <2>11, <2>12 DEF IInv, SyncingHasTimer, ChallengeIsAttempts
  <2>17. QueueDrained'
    <3>1. ASSUME NEW i \in 1 .. TableSize, table'[i] # Empty
          PROVE  ~IsSynchronized(pmc'[table'[i].peer])
      <4>1. CASE i = k
        BY <4>1, <2>5, <2>12
      <4>2. CASE i # k
        <5>1. table'[i] = table[i] /\ table[i] # Empty /\ ~IsSynchronized(pmc[table[i].peer])
          BY <3>1, <4>2, <2>5 DEF IInv, QueueDrained
        <5>2. table[i].peer \in Peer
          BY <5>1 DEF IInv, TypeOK, Message
        <5> QED BY <5>1, <5>2, <2>11, <2>12
      <4> QED BY <4>1, <4>2
    <3> QED BY <3>1, <2>5 DEF QueueDrained
  <2>18. AttemptsBounded'
    <3>1. ASSUME NEW q \in Peer, ~IsSynchronized(pmc'[q])
          PROVE  attempts'[q] <= Cardinality(Pending(q)')
      BY <3>1, <2>7, <2>11, <2>12 DEF IInv, AttemptsBounded, Pending
    <3> QED BY <3>1 DEF AttemptsBounded, Pending, IsPendingOf
  <2> QED BY <2>13, <2>14, <2>15, <2>16, <2>17, <2>18 DEF IInv
<1> QED BY <1>1, <1>2

\* Dispatching a message of a synchronized session.
LEMMA ReceiveSyncedIInv ==
    ASSUME IInv, NEW p \in Peer, NEW counter \in Counters, ReceiveSynced(p, counter)
    PROVE  IInv'
<1> USE CounterAssumption, TableAssumption
<1> DEFINE s == Session(p)
           t == Dispatch(s, counter)
<1>1. s = [pmc |-> s.pmc, delivered |-> s.delivered] /\ SessionOK(s)
      /\ s.pmc = pmc[p] /\ IsSynchronized(pmc[p])
  BY DEF IInv, WindowsTrue, Session, ReceiveSynced
<1>2. /\ t = [pmc |-> t.pmc, delivered |-> t.delivered] /\ SessionOK(t)
      /\ t.pmc.status = pmc[p].status
  BY <1>1, DispatchOK
<1>3. /\ pmc' = [pmc EXCEPT ![p] = t.pmc]
      /\ delivered' = [delivered EXCEPT ![p] = t.delivered]
      /\ UNCHANGED <<attempts, waiting, table, next, responses>>
  BY DEF ReceiveSynced
<1> HIDE DEF s, t
<1>4. \A q \in Peer : pmc'[q] = (IF q = p THEN t.pmc ELSE pmc[q])
                      /\ delivered'[q] = (IF q = p THEN t.delivered ELSE delivered[q])
  BY <1>3 DEF IInv, TypeOK
<1>5. \A q \in Peer : /\ IsSynchronized(pmc'[q]) <=> IsSynchronized(pmc[q])
                      /\ IsSynchronizing(pmc'[q]) <=> IsSynchronizing(pmc[q])
  BY <1>2, <1>4 DEF IsSynchronized, IsSynchronizing
<1>6. TypeOK'
  <2>1. t.pmc \in PeerCounterType /\ t.delivered \in [Counters -> 0 .. 2]
    BY <1>2 DEF SessionOK
  <2> QED BY <2>1, <1>3 DEF IInv, TypeOK
<1>7. WindowsTrue'
  <2>1. Session(p)' = [pmc |-> t.pmc, delivered |-> t.delivered]
    BY <1>4 DEF Session
  <2>2. \A q \in Peer : q # p => Session(q)' = Session(q)
    BY <1>4 DEF Session
  <2>3. ASSUME NEW q \in Peer PROVE SessionOK(Session(q)')
    BY <1>2, <2>1, <2>2 DEF IInv, WindowsTrue
  <2>4. \A q \in Peer : SessionOK(Session(q))'
    BY <2>3 DEF SessionOK
  <2> QED BY <2>4 DEF WindowsTrue
<1>8. CountersUsed'
  BY <1>3 DEF IInv, CountersUsed
<1>9. SyncingHasTimer' /\ QueueDrained' /\ AttemptsBounded'
  BY <1>3, <1>5
  DEF IInv, TypeOK, SyncingHasTimer, QueueDrained, AttemptsBounded, IsPendingOf, Message
<1>10. ChallengeIsAttempts'
  BY <1>1, <1>3, <1>4, <1>5 DEF IInv, ChallengeIsAttempts, IsSynchronized, IsSynchronizing
<1> QED BY <1>6, <1>7, <1>8, <1>9, <1>10 DEF IInv

\* A response r that the challenge of the session p accepts, and the session it
\* leaves behind (HandleMsgCounterSyncResp).
Synchronizes(p, r) == r.counter # 0 /\ ChallengeMatches(pmc[p], r.exchange)

Resynchronized(p, r) ==
    ProcessPendingMessages(p, [Session(p) EXCEPT !.pmc = VerifyChallenge(pmc[p], r.counter, r.exchange)])

(***************************************************************************)
(* What a response does to its session: the session is synchronized, its   *)
(* window is true, and the messages queued for it that are less than a     *)
(* window behind the peer have been passed up.                             *)
(***************************************************************************)
LEMMA ResynchronizedOK ==
    ASSUME IInv, NEW p \in Peer, NEW r \in responses, r.peer = p, Synchronizes(p, r)
    PROVE  LET t == Resynchronized(p, r)
           IN  /\ SessionOK(t)
               /\ t = [pmc |-> t.pmc, delivered |-> t.delivered]
               /\ IsSynchronized(t.pmc)
               /\ \A i \in 1 .. TableSize :
                     IsPendingOf(p, i) /\ next[p] - table[i].counter < WindowSize =>
                        t.delivered[table[i].counter] = 1
<1> USE CounterAssumption, TableAssumption
<1> DEFINE s == [pmc |-> SetCounter(r.counter), delivered |-> delivered[p]]
<1>1. [Session(p) EXCEPT !.pmc = VerifyChallenge(pmc[p], r.counter, r.exchange)] = s
  BY DEF Synchronizes, VerifyChallenge, Session
<1>2. r.counter \in Counters /\ r.counter <= next[p] /\ next[p] \in Nat
  BY DEF IInv, TypeOK, CountersUsed, Counters
<1>3. \A c \in Counters : delivered[p][c] = 0
  BY DEF IInv, WindowsTrue, Session, SessionOK, Synchronizes, ChallengeMatches,
         IsSynchronizing, IsSynchronized
<1>4. delivered[p] \in [Counters -> 0 .. 1]
  BY DEF IInv, WindowsTrue, Session, SessionOK
<1>5. SetCounter(r.counter) \in PeerCounterType
  BY <1>2 DEF SetCounter, PeerCounterType, Status
<1>6. SessionOK(s) /\ IsSynchronized(s.pmc) /\ s.pmc.maxCounter = r.counter
  BY <1>2, <1>3, <1>4, <1>5 DEF SessionOK, SetCounter, IsSynchronized
<1>7. ASSUME NEW i \in 1 .. TableSize, IsPendingOf(p, i)
      PROVE  table[i].counter \in Counters /\ table[i].counter <= next[p]
  BY <1>2, <1>7 DEF IsPendingOf, IInv, TypeOK, CountersUsed, Message, Counters
<1>8. s = [pmc |-> s.pmc, delivered |-> s.delivered]
  OBVIOUS
<1> HIDE DEF s
<1>9. s.pmc.maxCounter <= next[p]
  BY <1>2, <1>6
<1>10. Resynchronized(p, r) = ProcessPendingMessages(p, s)
  BY <1>1 DEF Resynchronized
<1> DEFINE t == ProcessPendingMessages(p, s)
<1>11. /\ SessionOK(t)
       /\ t = [pmc |-> t.pmc, delivered |-> t.delivered]
       /\ IsSynchronized(t.pmc)
       /\ \A i \in 1 .. TableSize :
             IsPendingOf(p, i) /\ next[p] - table[i].counter < WindowSize =>
                t.delivered[table[i].counter] = 1
  BY <1>2, <1>6, <1>7, <1>8, <1>9, ProcessPendingOK
<1> QED BY <1>10, <1>11

\* A response synchronizes its session and empties the table of it.
LEMMA HandleMsgCounterSyncRespIInv ==
    ASSUME IInv, NEW p \in Peer, NEW r \in responses, HandleMsgCounterSyncResp(p, r)
    PROVE  IInv'
<1> USE CounterAssumption, TableAssumption
<1>1. r.peer = p /\ r.exchange = waiting[p] /\ waiting' = [waiting EXCEPT ![p] = 0]
      /\ UNCHANGED <<attempts, next, responses>> /\ waiting[p] # 0
  BY DEF HandleMsgCounterSyncResp, IInv, TypeOK, Attempts
<1>2. CASE Synchronizes(p, r)
  <2> DEFINE t == Resynchronized(p, r)
  <2>1. /\ pmc' = [pmc EXCEPT ![p] = t.pmc]
        /\ delivered' = [delivered EXCEPT ![p] = t.delivered]
        /\ table' = TableWithout(p)
    BY <1>2 DEF HandleMsgCounterSyncResp, Synchronizes, Resynchronized
  <2>2. SessionOK(t) /\ t = [pmc |-> t.pmc, delivered |-> t.delivered] /\ IsSynchronized(t.pmc)
    BY <1>1, <1>2, ResynchronizedOK
  <2> HIDE DEF t
  <2>3. \A q \in Peer : /\ pmc'[q] = (IF q = p THEN t.pmc ELSE pmc[q])
                        /\ delivered'[q] = (IF q = p THEN t.delivered ELSE delivered[q])
                        /\ waiting'[q] = (IF q = p THEN 0 ELSE waiting[q])
    BY <1>1, <2>1 DEF IInv, TypeOK
  <2>4. /\ DOMAIN table' = 1 .. TableSize /\ DOMAIN table = 1 .. TableSize
        /\ \A i \in 1 .. TableSize : table'[i] = IF IsPendingOf(p, i) THEN Empty ELSE table[i]
    BY <2>1 DEF TableWithout, IInv, TypeOK
  <2>5. TypeOK'
    <3>1. t.pmc \in PeerCounterType /\ t.delivered \in [Counters -> 0 .. 2]
      BY <2>2 DEF SessionOK
    <3>2. table' \in [1 .. TableSize -> Message \cup {Empty}]
      BY <2>1 DEF TableWithout, IInv, TypeOK
    <3> QED BY <3>1, <3>2, <1>1, <2>1 DEF IInv, TypeOK
  <2>6. WindowsTrue'
    <3>1. Session(p)' = [pmc |-> t.pmc, delivered |-> t.delivered]
      BY <2>3 DEF Session
    <3>2. \A q \in Peer : q # p => Session(q)' = Session(q)
      BY <2>3 DEF Session
    <3>3. ASSUME NEW q \in Peer PROVE SessionOK(Session(q)')
      BY <2>2, <3>1, <3>2 DEF IInv, WindowsTrue
    <3>4. \A q \in Peer : SessionOK(Session(q))'
      BY <3>3 DEF SessionOK
    <3> QED BY <3>4 DEF WindowsTrue
  <2>7. CountersUsed'
    BY <1>1, <2>4 DEF IInv, CountersUsed
  <2>8. SyncingHasTimer' /\ ChallengeIsAttempts'
    BY <2>2, <2>3
    DEF IInv, SyncingHasTimer, ChallengeIsAttempts, IsSynchronized, IsSynchronizing
  <2>9. QueueDrained'
    BY <2>3, <2>4 DEF IInv, TypeOK, Message, QueueDrained, IsPendingOf
  <2>10. AttemptsBounded'
    <3>1. ASSUME NEW q \in Peer, q # p PROVE Pending(q)' = Pending(q)
      BY <3>1, <2>4 DEF Pending, IsPendingOf
    <3>2. ASSUME NEW q \in Peer, ~IsSynchronized(pmc'[q])
          PROVE  attempts'[q] <= Cardinality(Pending(q)')
      <4>1. q # p
        BY <3>2, <2>2, <2>3
      <4> QED BY <3>1, <3>2, <4>1, <1>1, <2>3 DEF IInv, AttemptsBounded, Pending
    <3> QED BY <3>2 DEF AttemptsBounded, Pending, IsPendingOf
  <2> QED BY <2>5, <2>6, <2>7, <2>8, <2>9, <2>10 DEF IInv
<1>3. CASE ~Synchronizes(p, r)
  \* Such a response would leave SyncInProcess without its timer.
  <2>1. r.counter # 0 /\ IsSynchronizing(pmc[p]) /\ pmc[p].challenge = r.exchange
    BY <1>1 DEF IInv, TypeOK, CountersUsed, Counters, SyncingHasTimer, ChallengeIsAttempts
  <2> QED BY <2>1, <1>3 DEF Synchronizes, ChallengeMatches
<1> QED BY <1>2, <1>3

\* A timeout ends an attempt of a session that has passed nothing up.
LEMMA OnResponseTimeoutIInv == ASSUME IInv, NEW p \in Peer, OnResponseTimeout(p) PROVE IInv'
<1> USE CounterAssumption, TableAssumption
<1>1. /\ waiting' = [waiting EXCEPT ![p] = 0]
      /\ pmc' = [pmc EXCEPT ![p] = SyncFailed]
      /\ UNCHANGED <<attempts, table, next, responses, delivered>>
      /\ IsSynchronizing(pmc[p])
  BY DEF OnResponseTimeout, IInv, SyncingHasTimer
<1>2. SyncFailed \in PeerCounterType /\ ~IsSynchronizing(SyncFailed) /\ ~IsSynchronized(SyncFailed)
  BY DEF SyncFailed, Reset, PeerCounterType, Status, Counters, IsSynchronizing, IsSynchronized
<1>3. \A q \in Peer : /\ pmc'[q] = (IF q = p THEN SyncFailed ELSE pmc[q])
                      /\ waiting'[q] = (IF q = p THEN 0 ELSE waiting[q])
  BY <1>1 DEF IInv, TypeOK
<1>4. ~IsSynchronized(pmc[p])
  BY <1>1 DEF IsSynchronizing, IsSynchronized
<1>5. TypeOK'
  BY <1>1, <1>2 DEF IInv, TypeOK
<1>6. WindowsTrue'
  BY <1>1, <1>2, <1>3, <1>4 DEF IInv, WindowsTrue, Session, SessionOK
<1>7. CountersUsed' /\ SyncingHasTimer' /\ ChallengeIsAttempts'
  BY <1>1, <1>2, <1>3 DEF IInv, CountersUsed, SyncingHasTimer, ChallengeIsAttempts
<1>8. QueueDrained' /\ AttemptsBounded'
  BY <1>1, <1>2, <1>3, <1>4 DEF IInv, TypeOK, Message, QueueDrained, AttemptsBounded, IsPendingOf
<1> QED BY <1>5, <1>6, <1>7, <1>8 DEF IInv

\* Every step keeps the inductive invariant.
LEMMA NextIInv == IInv /\ [Next]_vars => IInv'
<1> SUFFICES ASSUME IInv, [Next]_vars PROVE IInv'
  OBVIOUS
<1>1. CASE Next
  <2>1. PICK p \in Peer :
           \/ PeerSend(p)
           \/ \E n \in Attempts : PeerRespond(p, n)
           \/ \E counter \in Counters : ReceiveUnsynced(p, counter)
           \/ \E counter \in Counters : ReceiveSynced(p, counter)
           \/ \E r \in responses : HandleMsgCounterSyncResp(p, r)
           \/ OnResponseTimeout(p)
    BY <1>1 DEF Next
  <2> QED BY <2>1, PeerSendIInv, PeerRespondIInv, ReceiveUnsyncedIInv, ReceiveSyncedIInv,
             HandleMsgCounterSyncRespIInv, OnResponseTimeoutIInv
<1>2. CASE UNCHANGED vars
  BY <1>2
  DEF vars, IInv, TypeOK, WindowsTrue, Session, CountersUsed, SyncingHasTimer, ChallengeIsAttempts,
      QueueDrained, AttemptsBounded, IsPendingOf
<1> QED BY <1>1, <1>2

-----------------------------------------------------------------------------
(* The theorems.                                                           *)

(***************************************************************************)
(* The inductive invariant holds in every reachable state.                 *)
(***************************************************************************)
THEOREM InvariantHolds == Spec => []IInv
BY InitIInv, NextIInv, PTL DEF Spec

(***************************************************************************)
(* Type correctness; in particular a table of any size bounds the number   *)
(* of requests a session sends (SendMsgCounterSyncReq).                    *)
(***************************************************************************)
THEOREM TypeCorrect == Spec => []TypeOK
<1>1. IInv => TypeOK
  BY DEF IInv
<1> QED BY <1>1, InvariantHolds, PTL

(***************************************************************************)
(* No message is passed up as new twice, whether it arrives directly or    *)
(* through the table, and however many attempts it takes to synchronize    *)
(* (SecureMessageDispatch, ProcessPendingMessages).                        *)
(***************************************************************************)
THEOREM AtMostOnce == Spec => []DeliveredAtMostOnce
<1>1. IInv => DeliveredAtMostOnce
  BY DEF IInv, WindowsTrue, Session, SessionOK, DeliveredAtMostOnce
<1> QED BY <1>1, InvariantHolds, PTL

(***************************************************************************)
(* A session in SyncInProcess has the response timer that will end the     *)
(* attempt, and no other session has one (StartSync, OnResponseTimeout).   *)
(***************************************************************************)
THEOREM TimerWhileSyncing == Spec => []SyncingHasTimer
<1>1. IInv => SyncingHasTimer
  BY DEF IInv
<1> QED BY <1>1, InvariantHolds, PTL

(***************************************************************************)
(* A synchronized session has no message left in the table, from which     *)
(* nothing would take it (ProcessPendingMessages).                         *)
(***************************************************************************)
THEOREM TableDrained == Spec => []QueueDrained
<1>1. IInv => QueueDrained
  BY DEF IInv
<1> QED BY <1>1, InvariantHolds, PTL

(***************************************************************************)
(* Every request of a session that is not synchronized has a message in    *)
(* the table, so a full table ends the requests (AddToReceiveTable).       *)
(***************************************************************************)
THEOREM RequestsBounded == Spec => []AttemptsBounded
<1>1. IInv => AttemptsBounded
  BY DEF IInv
<1> QED BY <1>1, InvariantHolds, PTL

(***************************************************************************)
(* The step that synchronizes a session passes up every message queued for *)
(* it that is less than a window behind the peer (HandleMsgCounterSyncResp *)
(* and ProcessPendingMessages).                                            *)
(***************************************************************************)
THEOREM SynchronizingDelivers == Spec => PendingDelivered
<1> DEFINE Step ==
      \A p \in Peer :
        ~IsSynchronized(pmc[p]) /\ IsSynchronized(pmc'[p]) =>
            \A i \in DOMAIN table :
                table[i].peer = p /\ next[p] - table[i].counter < WindowSize =>
                    delivered'[p][table[i].counter] = 1
<1>1. IInv /\ [Next]_vars => [Step]_vars
  <2> SUFFICES ASSUME IInv, Next,
                      NEW p \in Peer, ~IsSynchronized(pmc[p]), IsSynchronized(pmc'[p]),
                      NEW i \in DOMAIN table, table[i].peer = p,
                      next[p] - table[i].counter < WindowSize
               PROVE  delivered'[p][table[i].counter] = 1
    OBVIOUS
  <2>1. PICK q \in Peer :
           \/ PeerSend(q)
           \/ \E n \in Attempts : PeerRespond(q, n)
           \/ \E counter \in Counters : ReceiveUnsynced(q, counter)
           \/ \E counter \in Counters : ReceiveSynced(q, counter)
           \/ \E r \in responses : HandleMsgCounterSyncResp(q, r)
           \/ OnResponseTimeout(q)
    BY DEF Next
  <2>2. ~PeerSend(q) /\ ~(\E n \in Attempts : PeerRespond(q, n))
    BY DEF PeerSend, PeerRespond
  <2> DEFINE Unsynced == {SyncFailed} \cup {SyncStarting(n) : n \in Nat}
  <2>3. \A u \in Unsynced : ~IsSynchronized(u)
    BY DEF SyncFailed, Reset, SyncStarting, IsSynchronized
  <2>4. ASSUME NEW u \in Unsynced PROVE pmc' # [pmc EXCEPT ![q] = u]
    BY <2>3 DEF IInv, TypeOK
  <2>5. ~OnResponseTimeout(q)
    BY <2>4 DEF OnResponseTimeout
  <2>6. ~(\E counter \in Counters : ReceiveUnsynced(q, counter))
    <3>1. attempts[q] + 1 \in Nat
      BY DEF IInv, TypeOK
    <3>2. SyncStarting(attempts[q] + 1) \in Unsynced
      BY <3>1
    <3>3. ~StartSync(q) /\ pmc' # pmc
      BY <3>2, <2>4 DEF StartSync
    <3> QED BY <3>3 DEF ReceiveUnsynced, QueueReceivedMessageAndStartSync
  <2>7. ~(\E counter \in Counters : ReceiveSynced(q, counter))
    <3>1. ASSUME NEW counter \in Counters, ReceiveSynced(q, counter) PROVE p = q
      BY <3>1 DEF ReceiveSynced, IInv, TypeOK
    <3> QED BY <3>1 DEF ReceiveSynced
  <2>8. PICK r \in responses : HandleMsgCounterSyncResp(q, r)
    BY <2>1, <2>2, <2>5, <2>6, <2>7
  <2>9. p = q /\ Synchronizes(p, r)
    BY <2>8 DEF HandleMsgCounterSyncResp, Synchronizes, IInv, TypeOK
  <2>10. delivered'[p] = Resynchronized(p, r).delivered /\ r.peer = p
    BY <2>8, <2>9 DEF HandleMsgCounterSyncResp, Synchronizes, Resynchronized, IInv, TypeOK
  <2>11. IsPendingOf(p, i) /\ i \in 1 .. TableSize
    BY PeerAssumption DEF IsPendingOf, Empty, IInv, TypeOK
  <2> QED BY <2>9, <2>10, <2>11, ResynchronizedOK
<1>2. [][Step]_vars => PendingDelivered
  BY PTL DEF PendingDelivered
<1> QED BY <1>1, <1>2, InvariantHolds, PTL DEF Spec
=============================================================================

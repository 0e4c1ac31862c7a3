--------------------- MODULE ReliableMessageMgr_proofs ---------------------
(***************************************************************************)
(* Proofs about the retransmission timer, for every tick length, every set *)
(* of timeouts and any number of exchanges.                                *)
(***************************************************************************)
EXTENDS ReliableMessageMgr, TLAPS

\* Whole ticks: never more than has passed, and short of it by less than one.
LEMMA ElapsedBounds ==
    ASSUME now \in Nat, NEW b \in Nat, b <= now
    PROVE  /\ Elapsed(b) \in Nat
           /\ b + Elapsed(b) <= now
           /\ now - (b + Elapsed(b)) < TickLen
  <1>1. now - b \in Nat
    OBVIOUS
  <1>2. /\ (now - b) % TickLen \in Nat
        /\ (now - b) % TickLen < TickLen
        /\ (now - b) % TickLen <= now - b
    BY <1>1, TimerAssumption
  <1>3. QED
    BY <1>1, <1>2, TimerAssumption DEF Elapsed

\* Within a tick of base there is nothing to expire.
LEMMA ElapsedZero ==
    ASSUME now \in Nat, NEW b \in Nat, b <= now, now - b < TickLen
    PROVE  Elapsed(b) = 0
  <1>1. now - b \in Nat
    OBVIOUS
  <1>2. (now - b) % TickLen = now - b
    BY <1>1, TimerAssumption
  <1>3. QED
    BY <1>1, <1>2 DEF Elapsed

\* Everything ExpireTicks does, in one place.
LEMMA ExpireTicks ==
    ASSUME TypeOK, NoDrift
    PROVE  /\ NewBase \in Nat
           /\ base <= NewBase
           /\ NewBase <= now
           /\ now - NewBase < TickLen
           /\ Elapsed(NewBase) = 0
           /\ NewLeft \in [Exchange -> Nat]
           /\ NewAckLeft \in [Exchange -> Nat]
           /\ \A x \in used :
                /\ NewLeft[x] = IF dueAt[x] > NewBase THEN dueAt[x] - NewBase ELSE 0
                /\ NewBase + NewLeft[x] >= base + left[x]
           /\ \A x \in ackPending :
                /\ NewAckLeft[x] = IF ackDueAt[x] > NewBase THEN ackDueAt[x] - NewBase ELSE 0
                /\ NewBase + NewAckLeft[x] >= base + ackLeft[x]
           /\ \A x \in Exchange \ ackPending : NewAckLeft[x] = ackLeft[x]
  <1>1. /\ now \in Nat /\ base \in Nat /\ base <= now
        /\ left \in [Exchange -> Nat] /\ ackLeft \in [Exchange -> Nat]
        /\ dueAt \in [Exchange -> Nat] /\ ackDueAt \in [Exchange -> Nat]
        /\ used \subseteq Exchange /\ ackPending \subseteq Exchange
    BY DEF TypeOK, NoDrift
  <1>2. /\ Elapsed(base) \in Nat
        /\ base + Elapsed(base) <= now
        /\ now - (base + Elapsed(base)) < TickLen
    BY <1>1, ElapsedBounds
  <1>3. /\ NewBase \in Nat
        /\ NewBase = base + Elapsed(base)
        /\ base <= NewBase
        /\ NewBase <= now
        /\ now - NewBase < TickLen
    BY <1>1, <1>2, TimerAssumption DEF NewBase
  <1>4. Elapsed(NewBase) = 0
    BY <1>1, <1>3, ElapsedZero
  <1>5. /\ \A t, e \in Nat : TickProceed(t, e) \in Nat
        /\ \A t, e \in Nat : TickProceed(t, e) = IF t >= e THEN t - e ELSE 0
    BY DEF TickProceed
  <1>6. NewLeft \in [Exchange -> Nat] /\ NewAckLeft \in [Exchange -> Nat]
    BY <1>1, <1>2, <1>5 DEF NewLeft, NewAckLeft
  <1>7. ASSUME NEW x \in used
        PROVE  /\ NewLeft[x] = IF dueAt[x] > NewBase THEN dueAt[x] - NewBase ELSE 0
               /\ NewBase + NewLeft[x] >= base + left[x]
    <2>1. NewLeft[x] = IF left[x] >= Elapsed(base) THEN left[x] - Elapsed(base) ELSE 0
      BY <1>1, <1>2, <1>5 DEF NewLeft
    <2>2. left[x] = IF dueAt[x] > base THEN dueAt[x] - base ELSE 0
      BY DEF NoDrift
    <2>3. x \in Exchange
      BY <1>1
    <2>4. dueAt[x] \in Nat /\ left[x] \in Nat
      BY <1>1, <2>3
    <2>5. QED
      BY <1>1, <1>2, <1>3, <2>1, <2>2, <2>4
  <1>8. ASSUME NEW x \in ackPending
        PROVE  /\ NewAckLeft[x] = IF ackDueAt[x] > NewBase THEN ackDueAt[x] - NewBase ELSE 0
               /\ NewBase + NewAckLeft[x] >= base + ackLeft[x]
    <2>1. NewAckLeft[x] = IF ackLeft[x] >= Elapsed(base) THEN ackLeft[x] - Elapsed(base) ELSE 0
      BY <1>1, <1>2, <1>5 DEF NewAckLeft
    <2>2. ackLeft[x] = IF ackDueAt[x] > base THEN ackDueAt[x] - base ELSE 0
      BY DEF NoDrift
    <2>3. x \in Exchange
      BY <1>1
    <2>4. ackDueAt[x] \in Nat /\ ackLeft[x] \in Nat
      BY <1>1, <2>3
    <2>5. QED
      BY <1>1, <1>2, <1>3, <2>1, <2>2, <2>4
  <1>9. \A x \in Exchange \ ackPending : NewAckLeft[x] = ackLeft[x]
    BY DEF NewAckLeft
  <1>10. QED
    BY <1>3, <1>4, <1>6, <1>7, <1>8, <1>9

-----------------------------------------------------------------------------

\* StartTimer leaves mCurrentTimerExpiry at or before everything there is to do.
LEMMA StartTimerCovers ==
    ASSUME now \in Nat, now' = now, expiry \in Nat, armed \in Nat \cup {NoTimer},
           ArmedForExpiry,
           base' \in Nat, left' \in [Exchange -> Nat], ackLeft' \in [Exchange -> Nat],
           used' \subseteq Exchange, ackPending' \subseteq Exchange,
           StartTimer
    PROVE  /\ expiry' \in Nat
           /\ armed' \in Nat \cup {NoTimer}
           /\ ArmedForExpiry'
           /\ \A x \in used' : expiry' <= base' + left'[x]
           /\ \A x \in ackPending' : expiry' <= base' + ackLeft'[x]
  <1>0. PICK b \in Nat : base' = b
    OBVIOUS
  <1>1. CASE Wakes = {} /\ armed' = NoTimer /\ UNCHANGED expiry
    BY <1>1 DEF Wakes, ArmedForExpiry, NoTimer
  <1>2. ASSUME NEW w \in Wakes, \A v \in Wakes : w <= v,
               \/ /\ b + w = expiry
                  /\ armed' = armed /\ expiry' = expiry
               \/ /\ b + w # expiry
                  /\ armed' = IF b + w > now THEN b + w ELSE now
                  /\ expiry' = b + w
        PROVE  /\ expiry' \in Nat
               /\ armed' \in Nat \cup {NoTimer}
               /\ ArmedForExpiry'
               /\ \A x \in used' : expiry' <= base' + left'[x]
               /\ \A x \in ackPending' : expiry' <= base' + ackLeft'[x]
    <2>1. w \in Nat
      BY DEF Wakes
    <2>2. b + w \in Nat /\ expiry' = b + w
      BY <1>2, <2>1
    <2>3. \A x \in used' : left'[x] \in Nat /\ w <= left'[x]
      BY <1>2 DEF Wakes
    <2>4. \A x \in ackPending' : ackLeft'[x] \in Nat /\ w <= ackLeft'[x]
      BY <1>2 DEF Wakes
    <2>5. armed' \in Nat \cup {NoTimer} /\ ArmedForExpiry'
      <3>1. CASE armed' = armed /\ expiry' = expiry
        BY <3>1 DEF ArmedForExpiry
      <3>2. CASE armed' = b + w
        BY <2>2, <3>2 DEF ArmedForExpiry
      <3>3. CASE armed' = now
        <4>1. now <= now
          OBVIOUS
        <4>2. QED
          BY <3>3, <4>1 DEF ArmedForExpiry
      <3>4. QED
        BY <1>2, <3>1, <3>2, <3>3
    <2>6. /\ \A x \in used' : expiry' <= base' + left'[x]
          /\ \A x \in ackPending' : expiry' <= base' + ackLeft'[x]
      BY <1>0, <2>1, <2>2, <2>3, <2>4
    <2>7. QED
      BY <2>2, <2>5, <2>6
  <1>3. QED
    BY <1>0, <1>1, <1>2 DEF StartTimer

\* What is left to show of an action that ends in StartTimer.
LEMMA ScheduledRInv ==
    ASSUME TypeOK, ArmedForExpiry, now' = now, StartTimer,
           base' \in Nat,
           used' \subseteq Exchange, todo' \subseteq used', busy' \in BOOLEAN,
           left' \in [Exchange -> Nat], count' \in [Exchange -> Nat],
           lastSent' \in [Exchange -> Nat], dueAt' \in [Exchange -> Nat],
           ackPending' \subseteq Exchange,
           ackLeft' \in [Exchange -> Nat], ackDueAt' \in [Exchange -> Nat],
           NoDrift', LoopCurrent', DueAfterSending'
    PROVE  RInv'
  <1>1. now \in Nat /\ expiry \in Nat /\ armed \in Nat \cup {NoTimer}
    BY DEF TypeOK
  <1>2. /\ expiry' \in Nat
        /\ armed' \in Nat \cup {NoTimer}
        /\ ArmedForExpiry'
        /\ \A x \in used' : expiry' <= base' + left'[x]
        /\ \A x \in ackPending' : expiry' <= base' + ackLeft'[x]
    BY <1>1, StartTimerCovers
  <1>3. TypeOK'
    BY <1>1, <1>2 DEF TypeOK
  <1>4. ExpiryNotAfterWork'
    BY <1>2 DEF ExpiryNotAfterWork
  <1>5. QED
    BY <1>2, <1>3, <1>4 DEF RInv

\* ReliableMessageMgr::Init establishes RInv: the table is empty.
LEMMA InitRInv == Init => RInv
  <1> SUFFICES ASSUME Init PROVE RInv
    OBVIOUS
  <1>1. TypeOK
    BY DEF Init, TypeOK
  <1>2. NoDrift /\ ExpiryNotAfterWork /\ DueAfterSending
    BY DEF Init, NoDrift, ExpiryNotAfterWork, DueAfterSending
  <1>3. LoopCurrent /\ ArmedForExpiry
    BY DEF Init, LoopCurrent, ArmedForExpiry
  <1>4. QED
    BY <1>1, <1>2, <1>3 DEF RInv

\* An action that only advances the ticks of the table and then schedules.
LEMMA TableExpiredRInv ==
    ASSUME RInv, now' = now, base' = NewBase, left' = NewLeft, StartTimer,
           used' = used, count' = count, lastSent' = lastSent, dueAt' = dueAt,
           ~busy, busy' = busy, todo' = todo,
           ackPending' \subseteq Exchange,
           ackLeft' \in [Exchange -> Nat], ackDueAt' \in [Exchange -> Nat],
           \A x \in ackPending' :
             ackLeft'[x] = IF ackDueAt'[x] > NewBase THEN ackDueAt'[x] - NewBase ELSE 0
    PROVE  RInv'
  <1>1. TypeOK /\ NoDrift /\ ArmedForExpiry /\ DueAfterSending /\ LoopCurrent
    BY DEF RInv
  <1>2. /\ NewBase \in Nat /\ NewBase <= now
        /\ left' \in [Exchange -> Nat]
        /\ \A x \in used : NewLeft[x] = IF dueAt[x] > NewBase THEN dueAt[x] - NewBase ELSE 0
    BY <1>1, ExpireTicks
  <1>3. NoDrift'
    BY <1>2 DEF NoDrift
  <1>4. LoopCurrent'
    BY <1>1 DEF LoopCurrent
  <1>5. DueAfterSending'
    BY <1>1 DEF DueAfterSending, RetransWait
  <1>6. /\ used' \subseteq Exchange /\ todo' \subseteq used' /\ busy' \in BOOLEAN
        /\ count' \in [Exchange -> Nat] /\ lastSent' \in [Exchange -> Nat]
        /\ dueAt' \in [Exchange -> Nat] /\ base' \in Nat
    BY <1>1, <1>2 DEF TypeOK
  <1>7. QED
    BY <1>1, <1>2, <1>3, <1>4, <1>5, <1>6, ScheduledRInv

\* SendReliable: the new entry is due InitialWait after base.
LEMMA SendReliableRInv ==
    ASSUME RInv, NEW y \in Exchange, SendReliable(y)
    PROVE  RInv'
  <1> USE TimerAssumption
  <1>1. /\ TypeOK /\ NoDrift /\ ArmedForExpiry /\ DueAfterSending /\ LoopCurrent
        /\ ~busy /\ y \notin used
        /\ ackPending' = ackPending \ {y}
        /\ ackDueAt' = [ackDueAt EXCEPT ![y] = 0]
        /\ base' = NewBase
        /\ ackLeft' = NewAckLeft
        /\ now' = now /\ busy' = busy /\ todo' = todo
        /\ StartTimer
    BY DEF SendReliable, RInv, TakePendingPeerAckId, loopVars
  <1>2. /\ NewBase \in Nat /\ NewBase <= now /\ now - NewBase < TickLen
        /\ NewLeft \in [Exchange -> Nat] /\ NewAckLeft \in [Exchange -> Nat]
        /\ Elapsed(base') = 0
        /\ now \in Nat
        /\ \A x \in used : NewLeft[x] = IF dueAt[x] > NewBase THEN dueAt[x] - NewBase ELSE 0
    BY <1>1, ExpireTicks DEF TypeOK
  <1>3. /\ ackPending' \subseteq Exchange /\ ackDueAt' \in [Exchange -> Nat]
        /\ ackLeft' \in [Exchange -> Nat]
        /\ \A x \in ackPending' :
             ackLeft'[x] = IF ackDueAt'[x] > NewBase THEN ackDueAt'[x] - NewBase ELSE 0
    BY <1>1, ExpireTicks DEF TypeOK
  <1>4. CASE /\ used' = used \cup {y}
             /\ left' = [NewLeft EXCEPT ![y] = InitialWait + Elapsed(base')]
             /\ count' = [count EXCEPT ![y] = 0]
             /\ lastSent' = [lastSent EXCEPT ![y] = now]
             /\ dueAt' = [dueAt EXCEPT ![y] = NewBase + InitialWait]
    <2>1. /\ left' \in [Exchange -> Nat]
          /\ left' = [NewLeft EXCEPT ![y] = InitialWait]
          /\ count' \in [Exchange -> Nat]
          /\ lastSent' \in [Exchange -> Nat]
          /\ dueAt' \in [Exchange -> Nat]
          /\ used' \subseteq Exchange /\ todo' \subseteq used' /\ busy' \in BOOLEAN
      BY <1>1, <1>2, <1>4 DEF TypeOK
    <2>2. ASSUME NEW x \in used, x # y
          PROVE  /\ left'[x] = IF dueAt'[x] > NewBase THEN dueAt'[x] - NewBase ELSE 0
                 /\ dueAt'[x] - lastSent'[x] > RetransWait(x)' - TickLen
      <3>1. /\ dueAt'[x] = dueAt[x] /\ lastSent'[x] = lastSent[x] /\ count'[x] = count[x]
            /\ left'[x] = NewLeft[x]
        BY <1>1, <1>2, <1>4, <2>1, <2>2 DEF TypeOK
      <3>2. QED
        BY <1>1, <1>2, <3>1 DEF DueAfterSending, RetransWait
    <2>3. /\ left'[y] = IF dueAt'[y] > NewBase THEN dueAt'[y] - NewBase ELSE 0
          /\ dueAt'[y] - lastSent'[y] > RetransWait(y)' - TickLen
      <3>1. /\ dueAt'[y] = NewBase + InitialWait /\ lastSent'[y] = now /\ count'[y] = 0
            /\ left'[y] = InitialWait
        BY <1>1, <1>2, <1>4, <2>1 DEF TypeOK
      <3>2. QED
        BY <1>2, <3>1 DEF RetransWait
    <2>4. NoDrift'
      BY <1>1, <1>2, <1>3, <1>4, <2>2, <2>3 DEF NoDrift
    <2>5. DueAfterSending'
      BY <1>4, <2>2, <2>3 DEF DueAfterSending
    <2>6. LoopCurrent'
      BY <1>1 DEF LoopCurrent
    <2>7. QED
      BY <1>1, <1>2, <1>3, <2>1, <2>4, <2>5, <2>6, ScheduledRInv
  <1>5. CASE left' = NewLeft /\ UNCHANGED <<used, count, lastSent, dueAt>>
    BY <1>1, <1>3, <1>5, TableExpiredRInv
  <1>6. QED
    BY <1>4, <1>5 DEF SendReliable

\* Taking the pending acknowledgment and nothing else: less to do, later.
LEMMA TakeAckRInv ==
    ASSUME RInv, NEW y \in Exchange, TakePendingPeerAckId(y),
           UNCHANGED <<now, timerVars, tableVars, ackLeft, loopVars>>
    PROVE  RInv'
  <1>1. /\ ackPending' = ackPending \ {y}
        /\ ackDueAt' = [ackDueAt EXCEPT ![y] = 0]
        /\ now' = now /\ base' = base /\ expiry' = expiry /\ armed' = armed
        /\ used' = used /\ left' = left /\ count' = count
        /\ lastSent' = lastSent /\ dueAt' = dueAt
        /\ ackLeft' = ackLeft /\ busy' = busy /\ todo' = todo
    BY DEF TakePendingPeerAckId, timerVars, tableVars, loopVars
  <1>2. TypeOK'
    BY <1>1 DEF RInv, TypeOK
  <1>3. NoDrift'
    <2>1. \A x \in ackPending' : x \in ackPending /\ ackDueAt'[x] = ackDueAt[x]
      BY <1>1 DEF RInv, TypeOK
    <2>2. QED
      BY <1>1, <2>1 DEF RInv, NoDrift
  <1>4. LoopCurrent'
    BY <1>1 DEF RInv, LoopCurrent
  <1>5. ArmedForExpiry'
    BY <1>1 DEF RInv, ArmedForExpiry
  <1>6. ExpiryNotAfterWork'
    BY <1>1 DEF RInv, ExpiryNotAfterWork
  <1>7. DueAfterSending'
    BY <1>1 DEF RInv, DueAfterSending, RetransWait
  <1>8. QED
    BY <1>2, <1>3, <1>4, <1>5, <1>6, <1>7 DEF RInv

\* An entry is cleared, by an ack, by an abort or by giving up.
LEMMA ClearRInv ==
    ASSUME RInv, NEW y \in used, ClearRetransTable(y), now' = now, busy' = busy,
           \/ ackPending' = ackPending /\ ackDueAt' = ackDueAt
           \/ TakePendingPeerAckId(y),
           todo' = todo \ {y}
    PROVE  RInv'
  <1>1. /\ TypeOK /\ NoDrift /\ ArmedForExpiry /\ DueAfterSending /\ LoopCurrent
        /\ base' = NewBase /\ ackLeft' = NewAckLeft
        /\ used' = used \ {y}
        /\ left' = [NewLeft EXCEPT ![y] = 0]
        /\ count' = [count EXCEPT ![y] = 0]
        /\ lastSent' = [lastSent EXCEPT ![y] = 0]
        /\ dueAt' = [dueAt EXCEPT ![y] = 0]
        /\ StartTimer
    BY DEF RInv, ClearRetransTable, ResetEntry
  <1>2. /\ NewBase \in Nat /\ NewBase <= now /\ now - NewBase < TickLen /\ base <= NewBase
        /\ NewLeft \in [Exchange -> Nat] /\ NewAckLeft \in [Exchange -> Nat]
        /\ now \in Nat /\ base \in Nat
        /\ \A x \in used : NewLeft[x] = IF dueAt[x] > NewBase THEN dueAt[x] - NewBase ELSE 0
        /\ \A x \in ackPending :
             NewAckLeft[x] = IF ackDueAt[x] > NewBase THEN ackDueAt[x] - NewBase ELSE 0
    BY <1>1, ExpireTicks DEF TypeOK
  <1>3. /\ ackPending' \subseteq Exchange /\ ackDueAt' \in [Exchange -> Nat]
        /\ \A x \in ackPending' : x \in ackPending /\ ackDueAt'[x] = ackDueAt[x]
    <2>1. y \in Exchange
      BY <1>1 DEF TypeOK
    <2>2. CASE ackPending' = ackPending /\ ackDueAt' = ackDueAt
      BY <1>1, <2>2 DEF TypeOK
    <2>3. CASE TakePendingPeerAckId(y)
      BY <1>1, <2>1, <2>3 DEF TypeOK, TakePendingPeerAckId
    <2>4. QED
      BY <2>2, <2>3
  <1>4. \A x \in used' :
          /\ x \in used /\ dueAt'[x] = dueAt[x] /\ left'[x] = NewLeft[x]
          /\ lastSent'[x] = lastSent[x] /\ count'[x] = count[x]
    BY <1>1, <1>2 DEF TypeOK
  <1>5. NoDrift'
    BY <1>1, <1>2, <1>3, <1>4 DEF NoDrift
  <1>6. DueAfterSending'
    BY <1>1, <1>4 DEF DueAfterSending, RetransWait
  <1>7. /\ used' \subseteq Exchange /\ todo' \subseteq used' /\ busy' \in BOOLEAN
        /\ left' \in [Exchange -> Nat] /\ count' \in [Exchange -> Nat]
        /\ lastSent' \in [Exchange -> Nat] /\ dueAt' \in [Exchange -> Nat]
        /\ base' \in Nat
    BY <1>1, <1>2 DEF TypeOK
  <1>8. LoopCurrent'
    <2>1. CASE ~busy
      BY <1>1, <2>1 DEF LoopCurrent
    <2>2. CASE busy
      <3>1. ASSUME NEW x \in todo' PROVE left'[x] = 0
        <4>1. x \in used /\ left[x] = 0 /\ left'[x] = NewLeft[x] /\ x \in Exchange
          BY <1>1, <1>4, <1>7, <2>2, <3>1 DEF LoopCurrent, TypeOK
        <4>2. dueAt[x] \in Nat /\ ~(dueAt[x] > base)
          BY <1>1, <1>2, <4>1 DEF NoDrift, TypeOK
        <4>3. QED
          BY <1>2, <4>1, <4>2
      <3>2. QED
        BY <1>1, <1>2, <2>2, <3>1 DEF LoopCurrent
    <2>3. QED
      BY <2>1, <2>2
  <1>9. QED
    BY <1>1, <1>2, <1>3, <1>5, <1>6, <1>7, <1>8, ScheduledRInv

-----------------------------------------------------------------------------

\* A new pending acknowledgment is due AckWait after base.
LEMMA HandleNeedsAckRInv ==
    ASSUME RInv, NEW y \in Exchange, HandleNeedsAck(y)
    PROVE  RInv'
  <1> USE TimerAssumption
  <1>1. /\ TypeOK /\ NoDrift /\ ~busy
        /\ base' = NewBase /\ left' = NewLeft
        /\ now' = now /\ used' = used /\ count' = count
        /\ lastSent' = lastSent /\ dueAt' = dueAt
        /\ busy' = busy /\ todo' = todo /\ StartTimer
    BY DEF RInv, HandleNeedsAck, loopVars
  <1>2. /\ NewBase \in Nat /\ Elapsed(base') = 0 /\ NewAckLeft \in [Exchange -> Nat]
        /\ \A x \in ackPending :
             NewAckLeft[x] = IF ackDueAt[x] > NewBase THEN ackDueAt[x] - NewBase ELSE 0
    BY <1>1, ExpireTicks
  <1>3. /\ ackPending' \subseteq Exchange
        /\ ackLeft' \in [Exchange -> Nat] /\ ackDueAt' \in [Exchange -> Nat]
        /\ \A x \in ackPending' :
             ackLeft'[x] = IF ackDueAt'[x] > NewBase THEN ackDueAt'[x] - NewBase ELSE 0
    <2>1. CASE /\ ackPending' = ackPending \cup {y}
               /\ ackLeft' = [NewAckLeft EXCEPT ![y] = AckWait + Elapsed(base')]
               /\ ackDueAt' = [ackDueAt EXCEPT ![y] = NewBase + AckWait]
      <3>1. ackLeft' = [NewAckLeft EXCEPT ![y] = AckWait]
        BY <1>2, <2>1
      <3>2. /\ ackPending' \subseteq Exchange
            /\ ackLeft' \in [Exchange -> Nat] /\ ackDueAt' \in [Exchange -> Nat]
        BY <1>1, <1>2, <2>1, <3>1 DEF TypeOK
      <3>3. ackLeft'[y] = AckWait /\ ackDueAt'[y] = NewBase + AckWait
        BY <1>1, <1>2, <2>1, <3>1 DEF TypeOK
      <3>4. ASSUME NEW x \in ackPending, x # y
            PROVE  ackLeft'[x] = NewAckLeft[x] /\ ackDueAt'[x] = ackDueAt[x]
        BY <1>1, <1>2, <2>1, <3>1, <3>4 DEF TypeOK
      <3>5. QED
        BY <1>2, <2>1, <3>2, <3>3, <3>4
    <2>2. CASE ackLeft' = NewAckLeft /\ UNCHANGED <<ackPending, ackDueAt>>
      BY <1>1, <1>2, <2>2 DEF TypeOK
    <2>3. CASE ackLeft' = NewAckLeft /\ TakePendingPeerAckId(y)
      BY <1>1, <1>2, <2>3 DEF TypeOK, TakePendingPeerAckId
    <2>4. QED
      BY <2>1, <2>2, <2>3 DEF HandleNeedsAck
  <1>4. QED
    BY <1>1, <1>3, TableExpiredRInv

\* Acknowledging a duplicate: the pending ack stays, goes, or is a new one.
LEMMA HandleNeedsAckDuplicateRInv ==
    ASSUME RInv, NEW y \in Exchange, HandleNeedsAckDuplicate(y)
    PROVE  RInv'
  <1>1. /\ TypeOK /\ NoDrift /\ ~busy
        /\ base' = NewBase /\ left' = NewLeft /\ ackLeft' = NewAckLeft
        /\ now' = now /\ used' = used /\ count' = count
        /\ lastSent' = lastSent /\ dueAt' = dueAt
        /\ busy' = busy /\ todo' = todo /\ StartTimer
    BY DEF RInv, HandleNeedsAckDuplicate, loopVars
  <1>2. /\ NewBase \in Nat /\ NewAckLeft \in [Exchange -> Nat]
        /\ \A x \in Exchange \ ackPending : NewAckLeft[x] = ackLeft[x]
        /\ \A x \in ackPending :
             NewAckLeft[x] = IF ackDueAt[x] > NewBase THEN ackDueAt[x] - NewBase ELSE 0
    BY <1>1, ExpireTicks
  <1>3. /\ ackPending' \subseteq Exchange /\ ackDueAt' \in [Exchange -> Nat]
        /\ \A x \in ackPending' :
             ackLeft'[x] = IF ackDueAt'[x] > NewBase THEN ackDueAt'[x] - NewBase ELSE 0
    <2>1. CASE /\ y \notin ackPending
               /\ ackPending' = ackPending \cup {y}
               /\ ackDueAt' = [ackDueAt EXCEPT ![y] = NewBase + ackLeft[y]]
      <3>1. /\ ackPending' \subseteq Exchange /\ ackDueAt' \in [Exchange -> Nat]
            /\ ackDueAt'[y] = NewBase + ackLeft[y] /\ ackLeft[y] \in Nat
            /\ NewAckLeft[y] = ackLeft[y]
        BY <1>1, <1>2, <2>1 DEF TypeOK
      <3>2. ASSUME NEW x \in ackPending
            PROVE  ackDueAt'[x] = ackDueAt[x]
        BY <1>1, <2>1 DEF TypeOK
      <3>3. QED
        BY <1>1, <1>2, <2>1, <3>1, <3>2
    <2>2. CASE UNCHANGED <<ackPending, ackDueAt>>
      BY <1>1, <1>2, <2>2 DEF TypeOK
    <2>3. CASE TakePendingPeerAckId(y)
      BY <1>1, <1>2, <2>3 DEF TypeOK, TakePendingPeerAckId
    <2>4. QED
      BY <2>1, <2>2, <2>3 DEF HandleNeedsAckDuplicate
  <1>4. QED
    BY <1>1, <1>2, <1>3, TableExpiredRInv

\* Timeout leaves the scheduling to TimeoutDone.
LEMMA TimeoutRInv ==
    ASSUME RInv, Timeout
    PROVE  RInv'
  <1>1. /\ TypeOK /\ NoDrift /\ DueAfterSending
        /\ armed' = NoTimer /\ base' = NewBase /\ left' = NewLeft
        /\ ackLeft' = NewAckLeft /\ ackPending' \subseteq ackPending
        /\ ackDueAt' = [x \in Exchange |-> IF x \in ackPending' THEN ackDueAt[x] ELSE 0]
        /\ busy' = TRUE /\ todo' = {x \in used : NewLeft[x] = 0}
        /\ now' = now /\ expiry' = expiry /\ used' = used /\ count' = count
        /\ lastSent' = lastSent /\ dueAt' = dueAt
    BY DEF RInv, Timeout
  <1>2. /\ NewBase \in Nat /\ NewBase <= now /\ now - NewBase < TickLen
        /\ NewLeft \in [Exchange -> Nat] /\ NewAckLeft \in [Exchange -> Nat]
        /\ \A x \in used : NewLeft[x] = IF dueAt[x] > NewBase THEN dueAt[x] - NewBase ELSE 0
        /\ \A x \in ackPending :
             NewAckLeft[x] = IF ackDueAt[x] > NewBase THEN ackDueAt[x] - NewBase ELSE 0
    BY <1>1, ExpireTicks
  <1>3. TypeOK'
    BY <1>1, <1>2 DEF TypeOK
  <1>4. NoDrift'
    <2>1. \A x \in ackPending' : x \in ackPending /\ ackDueAt'[x] = ackDueAt[x]
      BY <1>1 DEF TypeOK
    <2>2. QED
      BY <1>1, <1>2, <2>1 DEF NoDrift
  <1>5. LoopCurrent' /\ ExpiryNotAfterWork'
    BY <1>1, <1>2 DEF LoopCurrent, ExpiryNotAfterWork
  <1>6. ArmedForExpiry'
    BY <1>1 DEF ArmedForExpiry
  <1>7. DueAfterSending'
    BY <1>1 DEF DueAfterSending, RetransWait
  <1>8. QED
    BY <1>3, <1>4, <1>5, <1>6, <1>7 DEF RInv

\* A retransmission is followed by ActiveWait, counted from base.
LEMMA RetransmitRInv ==
    ASSUME RInv, NEW y \in Exchange, Retransmit(y)
    PROVE  RInv'
  <1> USE TimerAssumption
  <1>1. /\ TypeOK /\ NoDrift /\ DueAfterSending /\ LoopCurrent /\ ArmedForExpiry
        /\ busy /\ y \in todo
        /\ count' = [count EXCEPT ![y] = @ + 1]
        /\ left' = [left EXCEPT ![y] = ActiveWait]
        /\ lastSent' = [lastSent EXCEPT ![y] = now]
        /\ dueAt' = [dueAt EXCEPT ![y] = base + ActiveWait]
        /\ todo' = todo \ {y}
        /\ now' = now /\ base' = base /\ expiry' = expiry /\ armed' = armed
        /\ used' = used /\ busy' = busy
        /\ ackPending' = ackPending /\ ackLeft' = ackLeft /\ ackDueAt' = ackDueAt
    BY DEF RInv, Retransmit, ackVars
  <1>2. /\ now \in Nat /\ base \in Nat /\ now - base < TickLen
        /\ count[y] \in Nat /\ used \subseteq Exchange /\ todo \subseteq used
    BY <1>1 DEF TypeOK, LoopCurrent
  <1>3. TypeOK'
    BY <1>1 DEF TypeOK
  <1>4. ASSUME NEW x \in used, x # y
        PROVE  /\ count'[x] = count[x] /\ left'[x] = left[x]
               /\ lastSent'[x] = lastSent[x] /\ dueAt'[x] = dueAt[x]
    BY <1>1, <1>4 DEF TypeOK
  <1>5. /\ count'[y] = count[y] + 1 /\ left'[y] = ActiveWait
        /\ lastSent'[y] = now /\ dueAt'[y] = base + ActiveWait
    BY <1>1 DEF TypeOK
  <1>6. NoDrift'
    BY <1>1, <1>2, <1>4, <1>5 DEF NoDrift
  <1>7. LoopCurrent'
    BY <1>1, <1>2, <1>4 DEF LoopCurrent
  <1>8. ArmedForExpiry' /\ ExpiryNotAfterWork'
    BY <1>1 DEF ArmedForExpiry, ExpiryNotAfterWork
  <1>9. DueAfterSending'
    <2>1. ASSUME NEW x \in used, x # y
          PROVE  dueAt'[x] - lastSent'[x] > RetransWait(x)' - TickLen
      BY <1>1, <1>4, <2>1 DEF DueAfterSending, RetransWait
    <2>2. dueAt'[y] - lastSent'[y] > RetransWait(y)' - TickLen
      <3>1. count'[y] # 0
        BY <1>2, <1>5
      <3>2. RetransWait(y)' = ActiveWait
        BY <3>1 DEF RetransWait
      <3>3. QED
        BY <1>2, <1>5, <3>2
    <2>3. QED
      BY <1>1, <2>1, <2>2 DEF DueAfterSending
  <1>10. QED
    BY <1>3, <1>6, <1>7, <1>8, <1>9 DEF RInv

\* Timeout's final StartTimer covers what the loop has left.
LEMMA TimeoutDoneRInv ==
    ASSUME RInv, TimeoutDone
    PROVE  RInv'
  <1>1. /\ TypeOK /\ NoDrift /\ ArmedForExpiry /\ DueAfterSending
        /\ todo = {} /\ busy' = FALSE /\ StartTimer
        /\ now' = now /\ base' = base
        /\ used' = used /\ left' = left /\ count' = count
        /\ lastSent' = lastSent /\ dueAt' = dueAt
        /\ ackPending' = ackPending /\ ackLeft' = ackLeft /\ ackDueAt' = ackDueAt
        /\ todo' = todo
    BY DEF RInv, TimeoutDone, tableVars, ackVars
  <1>2. /\ base' \in Nat /\ used' \subseteq Exchange /\ todo' \subseteq used'
        /\ busy' \in BOOLEAN /\ left' \in [Exchange -> Nat] /\ count' \in [Exchange -> Nat]
        /\ lastSent' \in [Exchange -> Nat] /\ dueAt' \in [Exchange -> Nat]
        /\ ackPending' \subseteq Exchange
        /\ ackLeft' \in [Exchange -> Nat] /\ ackDueAt' \in [Exchange -> Nat]
    BY <1>1 DEF TypeOK
  <1>3. NoDrift'
    BY <1>1 DEF NoDrift
  <1>4. LoopCurrent'
    BY <1>1 DEF LoopCurrent
  <1>5. DueAfterSending'
    BY <1>1 DEF DueAfterSending, RetransWait
  <1>6. QED
    BY <1>1, <1>2, <1>3, <1>4, <1>5, ScheduledRInv

\* The passing of time disturbs nothing between two handlers.
LEMMA AdvanceTimeRInv ==
    ASSUME RInv, AdvanceTime
    PROVE  RInv'
  <1>1. /\ TypeOK /\ NoDrift /\ ArmedForExpiry /\ DueAfterSending /\ LoopCurrent
        /\ ExpiryNotAfterWork
        /\ ~busy /\ now' = now + 1
        /\ base' = base /\ expiry' = expiry /\ armed' = armed
        /\ used' = used /\ left' = left /\ count' = count
        /\ lastSent' = lastSent /\ dueAt' = dueAt
        /\ ackPending' = ackPending /\ ackLeft' = ackLeft /\ ackDueAt' = ackDueAt
        /\ busy' = busy /\ todo' = todo
    BY DEF RInv, AdvanceTime, timerVars, tableVars, ackVars, loopVars
  <1>2. TypeOK'
    BY <1>1 DEF TypeOK
  <1>3. base' <= now'
    BY <1>1 DEF TypeOK, NoDrift
  <1>4. NoDrift'
    BY <1>1, <1>3 DEF NoDrift
  <1>5. LoopCurrent' /\ ExpiryNotAfterWork'
    BY <1>1 DEF LoopCurrent, ExpiryNotAfterWork
  <1>6. ArmedForExpiry'
    BY <1>1 DEF ArmedForExpiry, TypeOK, NoTimer
  <1>7. DueAfterSending'
    BY <1>1 DEF DueAfterSending, RetransWait
  <1>8. QED
    BY <1>2, <1>4, <1>5, <1>6, <1>7 DEF RInv

\* RInv is preserved by every step.
LEMMA NextRInv == RInv /\ [Next]_vars => RInv'
  <1> SUFFICES ASSUME RInv, [Next]_vars PROVE RInv'
    OBVIOUS
  <1>1. CASE AdvanceTime
    BY <1>1, AdvanceTimeRInv
  <1>2. CASE Timeout
    BY <1>2, TimeoutRInv
  <1>3. CASE TimeoutDone
    BY <1>3, TimeoutDoneRInv
  <1>4. ASSUME NEW x \in Exchange, SendReliable(x) PROVE RInv'
    BY <1>4, SendReliableRInv
  <1>5. ASSUME NEW x \in Exchange, SendReliableTableFull(x) PROVE RInv'
    BY <1>5, TakeAckRInv DEF SendReliableTableFull
  <1>6. ASSUME NEW x \in Exchange, SendUnreliable(x) PROVE RInv'
    BY <1>6, TakeAckRInv DEF SendUnreliable
  <1>7. ASSUME NEW x \in Exchange, HandleRcvdAck(x) PROVE RInv'
    <2>1. x \in used /\ todo' = todo \ {x} /\ busy' = busy /\ now' = now
      BY <1>7 DEF HandleRcvdAck, loopVars, RInv, LoopCurrent
    <2>2. QED
      BY <1>7, <2>1, ClearRInv DEF HandleRcvdAck
  <1>8. ASSUME NEW x \in Exchange, Abort(x) PROVE RInv'
    <2>1. x \in used /\ todo' = todo \ {x} /\ busy' = busy /\ now' = now
      BY <1>8 DEF Abort, loopVars, RInv, LoopCurrent
    <2>2. QED
      BY <1>8, <2>1, ClearRInv DEF Abort
  <1>9. ASSUME NEW x \in Exchange, HandleNeedsAck(x) PROVE RInv'
    BY <1>9, HandleNeedsAckRInv
  <1>10. ASSUME NEW x \in Exchange, HandleNeedsAckDuplicate(x) PROVE RInv'
    BY <1>10, HandleNeedsAckDuplicateRInv
  <1>11. ASSUME NEW x \in Exchange, Retransmit(x) PROVE RInv'
    BY <1>11, RetransmitRInv
  <1>12. ASSUME NEW x \in Exchange, GiveUp(x) PROVE RInv'
    <2>1. x \in used
      BY <1>12 DEF GiveUp, RInv, TypeOK
    <2>2. QED
      BY <1>12, <2>1, ClearRInv DEF GiveUp
  <1>13. CASE UNCHANGED vars
    <2>1. /\ now' = now /\ base' = base /\ expiry' = expiry /\ armed' = armed
          /\ used' = used /\ left' = left /\ count' = count
          /\ lastSent' = lastSent /\ dueAt' = dueAt
          /\ ackPending' = ackPending /\ ackLeft' = ackLeft /\ ackDueAt' = ackDueAt
          /\ busy' = busy /\ todo' = todo
      BY <1>13 DEF vars, timerVars, tableVars, ackVars, loopVars
    <2>2. TypeOK'
      BY <2>1 DEF RInv, TypeOK
    <2>3. NoDrift' /\ LoopCurrent' /\ ArmedForExpiry' /\ ExpiryNotAfterWork'
      BY <2>1 DEF RInv, NoDrift, LoopCurrent, ArmedForExpiry, ExpiryNotAfterWork
    <2>4. DueAfterSending'
      BY <2>1 DEF RInv, DueAfterSending, RetransWait
    <2>5. QED
      BY <2>2, <2>3, <2>4 DEF RInv
  <1>14. QED
    BY <1>1, <1>2, <1>3, <1>4, <1>5, <1>6, <1>7, <1>8, <1>9, <1>10, <1>11,
       <1>12, <1>13 DEF Next

(* The inductive invariant of the timer holds in every reachable state, and *)
(* with it the type invariant of the timer's state.                        *)
THEOREM TimerInvariance == Spec => []RInv
  <1>1. QED
    BY InitRInv, NextRInv, PTL DEF Spec

(* Ticks, expiry and timer stay natural numbers: no handler subtracts more  *)
(* ticks than are left or arms the timer for a negative delay (ExpireTicks, *)
(* StartTimer), and Timeout works only on entries in use.                  *)
THEOREM TypeCorrect == Spec => []TypeOK
  <1>1. RInv => TypeOK
    BY DEF RInv
  <1>2. QED
    BY <1>1, TimerInvariance, PTL

(* mTimeStampBase may be moved by any handler at any moment: the ticks left *)
(* of an entry or a pending ack always end when they were set to end.      *)
THEOREM TicksDoNotDrift == Spec => []NoDrift
  <1>1. RInv => NoDrift
    BY DEF RInv
  <1>2. QED
    BY <1>1, TimerInvariance, PTL

(* mCurrentTimerExpiry never lies after the next thing to do.              *)
THEOREM ExpiryCoversWork == Spec => []ExpiryNotAfterWork
  <1>1. RInv => ExpiryNotAfterWork
    BY DEF RInv
  <1>2. QED
    BY <1>1, TimerInvariance, PTL

(* A running physical timer fires no later than any entry is due.          *)
THEOREM RunningTimerNotLate == Spec => []TimerNotLate
  <1>1. RInv => TimerNotLate
    <2> SUFFICES ASSUME RInv, ~busy, armed # NoTimer
                 PROVE  /\ \A x \in used : armed <= dueAt[x] \/ armed <= now
                        /\ \A x \in ackPending : armed <= ackDueAt[x] \/ armed <= now
      BY DEF TimerNotLate
    <2>1. /\ TypeOK /\ NoDrift
          /\ armed = expiry \/ armed <= now
          /\ \A x \in used : expiry <= base + left[x]
          /\ \A x \in ackPending : expiry <= base + ackLeft[x]
      BY DEF RInv, ArmedForExpiry, ExpiryNotAfterWork
    <2>2. /\ now \in Nat /\ base \in Nat /\ base <= now /\ expiry \in Nat
          /\ armed \in Nat
      BY <2>1 DEF TypeOK, NoDrift
    <2>3. ASSUME NEW x \in used PROVE armed <= dueAt[x] \/ armed <= now
      <3>1. dueAt[x] \in Nat /\ left[x] = IF dueAt[x] > base THEN dueAt[x] - base ELSE 0
        BY <2>1 DEF TypeOK, NoDrift
      <3>2. QED
        BY <2>1, <2>2, <3>1
    <2>4. ASSUME NEW x \in ackPending PROVE armed <= ackDueAt[x] \/ armed <= now
      <3>1. /\ ackDueAt[x] \in Nat
            /\ ackLeft[x] = IF ackDueAt[x] > base THEN ackDueAt[x] - base ELSE 0
        BY <2>1 DEF TypeOK, NoDrift
      <3>2. QED
        BY <2>1, <2>2, <3>1
    <2>5. QED
      BY <2>3, <2>4
  <1>2. QED
    BY <1>1, TimerInvariance, PTL

(* No message is retransmitted before its timeout, less the rounding.      *)
THEOREM NeverRetransmittedEarly == Spec => NotRetransmittedEarly
  <1>1. RInv /\ [Next]_vars =>
          [\A x \in Exchange : count'[x] = count[x] + 1 =>
              now - lastSent[x] > RetransWait(x) - TickLen]_vars
    <2> SUFFICES ASSUME RInv, Next, NEW x \in Exchange, count'[x] = count[x] + 1
                 PROVE  now - lastSent[x] > RetransWait(x) - TickLen
      OBVIOUS
    <2>1. /\ TypeOK /\ NoDrift /\ LoopCurrent /\ DueAfterSending
          /\ count \in [Exchange -> Nat] /\ count[x] \in Nat
      BY DEF RInv, TypeOK
    <2>2. busy /\ x \in todo
      <3>1. count' # count
        BY <2>1
      <3>2. ASSUME NEW y \in Exchange, Retransmit(y) PROVE busy /\ x \in todo
        BY <2>1, <3>2 DEF Retransmit
      <3>3. ASSUME NEW y \in Exchange, count' = [count EXCEPT ![y] = 0] PROVE FALSE
        BY <2>1, <3>3
      <3>4. ASSUME NEW y \in Exchange, SendReliable(y) \/ HandleRcvdAck(y) \/ Abort(y) \/ GiveUp(y)
            PROVE  FALSE
        BY <3>1, <3>3, <3>4
        DEF SendReliable, HandleRcvdAck, Abort, GiveUp, ClearRetransTable, ResetEntry
      <3>5. ASSUME NEW y \in Exchange,
                   \/ SendReliableTableFull(y) \/ SendUnreliable(y)
                   \/ HandleNeedsAck(y) \/ HandleNeedsAckDuplicate(y)
            PROVE  FALSE
        BY <3>1, <3>5
        DEF SendReliableTableFull, SendUnreliable, HandleNeedsAck,
            HandleNeedsAckDuplicate, tableVars
      <3>6. ~AdvanceTime /\ ~Timeout /\ ~TimeoutDone
        BY <3>1 DEF AdvanceTime, Timeout, TimeoutDone, tableVars
      <3>7. QED
        BY <3>2, <3>4, <3>5, <3>6 DEF Next
    <2>3. /\ x \in used /\ left[x] = 0
          /\ left[x] = IF dueAt[x] > base THEN dueAt[x] - base ELSE 0
          /\ dueAt[x] \in Nat /\ lastSent[x] \in Nat /\ base \in Nat /\ now \in Nat
          /\ base <= now
      BY <2>1, <2>2 DEF TypeOK, NoDrift, LoopCurrent
    <2>4. dueAt[x] <= now
      BY <2>3
    <2>5. dueAt[x] - lastSent[x] > RetransWait(x) - TickLen
      BY <2>1, <2>3 DEF DueAfterSending
    <2>6. RetransWait(x) - TickLen \in Int
      BY TimerAssumption DEF RetransWait
    <2>7. QED
      BY <2>3, <2>4, <2>5, <2>6
  <1>2. QED
    BY <1>1, TimerInvariance, PTL DEF Spec, NotRetransmittedEarly
=============================================================================

------------------------- MODULE ReliableMessageMgr -------------------------
(***************************************************************************)
(* The timing half of the Message Reliability Protocol on one node:        *)
(* Messaging::ReliableMessageMgr's retransmission table, the pending       *)
(* acknowledgment of every exchange, the virtual ticks both are measured   *)
(* in and the one physical timer that serves them all.                     *)
(*                                                                         *)
(* A tick is TickLen units of time (64 ms in the code) and every tick      *)
(* count is kept here as the time it stands for, relative to base          *)
(* (mTimeStampBase): a count of k ticks is k * TickLen.  An entry of the   *)
(* table is named by its exchange: AddToRetransTable dies if the exchange  *)
(* has one already (IsOccupied).                                           *)
(*                                                                         *)
(* The event loop runs one handler at a time.  Timeout's loop over the     *)
(* table is split into one step per entry; nothing else, not even the      *)
(* clock, moves while busy is TRUE.                                        *)
(***************************************************************************)
EXTENDS Integers, FiniteSets

CONSTANTS
    Exchange,     \* the exchange contexts
    TableSize,    \* CHIP_CONFIG_RMP_RETRANS_TABLE_SIZE
    TickLen,      \* 2 ^ mTimerIntervalShift
    InitialWait,  \* mInitialRetransTimeoutTick, as time
    ActiveWait,   \* mActiveRetransTimeoutTick, as time
    AckWait,      \* CHIP_CONFIG_RMP_DEFAULT_ACK_TIMEOUT_TICK, as time
    MaxRetrans,   \* CHIP_CONFIG_RMP_DEFAULT_MAX_RETRANS
    MaxTime       \* bound on the clock

ASSUME TimerAssumption ==
    /\ TableSize \in Nat \ {0}
    /\ TickLen \in Nat \ {0}
    /\ InitialWait \in Nat \ {0}
    /\ ActiveWait \in Nat \ {0}
    /\ AckWait \in Nat \ {0}
    /\ MaxRetrans \in Nat
    /\ MaxTime \in Nat

VARIABLES
    now,         \* System::Clock::GetMonotonicMilliseconds()
    base,        \* mTimeStampBase
    expiry,      \* mCurrentTimerExpiry
    armed,       \* when the system timer fires, NoTimer if it is not started
    used,        \* exchanges with an entry in mRetransTable
    left,        \* nextRetransTimeTick of the entry
    count,       \* sendCount of the entry
    ackPending,  \* exchanges with kFlagAckPending
    ackLeft,     \* mNextAckTimeTick
    busy,        \* ExecuteActions is running
    todo,        \* the due entries it has not come to yet
    lastSent,    \* history: when the entry's message was last sent
    dueAt,       \* history: when the entry should be served
    ackDueAt     \* history: when the pending acknowledgment should be sent

timerVars == <<base, expiry, armed>>
tableVars == <<used, left, count, lastSent, dueAt>>
ackVars   == <<ackPending, ackLeft, ackDueAt>>
loopVars  == <<busy, todo>>
vars      == <<now, timerVars, tableVars, ackVars, loopVars>>

NoTimer == -1

TypeOK ==
    /\ now \in Nat
    /\ base \in Nat
    /\ expiry \in Nat
    /\ armed \in Nat \cup {NoTimer}
    /\ used \subseteq Exchange
    /\ left \in [Exchange -> Nat]
    /\ count \in [Exchange -> Nat]
    /\ ackPending \subseteq Exchange
    /\ ackLeft \in [Exchange -> Nat]
    /\ busy \in BOOLEAN
    /\ todo \subseteq used
    /\ lastSent \in [Exchange -> Nat]
    /\ dueAt \in [Exchange -> Nat]
    /\ ackDueAt \in [Exchange -> Nat]

\* The clock is not at 0 any more when the stack starts; expiry is 0.
Init ==
    /\ now = 1
    /\ base = 1
    /\ expiry = 0
    /\ armed = NoTimer
    /\ used = {}
    /\ left = [x \in Exchange |-> 0]
    /\ count = [x \in Exchange |-> 0]
    /\ ackPending = {}
    /\ ackLeft = [x \in Exchange |-> 0]
    /\ busy = FALSE
    /\ todo = {}
    /\ lastSent = [x \in Exchange |-> 0]
    /\ dueAt = [x \in Exchange |-> 0]
    /\ ackDueAt = [x \in Exchange |-> 0]

-----------------------------------------------------------------------------
(* Ticks.                                                                  *)

\* GetTickCounterFromTimeDelta(now): whole ticks since base, rounded down.
Elapsed(b) == (now - b) - ((now - b) % TickLen)

\* Mutant: no clamping at 0.
TickProceedUnclamped(time, ticks) == time - ticks

TickProceed(time, ticks) == IF time >= ticks THEN time - ticks ELSE 0

\* Mutant: base moves to the current time, not to the last tick boundary.
NewBaseNow == now

\* What ExpireTicks does to base, to the table and to the pending acks.
NewBase    == base + Elapsed(base)
NewLeft    == [x \in Exchange |->
                 IF x \in used THEN TickProceed(left[x], Elapsed(base)) ELSE left[x]]
NewAckLeft == [x \in Exchange |->
                 IF x \in ackPending THEN TickProceed(ackLeft[x], Elapsed(base))
                                     ELSE ackLeft[x]]

Wakes == {left'[x] : x \in used'} \cup {ackLeft'[x] : x \in ackPending'}

\* Mutant: the timer is set for the last thing to do.
StartTimerLatest ==
    \/ /\ Wakes = {}
       /\ armed' = NoTimer
       /\ UNCHANGED expiry
    \/ \E w \in Wakes :
        /\ \A v \in Wakes : v <= w
        /\ armed' = base' + w
        /\ expiry' = base' + w

\* StartTimer, of the table and the acks as the handler leaves them: the
\* timer is set only if the time to wake differs from mCurrentTimerExpiry,
\* and StopTimer leaves mCurrentTimerExpiry alone.
StartTimer ==
    \/ /\ Wakes = {}
       /\ armed' = NoTimer
       /\ UNCHANGED expiry
    \/ \E w \in Wakes :
        /\ \A v \in Wakes : w <= v
        /\ \/ /\ base' + w = expiry
              /\ UNCHANGED <<armed, expiry>>
           \/ /\ base' + w # expiry
              /\ armed' = IF base' + w > now THEN base' + w ELSE now
              /\ expiry' = base' + w

-----------------------------------------------------------------------------
(* Sending.                                                                *)

\* Every message carries the exchange's pending acknowledgment.
TakePendingPeerAckId(x) ==
    /\ ackPending' = ackPending \ {x}
    /\ ackDueAt' = [ackDueAt EXCEPT ![x] = 0]

\* ExchangeMessageDispatch::SendMessage with AutoRequestAck.  The entry is
\* started once the message is out; if preparing or sending fails it is
\* cleared again.
SendReliable(x) ==
    /\ ~busy
    /\ x \notin used
    /\ Cardinality(used) < TableSize
    /\ TakePendingPeerAckId(x)
    /\ base' = NewBase
    /\ ackLeft' = NewAckLeft
    /\ \/ /\ used' = used \cup {x}
          /\ left' = [NewLeft EXCEPT ![x] = InitialWait + Elapsed(base')]
          /\ count' = [count EXCEPT ![x] = 0]
          /\ lastSent' = [lastSent EXCEPT ![x] = now]
          /\ dueAt' = [dueAt EXCEPT ![x] = NewBase + InitialWait]
       \/ /\ left' = NewLeft
          /\ UNCHANGED <<used, count, lastSent, dueAt>>
    /\ UNCHANGED <<now, loopVars>>
    /\ StartTimer

\* Without an entry to spare the acknowledgment is taken all the same.
SendReliableTableFull(x) ==
    /\ ~busy
    /\ x \notin used
    /\ Cardinality(used) >= TableSize
    /\ TakePendingPeerAckId(x)
    /\ UNCHANGED <<now, timerVars, tableVars, ackLeft, loopVars>>

\* A message sent without requesting an ack; a standalone ack is one, and
\* with it FlushAcks when an exchange closes.
SendUnreliable(x) ==
    /\ ~busy
    /\ TakePendingPeerAckId(x)
    /\ UNCHANGED <<now, timerVars, tableVars, ackLeft, loopVars>>

-----------------------------------------------------------------------------
(* Receiving.                                                              *)

\* The entry is reset to an empty one, and the next wakeup scheduled.
ResetEntry(x) ==
    /\ used' = used \ {x}
    /\ left' = [NewLeft EXCEPT ![x] = 0]
    /\ count' = [count EXCEPT ![x] = 0]
    /\ lastSent' = [lastSent EXCEPT ![x] = 0]
    /\ dueAt' = [dueAt EXCEPT ![x] = 0]

ClearRetransTable(x) ==
    /\ base' = NewBase
    /\ ackLeft' = NewAckLeft
    /\ ResetEntry(x)
    /\ StartTimer

\* The acknowledgment of the entry's message.
HandleRcvdAck(x) ==
    /\ ~busy
    /\ x \in used
    /\ UNCHANGED <<ackPending, ackDueAt>>
    /\ ClearRetransTable(x)
    /\ UNCHANGED <<now, loopVars>>

\* ExchangeContext::Abort: FlushAcks, then the entry is dropped.
Abort(x) ==
    /\ ~busy
    /\ x \in used
    /\ TakePendingPeerAckId(x)
    /\ ClearRetransTable(x)
    /\ UNCHANGED <<now, loopVars>>

\* Mutant: no wakeup is scheduled for the new pending ack.
HandleNeedsAckUnscheduled(x) ==
    /\ ~busy
    /\ base' = NewBase
    /\ left' = NewLeft
    /\ ackPending' = ackPending \cup {x}
    /\ ackLeft' = [NewAckLeft EXCEPT ![x] = AckWait]
    /\ ackDueAt' = [ackDueAt EXCEPT ![x] = NewBase + AckWait]
    /\ UNCHANGED <<now, armed, expiry, used, count, lastSent, dueAt, loopVars>>

\* HandleNeedsAck of a message that is not a duplicate.  A pending ack makes
\* room first, as a standalone ack; if that fails, before the ack is taken
\* (no buffer) or after, the new message is not acknowledged.
HandleNeedsAck(x) ==
    /\ ~busy
    /\ base' = NewBase
    /\ left' = NewLeft
    /\ \/ /\ ackPending' = ackPending \cup {x}
          /\ ackLeft' = [NewAckLeft EXCEPT ![x] = AckWait + Elapsed(base')]
          /\ ackDueAt' = [ackDueAt EXCEPT ![x] = NewBase + AckWait]
       \/ /\ x \in ackPending
          /\ ackLeft' = NewAckLeft
          /\ UNCHANGED <<ackPending, ackDueAt>> \/ TakePendingPeerAckId(x)
    /\ UNCHANGED <<now, used, count, lastSent, dueAt, loopVars>>
    /\ StartTimer

\* Of a duplicate: acknowledged at once.  That ends a pending ack for the
\* same message and leaves one for another message as it was.  Without a
\* buffer the ack is left pending, with whatever is in mNextAckTimeTick.
HandleNeedsAckDuplicate(x) ==
    /\ ~busy
    /\ base' = NewBase
    /\ left' = NewLeft
    /\ ackLeft' = NewAckLeft
    /\ \/ UNCHANGED <<ackPending, ackDueAt>>
       \/ TakePendingPeerAckId(x)
       \/ /\ x \notin ackPending
          /\ ackPending' = ackPending \cup {x}
          /\ ackDueAt' = [ackDueAt EXCEPT ![x] = NewBase + ackLeft[x]]
    /\ UNCHANGED <<now, used, count, lastSent, dueAt, loopVars>>
    /\ StartTimer

-----------------------------------------------------------------------------
(* The timer.                                                              *)

\* Mutant: entries in their last tick are served as well.
TimeoutOneTickEarly ==
    /\ ~busy
    /\ armed # NoTimer
    /\ armed <= now
    /\ armed' = NoTimer
    /\ base' = NewBase
    /\ left' = NewLeft
    /\ ackLeft' = NewAckLeft
    /\ busy' = TRUE
    /\ todo' = {x \in used : NewLeft[x] <= TickLen}
    /\ UNCHANGED <<now, expiry, used, count, lastSent, dueAt, ackPending, ackDueAt>>

\* Timeout up to the loop over the table: ticks expire, then the acks that
\* are due are sent, except the ones for which there is no buffer.
Timeout ==
    /\ ~busy
    /\ armed # NoTimer
    /\ armed <= now
    /\ armed' = NoTimer
    /\ base' = NewBase
    /\ left' = NewLeft
    /\ ackLeft' = NewAckLeft
    /\ \E noBuffer \in SUBSET ackPending :
        ackPending' = {x \in ackPending : NewAckLeft[x] > 0 \/ x \in noBuffer}
    /\ ackDueAt' = [x \in Exchange |-> IF x \in ackPending' THEN ackDueAt[x] ELSE 0]
    /\ busy' = TRUE
    /\ todo' = {x \in used : NewLeft[x] = 0}
    /\ UNCHANGED <<now, expiry, used, count, lastSent, dueAt>>

Retransmit(x) ==
    /\ busy
    /\ x \in todo
    /\ count[x] # MaxRetrans
    /\ count' = [count EXCEPT ![x] = @ + 1]
    /\ left' = [left EXCEPT ![x] = ActiveWait]
    /\ lastSent' = [lastSent EXCEPT ![x] = now]
    /\ dueAt' = [dueAt EXCEPT ![x] = base + ActiveWait]
    /\ todo' = todo \ {x}
    /\ UNCHANGED <<now, base, expiry, armed, used, ackVars, busy>>

\* Out of retransmissions, or sending failed: the entry is cleared, which
\* schedules a wakeup for the entries the loop has not come to yet.
GiveUp(x) ==
    /\ busy
    /\ x \in todo
    /\ todo' = todo \ {x}
    /\ UNCHANGED <<now, ackPending, ackDueAt, busy>>
    /\ ClearRetransTable(x)

TimeoutDone ==
    /\ busy
    /\ todo = {}
    /\ busy' = FALSE
    /\ UNCHANGED <<now, base, tableVars, ackVars, todo>>
    /\ StartTimer

\* The loop may be late for the timer by any amount.
AdvanceTime ==
    /\ ~busy
    /\ now < MaxTime
    /\ now' = now + 1
    /\ UNCHANGED <<timerVars, tableVars, ackVars, loopVars>>

Next ==
    \/ AdvanceTime
    \/ Timeout
    \/ TimeoutDone
    \/ \E x \in Exchange :
        \/ SendReliable(x)
        \/ SendReliableTableFull(x)
        \/ SendUnreliable(x)
        \/ HandleRcvdAck(x)
        \/ Abort(x)
        \/ HandleNeedsAck(x)
        \/ HandleNeedsAckDuplicate(x)
        \/ Retransmit(x)
        \/ GiveUp(x)

Spec == Init /\ [][Next]_vars

-----------------------------------------------------------------------------

Work == used \cup ackPending

(* Virtual ticks do not drift: however often and at whatever point within  *)
(* a tick ExpireTicks moves mTimeStampBase, the entry's remaining ticks    *)
(* (and the pending ack's) still end at the moment they were set for, and  *)
(* are 0 only once that moment has come.                                   *)
NoDrift ==
    /\ base <= now
    /\ \A x \in used :
        left[x] = IF dueAt[x] > base THEN dueAt[x] - base ELSE 0
    /\ \A x \in ackPending :
        ackLeft[x] = IF ackDueAt[x] > base THEN ackDueAt[x] - base ELSE 0

(* While the physical timer runs it is set early enough for every entry    *)
(* and every pending acknowledgment, or it is due already.                 *)
TimerNotLate ==
    ~busy /\ armed # NoTimer =>
        /\ \A x \in used : armed <= dueAt[x] \/ armed <= now
        /\ \A x \in ackPending : armed <= ackDueAt[x] \/ armed <= now

(* mCurrentTimerExpiry is never later than the time the next entry or      *)
(* pending acknowledgment has to be served: when StartTimer leaves the     *)
(* timer alone because the expiry is unchanged, no earlier work is missed. *)
ExpiryNotAfterWork ==
    ~busy =>
        /\ \A x \in used : expiry <= base + left[x]
        /\ \A x \in ackPending : expiry <= base + ackLeft[x]

RetransWait(x) == IF count[x] = 0 THEN InitialWait ELSE ActiveWait

(* A message is never retransmitted before its retransmission timeout, or  *)
(* the part of it that the rounding to ticks leaves, has passed since it   *)
(* was last sent.                                                          *)
NotRetransmittedEarly ==
    [][\A x \in Exchange : count'[x] = count[x] + 1 =>
            now - lastSent[x] > RetransWait(x) - TickLen]_vars

\* In the loop of ExecuteActions base is up to date, and only due entries are
\* visited.
LoopCurrent ==
    /\ busy => /\ now - base < TickLen
               /\ \A x \in todo : left[x] = 0
    /\ ~busy => todo = {}

\* A running timer is set for mCurrentTimerExpiry or is due already.
ArmedForExpiry == armed # NoTimer => armed = expiry \/ armed <= now

\* The moment an entry is due keeps its distance from its last transmission.
DueAfterSending ==
    \A x \in used : dueAt[x] - lastSent[x] > RetransWait(x) - TickLen

\* Inductive: TimerNotLate follows from the second, fourth and fifth conjunct.
RInv ==
    /\ TypeOK
    /\ NoDrift
    /\ LoopCurrent
    /\ ArmedForExpiry
    /\ ExpiryNotAfterWork
    /\ DueAfterSending

(* "Set a timer to go off when we next need to wake the system": while     *)
(* there is an entry or a pending acknowledgment, the timer runs.          *)
WorkIsScheduled == ~busy /\ Work # {} => armed # NoTimer
=============================================================================

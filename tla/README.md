# Verification of the CHIP messaging core and its transports

TLA+ models, TLC runs and TLAPS proofs for sdk-connectedhomeip (Connected Home
over IP): what happens to a message between the raw transport and the
application, the BLE transport protocol below that, and three pieces of code
that are state machines of their own, bulk transfers, persisted counters and the
event log. Paths below are relative to `src/src/` of the repository.

Contents: [the system](#the-system), [modules](#modules), [runs](#runs),
[bounds](#bounds-and-why-they-are-enough), [fairness](#fairness),
[proofs](#proofs), [assumptions](#what-the-models-assume),
[not modelled](#not-modelled), [plan](#plan).

## The system

The stack runs in one event loop: handlers (a datagram, a timer, a call of the
application) run one at a time to completion, and call each other synchronously.
What is concurrent is the two ends of a session, the network between them, and
the order in which one node's timers, datagrams and application calls reach its
loop.

| Component | State | Operations | Talks to |
|---|---|---|---|
| `PeerMessageCounter` | status (not synced, in process, synced), highest counter, bitmap of the counters below it | `SyncStarting`, `SyncFailed`, `VerifyChallenge`, `Verify`, `Commit`, `SetCounter` | owned by a session |
| `SecureSessionMgr` | sessions, each with both counters | `NewPairing`, `SecureMessageDispatch`, sending, expiry | counters, codec, exchange manager |
| `MessageCounterManager` | receive table shared by all sessions, one exchange per attempt | `QueueReceivedMessageAndStartSync`, `HandleMsgCounterSyncReq`/`Resp`, `OnResponseTimeout` | an exchange; re-enters `SecureSessionMgr` |
| `ReliableMessageMgr` | retransmission table, tick base, remembered expiry, one physical timer | `AddToRetransTable`, `StartRetransmision`, `CheckAndRemRetransTable`, `ClearRetransTable`, `Timeout`, `ExpireTicks`, `StartTimer` | system timer, every exchange |
| `ReliableMessageContext` | pending ack and its ticks, occupied flag | `HandleRcvdAck`, `HandleNeedsAck`, `SendStandaloneAckMessage`, `FlushAcks` | the manager, its exchange |
| `ExchangeContext` | delegate, response expected, will send, closed, references | `SendMessage`, `HandleMessage`, `MessageHandled`, `Close`, `Abort`, `NotifyResponseTimeout` | dispatch, delegate |
| `ExchangeManager` | pool of exchanges, handlers of unsolicited messages | `NewContext`, `OnMessageReceived` | session manager, exchanges |
| `ExchangeMessageDispatch` | none | `SendMessage`, `OnMessageReceived` | context, table, session manager |
| `BtpEngine`, `BLEEndPoint` | connection state, send queue, message being sent and received, sequence numbers sent and received, both receive windows, four timers, GATT operation in flight | `StartConnect`, handshake handlers, `Send`, `Receive`, `DriveSending`, confirmations, `Close`, timeouts | the peer, over GATT |
| `TransferSession` (BDX) | state, role, control mode, pending output, block and query counters, timeout | `StartTransfer`, `WaitForTransfer`, `AcceptTransfer`, `PrepareBlock`/`BlockQuery`/`BlockAck`, `HandleMessageReceived`, `PollOutput`, `AbortTransfer`, `Reset` | its caller, and through it an exchange |
| `PersistedCounter` | value, next epoch, the start value in storage | `Init`, `Advance` | storage; the event log |
| `EventManagement` | a chain of circular buffers, each with first and last number and time | `LogEvent`, `FetchEventsSince` | reporting |
| PASE/CASE, interaction model, reporting, channel, session table | see `PROJECT.json` | | above the core |

A datagram goes through `SecureSessionMgr::SecureMessageDispatch` (verify the
counter, decrypt, drop a duplicate that wants no ack, commit the counter), then
`ExchangeManager::OnMessageReceived` (find the exchange, or make one, with a
delegate if a handler is registered and the message is new, with none just to
send an ack), then `ExchangeMessageDispatch::OnMessageReceived` (the ack it
carries, the ack it wants), then `ExchangeContext::HandleMessage` (the delegate,
and whether the exchange is over).

### What is hard here

- The network loses, repeats and reorders. Duplicates are recognised by one
  bitmap, acknowledged by code that must change nothing else, and may arrive
  when the exchange they belong to is gone.
- Verification and commitment of a counter are separated by decryption, and
  queued messages take the whole path a second time.
- Acks are piggybacked, delayed, or sent alone, and can overtake the message
  that repeats them.
- One timer serves every entry and every ack, in ticks that are rounded down in
  every handler, with a shortcut that compares a remembered expiry.
- Buffers, table entries and exchange contexts run out, each in the middle of a
  handler.
- In BTP, the last place in a receive window is kept for an acknowledgment, GATT
  confirmations race with fragments, and every sequence number wraps.
- A BDX session does no I/O: its caller polls, and what arrives or expires
  between two polls has to come out right in any order.
- A process may die between advancing a counter and saving where to go on.
- Logging one event may move and drop others in every buffer of the chain, and
  neither numbers nor times are stored with the events.
- An exchange ends by rules on the combination of delegate, expected response,
  promised message and kind of message, not by one call.

`PROJECT.json` lists these as hazards, each at its line, with the properties
that watch it.

### What makes each component correct

- Counters: no replay, no false refusal, exactly the abstract filter.
- Synchronization: every queued message once, every attempt ends, the session
  gets synchronized.
- Reliability timing: no drift, no early retransmission, no missed wakeup.
- Exchange: at most once and in order, an ack only for what arrived, every
  response delivered, every exchange ended, no assertion reached.
- BTP: whole messages in order, no two ends that wait for each other, every
  message delivered or the connection closed.
- BDX: blocks once and in order, no success at the sender without the data at
  the receiver, no failure without a cause, every transfer ended.
- Persisted counter: no value twice across restarts.
- Event log: the newest events of each priority without a gap, with their true
  times, and no drop without need.

## Modules

| Module | Stands for | Used by |
|---|---|---|
| `PeerMessageCounter` | `transport/PeerMessageCounter.h`, as operators on a record | the next two |
| `SecureReceive` | one session's receive path, `transport/SecureSessionMgr.cpp` | `MCSecureReceive`, `SecureReceive_proofs` |
| `ReplayFilter` | abstract: a filter that remembers every counter | refined by `SecureReceive` |
| `MessageCounterManager` | `protocols/secure_channel/MessageCounterManager.cpp`, several sessions and their peers | `MCMessageCounterManager`, `MessageCounterManager_proofs` |
| `ReliableMessageMgr` | timing: `messaging/ReliableMessageMgr.cpp`, the ack half of `ReliableMessageContext.cpp` | `MCReliableMessageMgr`, `ReliableMessageMgr_proofs` |
| `ReliableExchange` | both ends of one exchange: `messaging/*.cpp` without time | `MCReliableExchange`, `ReliableExchange_proofs` |
| `Btp` | both ends of a BLE connection: `ble/BtpEngine.cpp`, `ble/BLEEndPoint.cpp` | `MCBtp`, `Btp_proofs` |
| `MessagePipe` | abstract: a pipe of whole messages in either direction | refined by `Btp` |
| `BdxTransferSession` | both ends of a transfer: `protocols/bdx/BdxTransferSession.cpp` | `MCBdxTransferSession`, `BdxTransferSession_proofs` |
| `PersistedCounter` | `lib/support/PersistedCounter.cpp` and its storage | `MCPersistedCounter`, `PersistedCounter_proofs` |
| `EventManagement` | `app/EventManagement.cpp` | `MCEventManagement`, `EventManagement_proofs` |

**PeerMessageCounter / SecureReceive.** The bitset is the set of offsets from
the highest counter whose bit is set. `SecureReceive` adds what the rest of the
stack does to it: a new pairing, the start, answer and timeout of a
synchronization, and the reception of a message, genuine or not, control
message or not, wanting an ack or not. `seen` is a history of the counters
passed up as new; `verdict` is what happened to the last message. The
destination checks and the decryption fail together, as `genuine = FALSE`. Their
position between `Verify` and `Commit` is what `ReceiveSyncedCommitFirst`, a
mutant, gets wrong.

**ReplayFilter.** No bitmap, no maximum below which bits are lost: it accepts a
counter above everything seen, or in the window and not seen; repeats what it
has seen only to let the ack be sent again; and must accept when it may.
`SecureReceive` implements it with `synced` and `high` mapped to the record.

**MessageCounterManager.** Sessions share the table. `PeerSend` and
`PeerRespond` are the other end; the response is kept in the set `responses`, so
it may arrive never, late or repeatedly. The exchange of an attempt is its
ordinal; a response for an exchange that is not waiting is dropped by the
exchange layer. `HandleMsgCounterSyncResp` is the whole handler: check the
challenge, set the counter, and feed every queued message of the session back
through the receive path, in table order; that loop is a recursive function over
the table's indices.

**ReliableMessageMgr.** Ticks are kept as the time they stand for. Every handler
that calls `ExpireTicks` and `StartTimer` does so within its action. Only the
loop in `ExecuteActions` is split, one step for each due entry, because giving
up on an entry restarts the timer while the loop is under way; the clock stands
still during it. `lastSent`, `dueAt` and `ackDueAt` are histories.

**ReliableExchange.** Handlers are functions from a node's state to a node's
state, composed as the code calls them, with `out` collecting what is sent; an
action picks the inputs (message, reaction of the application, outcome of the
ack it sends) and puts `out` on the network. `net` never shrinks, which is loss,
repetition and reordering at once. `Release` is the reference counting: a
closed context stays until its entry is gone. A node that reaches a
`VerifyOrDie` is in state `diedOccupied` or `diedAckPending` and does nothing
more. `AckOutcome` says what becomes of a standalone ack: sent, no buffer,
refused with an error that is forgiven, refused with one that is not. `cut` is
a history: a failed ack has ended the wait for a response.

**Btp.** An end point is a record with the fields of `BLEEndPoint` and of its
`BtpEngine`; handlers are functions from record to record, composed as the code
calls them, and `Settle` is the `DoClose` at the end of every handler that
failed. `out` holds what the end point has written or indicated and the peer has
not received yet, in order, as GATT keeps it. A message is its number and its
count of fragments; `got` records whether the fragments put together were those
of one message. A GATT operation may be refused (`GattFaults`), and its
confirmation comes at any time after it, before or after the peer receives it.
`Receive` ends with the last ack of a graceful close, and what that fragment
completed is not passed up; it goes on after `DriveSending` has closed the end
point, as in the code, and a freed peripheral that is used is the error
`used_after_free`.

**MessagePipe.** Two sequences for either direction: what was put in, and a
prefix of it that has come out.

**BdxTransferSession.** A session is a record with the members of
`TransferSession`; a call the session refuses changes nothing and is no step.
The callers are external: they send a polled message at once, acknowledge a
block once and only after they polled it, query in receiver drive, and reset a
session that has finished and been polled. Each transfer has its own exchange,
which keeps order and may lose. `plan` fixes for a behaviour how many blocks and
transfers there may be and which faults. `clean` is a history: nothing outside
the sessions has gone wrong.

**PersistedCounter.** `Init` and `Advance` are each split at the write, before
which and after which the process may die. The client takes the value and then
advances the counter, as `VendEventNumber` does, and only logs an error.

**EventManagement.** A call of `LogEvent` is a sequence of steps: its beginning
(`LogEvent`), one step for each round of the loop of
`EnsureSpaceInCircularBuffer`, which drops the head of a buffer (`DropHead`),
moves it on (`MoveHead`), or goes down the chain (`GoToNextBuffer`) and back up
(`GoBack`) with one saved length per buffer, and the writing of the entry
(`WriteEvent`). The call holds a lock, so the steps of two calls do not mix; they
are separate so that the properties also speak of the log half way through.
`call` holds the event and the local variables of the loop. An entry holds the
time since the event of its priority before it, as in the code; its number and
its time are kept only to state what a reader should get. What a reader gets
(`GetEventReader`, `Visited`, `FetchEventsSince`) is computed from the state.

`PROJECT.json` maps every definition to its lines.

## Runs

| Run | Expected | What it shows |
|---|---|---|
| `secure_receive` | pass | the bitmap is exact, no replay, no false refusal, refinement of `ReplayFilter` |
| `counter_sync` | pass | two peers, one table: delivery at most once, a timer for every attempt, the table drained, attempts bounded by the table, attempts end |
| `rmp_timer` | pass | no drift, the timer never late while it runs, nothing retransmitted early |
| `rmp_wakeup` | violation of `WorkIsScheduled` | work can be left with no timer running |
| `exchange` | pass | in order and at most once, acks mean arrival, no leaked exchange, open exchanges are closed in the end; resources may run out and acks may fail |
| `exchange_response_lost` | violation of `ResponseIsDelivered` | a response that is waited for is discarded because the ack on it is no longer needed |
| `btp` | pass | the engines agree on sequence numbers past the wrap, the ends never wait for each other, an ack that is waited for has a timer, refinement of `MessagePipe` |
| `btp_progress` | pass | a message is delivered or the connection ends, with GATT failures and a close at any time |
| `btp_stale_ack` | violation of `AcksWhatWasReceived` | a correct connection is closed over an ack of nothing |
| `bdx` | pass | blocks once and in order, done means received, no error without a cause, transfers end |
| `persisted_counter` | pass | no value twice, except after a failed write and a crash; starts are multiples of the epoch |
| `events` | pass | what is kept is a gapless run of the newest events of each priority; readers get all of them, with true times until one is dropped; no needless drop |

The three violations are disagreements between the code and its own comments.
Each is quoted under `findings` in `PROJECT.json`. In short:

1. `StartTimer` compares with `mCurrentTimerExpiry`, which neither `StopTimer`
   nor the firing of the timer resets. `TimerNotLate` and `ExpiryNotAfterWork`,
   which hold, say how far this goes: no timer is ever late, but one may be
   missing. It is set again only by a handler that computes another expiry. No
   such handler need come, and one that runs before the due time computes the
   same expiry again.
2. `ExchangeMessageDispatch::OnMessageReceived` treats an ack that matches no
   entry as an error of the message that carries it, whose counter is already
   committed. A response is lost in this way when the request has left the table
   before it arrives, because a standalone ack came first or because the sender
   has given the request up. The trace of the run ends there: the response is
   counted, the delegate has not got it, and the exchange still waits. Its
   retransmission is a duplicate, so the wait can end only otherwise, as by the
   response timer.
3. `DoSendStandAloneAck` leaves the send-ack timer running. When it fires and
   nothing was received since, the end point acknowledges a number it has not
   received, or fails to send a fragment because there is nothing to acknowledge.

Every property of a passing run has a mutant in `PROJECT.json`, a plausible
slip in the code (a dropped guard, a base moved to the current time, the first
pending message only), under which TLC finds it violated.

### Other deviations met on the way

They follow from the models or from reading the code beside them; no run is kept
for them, and the passing properties are stated so that they hold in spite of
them.

- `MessageCounterManager.cpp:79`: a message that finds the receive table full
  does not start a synchronization, and a failed attempt leaves its messages in
  the table; `AttemptsBounded` is how this shows. Once full, nothing is ever
  received on the session, although the peer would answer.
- `ReliableMessageMgr.cpp:262`: a response without an ack reaches the
  application while the request is still in the table; sending then dies in
  `VerifyOrDie` (state `diedOccupied` of `ReliableExchange`).
- `ExchangeContext.cpp:147`: `SendMessage` takes the failure of a standalone ack
  for the failure of the request and ends the wait for the response (`cut`).
  This is the one way to leave an open exchange behind; `NoLeakedExchange` and
  `ExchangesEnd` except it.
- `BLEEndPoint.cpp:1211`: the remote window is one too large after a wrap.
  `:1341`: `Receive` goes on with an end point that `DriveSending` has freed.
  `:347`: `Close` drops queued messages if no fragment is under way.
- `BLEEndPoint.cpp:1398`: `Receive` passes a message up if the "end point is not
  closing". A central that closes gracefully drops a message for that reason, but
  if `DriveSending` finalizes the close inside `Receive`, it is closed, no longer
  closing, and the message completed by that fragment is passed up: the
  application gets a later message without the one before it. With `Closers`
  containing the central TLC finds `ImplementsPipe` violated in this way; run
  `btp` has no closers, and the theorem `Refinement` excepts just this case.
- `BdxTransferSession.cpp:680`: when there is no common control mode, the
  refusal is overwritten and the transfer goes on; `AcceptTransfer` does not
  store the mode it picks, so that with two modes in common (or none)
  `mControlMode` is used as `Reset` or the constructor left it. The modelled
  initiator offers one mode, which the responder supports.
- `EventManagement.h:141`: `SetFirstEventSystemTimestamp` assigns to
  `mLastEventSystemTimestamp`. `EvictEvent` calls it for a dropped event, of which
  its comment says "Increase the event number and first timestamp"
  (`EventManagement.cpp:812`); the first timestamp stays, and the last one goes
  back, which also spoils the difference stored with the next event. From the
  first drop on, the times a reader gets are wrong. Without its antecedent TLC
  finds `FetchedTimesAreTrue` violated in three calls: of the events logged at
  times 1, 2 and 3 only the last is kept, and it is read as logged at 2.
- `EventManagement.h:222`: `InitializeCounter` has its test the wrong way round,
  so that a persisted counter is used only if it failed, and event numbers begin
  with 1 after every restart.
- `EventManagement.cpp:504`: in a first buffer that is full to the last byte, the
  initialisation of the writer fails unnoticed. The assumption
  `NeverExactlyFull` excludes it.
- `EventManagement.cpp:669`: the number that `FetchEventsSince` hands back counts
  entries of all priorities and is one past an entry that did not fit, so a
  reader that goes on from there may skip events. `FetchMissesNothing` is about a
  reader with room for everything.

## Bounds, and why they are enough

- `secure_receive`: window 3, counters 0 to 7, two challenges. A counter can
  move ahead by less than, exactly and more than a window, twice over. The
  proofs cover every size.
- `counter_sync`: two peers, table of 3, window 2, counters up to 3. One peer
  can fill the table for the other, and a queued message can fall out of the
  window before the answer. The number of attempts needs no bound of its own:
  `AttemptsBounded` shows that the table is one.
- `rmp_timer`: three exchanges, two entries, ticks of two units, waits of two
  ticks and of one, one retransmission, time up to 8. Handlers run on and
  between tick boundaries, the table fills, and an entry lives through several
  wakeups. Exchanges are symmetric. The proofs cover every size. `AdvanceTime`
  stops at `MaxTime`; the runs find no deadlock because a message without an
  ack can always be sent.
- `exchange`: two messages of each side and one retransmission: a request, its
  response, the next request, and a late copy of anything. `CHECK_DEADLOCK
  FALSE`, because a finished or dead exchange rightly does nothing. Resources may
  run out in any handler; in one handler of each node (`MaxAckFaults`) the acks
  may fail, for want of a buffer or in the transport.
- `btp`: sequence numbers modulo 5 and a window of 3. The code's 256 and its
  windows of at most a few fragments leave the same kind of slack: more numbers
  than a window, fewer than two. The central sends two messages of two fragments
  and the peripheral one of one. With the handshake and the acks, which have
  numbers too, they fill both windows and wrap both counters; the central's
  window closes in the middle of its second message, and two messages one way
  are what the order of the pipe is about. `btp_progress` adds GATT failures and a close to
  shorter messages, and `btp_stale_ack` needs neither. `CHECK_DEADLOCK FALSE`:
  a closed connection is the end.
- `bdx`: one transfer of up to three blocks with every fault, counters modulo 2,
  indefinite length or one byte, which the second block overruns; and two
  transfers of one block with the same sessions. Every role and both drives.
  `CHECK_DEADLOCK FALSE`: sessions may finish.
- `persisted_counter`: epochs of two values, values up to 7: several writes and
  restarts. The proofs cover every epoch and every bound. Past the last value
  the model stops, hence `CHECK_DEADLOCK FALSE`.
- `events`: three buffers of 7, 6 and 6 bytes, events of 2 and 4 bytes, six
  calls. Four events of the larger size and the highest priority already make
  room in all three buffers. The log stops at the sixth call, hence
  `CHECK_DEADLOCK FALSE`.

## Fairness

- Response timers fire: weak fairness of `OnResponseTimeout` and
  `NotifyResponseTimeout`. Each is a system timer of its exchange, which a
  running event loop lets expire, and it stays enabled until its handler has
  run.
- Nothing is assumed of the retransmission timer (`Retransmit`, `GiveUp`,
  `AckTimeout`): by finding 1 it may not be running when there is work for it.
  `ExchangesEnd` is therefore about open exchanges, which are closed without it.
  A closed context stays in the pool as long as its message is in the
  retransmission table, and that it leaves the table without an ack depends on
  that timer.
- The application sends what it announced with `WillSendMessage` (weak fairness
  of `AppSend`): in `ExchangeContext.h` that call is "a notification that we will
  have SendMessage called on us in the future".
- The BLE platform confirms or fails its operations, delivers what was written
  and indicated, and reports a connection that is gone; timers fire (weak
  fairness of `SystemStep` of `Btp`). Applications need not do anything.
- Callers of a BDX session poll it, act on what they polled and pass on what
  arrives, and time goes on: without polling a session does nothing at all, not
  even time out. Nothing is assumed about delivery by the exchange.
- No fairness is assumed for reception in `ReliableExchange`: exchanges are
  closed even if nothing ever arrives.

## Proofs

TLAPS checks these for every value of the constants that satisfies the named
assumptions. Those are sizes, waits, windows and epochs that are positive, and
six of substance: a peer is not called `"none"` (`PeerAssumption`); a challenge
can be drawn for every attempt (`ChallengeAssumption`); a block counter has at
least two values and the offered and supported modes are sets of modes
(`BdxAssumption`; the code's counter has 2^32); a BTP window has at least three
places (`WindowAssumption`, from `BleConfig.h`); there are more sequence numbers
than places in a window and one (`SeqModAssumption`; the code has 256); and each
buffer of the event log holds every event (`CapacityAssumption`, from
`EventManagement.h`: "must be large enough to accommodate the largest event
emitted by the system"). No proof uses `NeverExactlyFull`. TLC evaluates every
assumption in the runs.

| Module | Inductive invariant | Proved from it |
|---|---|---|
| `SecureReceive_proofs` | `IInv` | `WindowExact`, `NoReplay`, `NoFalseRefusal`, refinement of `ReplayFilter` |
| `MessageCounterManager_proofs` | `IInv` | `TypeOK`, `DeliveredAtMostOnce`, `SyncingHasTimer`, `QueueDrained`, `AttemptsBounded`, the action property `PendingDelivered` |
| `ReliableMessageMgr_proofs` | `RInv` | `TypeOK`, `NoDrift`, `TimerNotLate`, `ExpiryNotAfterWork`, the action property `NotRetransmittedEarly` |
| `ReliableExchange_proofs` | `IInv` | `TypeOK`, `DeliveredInOrder`, `AckedHasArrived`, `NoLeakedExchange` |
| `Btp_proofs` | `IInv` | `TypeOK`, `EnginesAgree`, `AckExpectedHasTimer`, whole messages in order, refinement of `MessagePipe` |
| `BdxTransferSession_proofs` | `IInv`; `CInv` | `TypeOK`, `BlocksInOrder`, `DoneMeansReceived`; `NoSpuriousError` |
| `PersistedCounter_proofs` | `IInv` | `NoReuse`, `NextValueCovered`, the action property `StartsAtEpoch` |
| `EventManagement_proofs` | `IInv` | `TypeOK`, `RetainedInOrder`, `FetchMissesNothing`, `FetchedTimesAreTrue`, the action property `NoNeedlessDrop`, that room can be made |

`SecureReceive_proofs`: the inductive invariant is
`IInv == TypeOK /\ WindowExact /\ NothingSeenAboveMax /\ NothingSeenUnsynced`.
`WindowExact` alone is not inductive: after a jump ahead, the bits for counters
between the old and the new maximum are clear, which is right only because
nothing above the old maximum was ever seen. `CommitInside` and `CommitAhead`
say what `Commit` does to membership in the window, the second for a shift by
any distance; `VerifyMeans` turns `Verify` into arithmetic. From `IInv` follow
`NoReplay`, `NoFalseRefusal` and, step by step in `StepRefines`, the refinement
of `ReplayFilter`.

`MessageCounterManager_proofs`: `DeliveredAtMostOnce` needs that the window of
every session is true of what it delivered (`WindowsTrue`) and that nothing on
the way or in the table has a counter the peer has not used yet
(`CountersUsed`); `QueueDrained` and `SyncingHasTimer` need that a challenge
belongs to the current attempt (`ChallengeIsAttempts`), so that a late answer to
an earlier one synchronizes nothing. `AttemptsBounded` counts: each attempt of an
unsynchronized session has put a message into the table, so the cardinality of
its entries grows with the attempts. The loop of `ProcessPendingMessages` over
the table is a recursive function. What it computes is obtained by induction on
sets: `LeastElement` and `SetInduction` are derived from the well-foundedness of
`<`, and applied to the set of table indices up to which the loop has kept the
session's invariant and has passed up what it had to.

`ReliableMessageMgr_proofs`: the inductive invariant is
`RInv == TypeOK /\ NoDrift /\ LoopCurrent /\ ArmedForExpiry /\
ExpiryNotAfterWork /\ DueAfterSending`. `ExpireTicks` (what the ticks become)
and `StartTimerCovers` (the new expiry is the least wakeup) are proved once and
used for every handler. `LoopCurrent` is needed because the body of the loop
uses the ticks that `Timeout` expired at its start; `ArmedForExpiry` ties the
physical timer to the remembered expiry, so that `TimerNotLate` follows;
`DueAfterSending` gives `NotRetransmittedEarly`.

`ReliableExchange_proofs`: `Sound` is what every handler keeps, also between two
of its calls, and `Settled` what holds between two handlers; a lemma per handler
says which of the two it needs and keeps, and they are composed as the code
composes the calls. Order is not the work of the retransmission table, since the
network reorders and a sender may give up: it comes from `SentInTurn`, that an
application sends only in answer to what it was given (and the initiator once to
begin with), so that its first k messages have been delivered when it sends
another. That everything on the network is `Genuine`, an ack on it being of a
message its sender has seen, gives `AckedHasArrived`.

`Btp_proofs`: a position in one direction is a sequence number, a count of
finished messages and a count of fragments of the next one. The invariant says
that the items under way form a `Chain` from the position the reassembler has
reached to the one of the fragmenter (`Flow`); that queue, fragmenter and timers
fit the state of their end point (`EndPointOK`); what the two may have under way
in each phase of the handshake (`HandshakeOK`); and which messages were given to
the application (`GivenOK`). A chain is an existential path, so that sending
appends one link and receiving takes one off, without a recursive definition.
`Pair` is the invariant as one end sees it: each handler is treated once, for
either role, and `BothStep` puts the two views together. `EnginesAgree` then
follows because the first fragment under way is the one that `Reached` expects.
`Refinement` has the hypothesis that the application of the central may not
close gracefully, because without it the statement is false (see
[deviations](#other-deviations-met-on-the-way)); `WholeMessagesInOrder` needs no
such hypothesis.

`BdxTransferSession_proofs`: a transfer is a stop-and-wait protocol over a
channel that loses but keeps order. `Flight` is what is under way to one end,
what its peer has prepared and not sent included; `MessageOK` says of each
message which block it is about, and `Follows` which may come after which.
`SenderOK` and `ReceiverOK` relate the counters of a session, modulo
`CounterMod`, to the blocks prepared and passed up. A query may be overtaken by
the block it asks for, when that was sent unasked; two counter values are what
it takes to tell it from the next query. These proofs cover sessions that
disagree about the mode or the role. `NoErrorOfTheirOwn` (`NoSpuriousError`)
needs a second invariant on top, `CInv`, which speaks only of behaviours in which
nothing has gone wrong outside (`clean`): there is a mode `d` both ends go by
(`CleanEnd`), a sender that is not waiting has a receiver that is, and the other
way round (`CleanSender`, `CleanReceiver`), and every message under way finds its
receiver in the state to take it, or behind the answer that will bring it there
(`CleanMessage`, `Ready`). `Expected` draws from both what the seven handlers
check, so that none of them prepares a status report. The theorem has the
hypothesis that the initiator offers a single mode, which is what
`TransferInitData::TransferCtlFlags` can hold: with two modes in common the
acceptor's control mode is never assigned.

`PersistedCounter_proofs`: the inductive invariant is
`IInv == TypeOK /\ NothingBeforeInit /\ NextEpochPlaced /\ UsedBelow /\
EpochsAligned`. `NoReuse` is not inductive: that the next value is new needs
`UsedBelow`, that everything taken is below the value while the counter runs and
below the stored start when it does not, and going from the first to the second
in a crash needs `NextEpochPlaced`, that the value is below the stored start
unless a write has failed. `NextMultiple` is what `EpochsAligned`, and with it
`StartsAtEpoch`, rests on.

`EventManagement_proofs`: the inductive invariant is
`IInv == TypeOK /\ CountersOK /\ CallOK /\ LogOK`, for any number of buffers.
`LogOK` is about the entries wherever they are: none is past the buffer of its
priority (`NotTooFar`); of two entries of a priority, the one further down the
chain or further in front is older (`Ordered`); their numbers are those from the
first to the last (`Numbered`); no difference reaches back before the first time
(`NotTooLong`), and until a drop the differences link each event to the one
before it (`Chained`). `CallOK` is about the call under way: every buffer above
the one the loop looks at has a head that waits for the buffer below it, and the
length saved there is the length of what waits for that buffer. A lemma for each
of dropping, moving and writing says what it does to the places of the entries,
and others what that does to `Ordered` and the rest. `DataLength`,
`GetEventReader` and the times of `Visited` are recursive functions; `StepsExist`
shows by induction on sets that such a function exists, and the lemmas after it
what it yields. `ReaderPlaced` says, by induction over the chain, that the reader
of a priority comes across the places of its buffers from the last on, in order.
From there `NumberNotTooLow` (the number a reader goes by is never behind) and
`TimesAddUp` are inductions over what is read.

Only model-checked:

- all liveness (`AttemptEnds`, `ExchangesEnd`, `DeliveredOrClosed`,
  `TransferEnds`): fairness is beyond the prover;
- `NotWedged` of `Btp`: the invariant says nothing of the receive windows, whose
  bookkeeping in `AdjustRemoteReceiveWindow` is off by one after a wrap.

## What the models assume

- Cryptography is perfect: a message decrypts exactly if the peer sent it. A
  challenge is never drawn twice.
- Counters do not reach 2^32 in a session.
- A delegate does not send from `OnResponseTimeout`, and a response that is
  expected has a response timeout.
- The standalone acks that one run of a handler sends share their outcome.
- BTP end points use the default thresholds and agree on the window; versions
  may or may not be compatible. GATT loses and reorders nothing.
- A write to the persisted storage happens or does not.
- Events are logged with the current time, which is not zero.
- An application whose promised message cannot be sent aborts the exchange.
- The peer runs the same code: in `MessageCounterManager` it numbers its
  messages consecutively and answers a request with its current counter. Its
  messages carry its node id, by which `ProcessPendingMessages` finds them, so
  the model finds them by session. Only genuine messages are queued there; the
  code queues before decryption (`SecureSessionMgr.cpp:353`), and one that does
  not decrypt would take a place in the table and be dropped on its second pass.
- An application sends over BTP only while connected; `BLEEndPoint::Send` also
  accepts a message while the connection is closing.
- The platform accepts the unsubscription of a closing central
  (`BLEEndPoint.cpp:414`; a refusal frees the end point at once).
- An event that could be encoded to find its size can be encoded again to be
  written. Otherwise `LogEvent` would restore the first buffer only
  (`EventManagement.cpp:562`), and an event moved on would be in two buffers.

## Not modelled

`PauseRetransmision`/`ResumeRetransmision` (no caller), shutdown, sessions that
expire under an exchange, group messages, handler registration, the pools of
`BleLayer`, asynchronous BDX, readers of the event log that run out of space, and the
components `PROJECT.json` lists as `not_modelled`: those of the plan below;
encodings, cryptography and platform code, where there is no state machine to
check; and the data model's clusters, mostly generated.

## Plan

In this order; each with an MC module, its configuration and its mutants.

1. Session expiry: `PeerConnections` and `OnConnectionExpired` composed with
   the exchange.
2. The reporting engine with its read handlers: reports in flight, fairness of
   the round robin, reading the event log in pieces.
3. PASE and CASE as handshakes over an exchange.
4. Proofs: `NotWedged` of `Btp` with an account of both windows.

----------------------- MODULE MessageCounterManager -----------------------
(***************************************************************************)
(* Message counter synchronization (MCSP): the receiving node's            *)
(* secure_channel::MessageCounterManager with the PeerMessageCounter of    *)
(* each of its sessions, and the peers that answer its requests.           *)
(*                                                                         *)
(* A message of a session that is not synchronized is put in a table that  *)
(* all sessions share and a MsgCounterSyncReq is sent on a new exchange;   *)
(* the response synchronizes the session and re-injects its messages; the  *)
(* exchange's response timer abandons the attempt.  The network loses,     *)
(* duplicates and reorders: what was sent once may be delivered never or   *)
(* any number of times.                                                    *)
(*                                                                         *)
(* The challenge, a fresh random number, and the exchange id, a fresh      *)
(* number as well, are both the ordinal of the attempt in its session.     *)
(* TableSize bounds that ordinal: see AttemptsBounded.                     *)
(***************************************************************************)
EXTENDS PeerMessageCounter, FiniteSets

CONSTANTS Peer, TableSize

ASSUME TableAssumption == TableSize \in Nat \ {0}

VARIABLES
    pmc,       \* PeerMessageCounter of the session with each peer
    attempts,  \* number of requests sent in the session
    waiting,   \* the exchange whose response timer is armed, 0 if none
    table,     \* mReceiveTable
    next,      \* the peer's LocalSessionMessageCounter: its next counter
    responses, \* MsgCounterSyncRsp messages the peers have sent
    delivered  \* history: how often each message was passed up as new

vars == <<pmc, attempts, waiting, table, next, responses, delivered>>

Attempts == 1 .. TableSize
Empty    == [peer |-> "none", counter |-> 0]

\* No peer has the name that stands for no peer; attempts have a challenge each.
ASSUME PeerAssumption == "none" \notin Peer
ASSUME ChallengeAssumption == Attempts \subseteq Challenge

Message  == [peer : Peer, counter : Counters]

TypeOK ==
    /\ pmc \in [Peer -> PeerCounterType]
    /\ attempts \in [Peer -> 0 .. TableSize]
    /\ waiting \in [Peer -> 0 .. TableSize]
    /\ table \in [1 .. TableSize -> Message \cup {Empty}]
    /\ next \in [Peer -> Counters]
    /\ responses \subseteq [peer : Peer, exchange : Attempts, counter : Counters]
    /\ delivered \in [Peer -> [Counters -> 0 .. 2]]

Init ==
    /\ pmc = [p \in Peer |-> Reset]
    /\ attempts = [p \in Peer |-> 0]
    /\ waiting = [p \in Peer |-> 0]
    /\ table = [i \in 1 .. TableSize |-> Empty]
    /\ next = [p \in Peer |-> 1]
    /\ responses = {}
    /\ delivered = [p \in Peer |-> [c \in Counters |-> 0]]

-----------------------------------------------------------------------------
(* The peers.                                                              *)

\* The bound keeps the 32-bit counter from wrapping.
PeerSend(p) ==
    /\ next[p] < MaxCounter
    /\ next' = [next EXCEPT ![p] = @ + 1]
    /\ UNCHANGED <<pmc, attempts, waiting, table, responses, delivered>>

\* HandleMsgCounterSyncReq at the peer, for a request that is delivered
\* perhaps late and perhaps again; the answer carries the current counter.
PeerRespond(p, n) ==
    /\ n <= attempts[p]
    /\ responses' = responses \cup {[peer |-> p, exchange |-> n, counter |-> next[p]]}
    /\ UNCHANGED <<pmc, attempts, waiting, table, next, delivered>>

-----------------------------------------------------------------------------
(* Passing a message of a synchronized session up, as SecureReceive has    *)
(* it.  Here only what is passed up as new matters.                        *)

\* Mutant: a re-injected message skips the check of its counter.
DispatchUnchecked(s, counter) ==
    [pmc |-> Commit(s.pmc, counter),
     delivered |-> [s.delivered EXCEPT ![counter] = IF @ = 2 THEN 2 ELSE @ + 1]]

\* s is a pair of a PeerMessageCounter and the history of its session.
Dispatch(s, counter) ==
    IF Verify(s.pmc, counter) = "ok"
    THEN [pmc |-> Commit(s.pmc, counter),
          delivered |-> [s.delivered EXCEPT ![counter] = IF @ = 2 THEN 2 ELSE @ + 1]]
    ELSE s

Session(p) == [pmc |-> pmc[p], delivered |-> delivered[p]]

FreeSlots == {i \in DOMAIN table : table[i] = Empty}

\* AddToReceiveTable takes the first free entry.
FirstFree == CHOOSE i \in FreeSlots : \A j \in FreeSlots : i <= j

\* StartSync does nothing while an attempt is running; otherwise
\* SendMsgCounterSyncReq sends the request and arms the timer, or fails for
\* want of an exchange, a buffer or a route and resets the counter.
StartSync(p) ==
    \/ /\ IsSynchronizing(pmc[p])
       /\ UNCHANGED <<pmc, attempts, waiting>>
    \/ /\ ~IsSynchronizing(pmc[p])
       /\ attempts' = [attempts EXCEPT ![p] = @ + 1]
       /\ waiting' = [waiting EXCEPT ![p] = attempts[p] + 1]
       /\ pmc' = [pmc EXCEPT ![p] = SyncStarting(attempts[p] + 1)]
    \/ /\ ~IsSynchronizing(pmc[p])
       /\ pmc' = [pmc EXCEPT ![p] = SyncFailed]
       /\ UNCHANGED <<attempts, waiting>>

\* Mutant: a message for which there is no room starts an attempt all the same.
StartSyncWithoutQueueing(p, counter) ==
    /\ table' = IF FreeSlots = {} THEN table
                ELSE [table EXCEPT ![FirstFree] = [peer |-> p, counter |-> counter]]
    /\ StartSync(p)

\* Mutant: the attempt is started and the message is not queued.
StartSyncOnly(p, counter) ==
    /\ StartSync(p)
    /\ UNCHANGED table

\* With the table full the message is dropped before StartSync is called.
QueueReceivedMessageAndStartSync(p, counter) ==
    IF FreeSlots = {}
    THEN UNCHANGED <<pmc, attempts, waiting, table>>
    ELSE /\ table' = [table EXCEPT ![FirstFree] = [peer |-> p, counter |-> counter]]
         /\ StartSync(p)

ReceiveUnsynced(p, counter) ==
    /\ counter \in 1 .. next[p] - 1
    /\ ~IsSynchronized(pmc[p])
    /\ QueueReceivedMessageAndStartSync(p, counter)
    /\ UNCHANGED <<next, responses, delivered>>

ReceiveSynced(p, counter) ==
    /\ counter \in 1 .. next[p] - 1
    /\ IsSynchronized(pmc[p])
    /\ LET s == Dispatch(Session(p), counter)
       IN  /\ pmc' = [pmc EXCEPT ![p] = s.pmc]
           /\ delivered' = [delivered EXCEPT ![p] = s.delivered]
    /\ UNCHANGED <<attempts, waiting, table, next, responses>>

IsPendingOf(p, i) == table[i] # Empty /\ table[i].peer = p

\* Mutant: only the first entry of the table that matches is processed.
ProcessFirstPending(p, s) ==
    LET pending == {i \in DOMAIN table : IsPendingOf(p, i)}
        first   == CHOOSE i \in pending : \A j \in pending : i <= j
    IN  IF pending = {} THEN s ELSE Dispatch(s, table[first].counter)

\* The loop re-injects the messages through Dispatch in the table's order;
\* After[i] is the session when it has gone through i entries.
ProcessPendingMessages(p, s) ==
    LET After[i \in 0 .. TableSize] ==
            IF i = 0 THEN s
            ELSE IF IsPendingOf(p, i) THEN Dispatch(After[i - 1], table[i].counter)
            ELSE After[i - 1]
    IN  After[TableSize]

\* Mutant: processed entries are not freed.
TableAsBefore(p) == table

TableWithout(p) ==
    [i \in DOMAIN table |-> IF IsPendingOf(p, i) THEN Empty ELSE table[i]]

\* The exchange layer discards a response on an exchange that is closed; the
\* response timer is cancelled and the exchange closed whatever the handler
\* makes of the response.
HandleMsgCounterSyncResp(p, r) ==
    /\ r.peer = p
    /\ r.exchange = waiting[p]
    /\ waiting' = [waiting EXCEPT ![p] = 0]
    /\ IF r.counter # 0 /\ ChallengeMatches(pmc[p], r.exchange)
       THEN LET synced == VerifyChallenge(pmc[p], r.counter, r.exchange)
                s == ProcessPendingMessages(p, [Session(p) EXCEPT !.pmc = synced])
            IN  /\ pmc' = [pmc EXCEPT ![p] = s.pmc]
                /\ delivered' = [delivered EXCEPT ![p] = s.delivered]
                /\ table' = TableWithout(p)
       ELSE UNCHANGED <<pmc, delivered, table>>
    /\ UNCHANGED <<attempts, next, responses>>

\* Mutant: the session stays in SyncInProcess.
OnResponseTimeoutIgnored(p) ==
    /\ waiting[p] # 0
    /\ waiting' = [waiting EXCEPT ![p] = 0]
    /\ UNCHANGED <<pmc, attempts, table, next, responses, delivered>>

OnResponseTimeout(p) ==
    /\ waiting[p] # 0
    /\ waiting' = [waiting EXCEPT ![p] = 0]
    /\ pmc' = [pmc EXCEPT ![p] = SyncFailed]
    /\ UNCHANGED <<attempts, table, next, responses, delivered>>

-----------------------------------------------------------------------------

Next ==
    \E p \in Peer :
        \/ PeerSend(p)
        \/ \E n \in Attempts : PeerRespond(p, n)
        \/ \E counter \in Counters : ReceiveUnsynced(p, counter)
        \/ \E counter \in Counters : ReceiveSynced(p, counter)
        \/ \E r \in responses : HandleMsgCounterSyncResp(p, r)
        \/ OnResponseTimeout(p)

\* Timers fire.
TimerFairness == \A p \in Peer : WF_vars(OnResponseTimeout(p))

Spec == Init /\ [][Next]_vars /\ TimerFairness

-----------------------------------------------------------------------------

(* No message is passed up as new twice, although a session may go through *)
(* several synchronization attempts, each of which clears the window, and  *)
(* although a message may be both queued and received again directly.      *)
DeliveredAtMostOnce == \A p \in Peer, c \in Counters : delivered[p][c] <= 1

(* A session in SyncInProcess always has an exchange whose timer will end  *)
(* the attempt: StartSync does nothing in that state, so a session without *)
(* the timer would never be synchronized.                                  *)
SyncingHasTimer == \A p \in Peer : IsSynchronizing(pmc[p]) <=> waiting[p] # 0

(* ProcessPendingMessages leaves nothing of a synchronized session in the  *)
(* table: no later event would take it out.                                *)
QueueDrained ==
    \A i \in DOMAIN table : table[i] # Empty => ~IsSynchronized(pmc[table[i].peer])

(* Every request sent in a session whose synchronization has not succeeded *)
(* has left a message in the table, so the table bounds the attempts.      *)
AttemptsBounded ==
    \A p \in Peer : ~IsSynchronized(pmc[p]) =>
        attempts[p] <= Cardinality({i \in DOMAIN table : IsPendingOf(p, i)})

(* Synchronizing passes up every queued message that is not a whole window *)
(* behind the peer's counter, and drops the others.                        *)
PendingDelivered ==
    [][\A p \in Peer :
        ~IsSynchronized(pmc[p]) /\ IsSynchronized(pmc'[p]) =>
            \A i \in DOMAIN table :
                table[i].peer = p /\ next[p] - table[i].counter < WindowSize =>
                    delivered'[p][table[i].counter] = 1]_vars

(* An attempt to synchronize comes to an end, by a response or by the      *)
(* timer, so that the next message can start another one.                  *)
AttemptEnds ==
    \A p \in Peer : IsSynchronizing(pmc[p]) ~> ~IsSynchronizing(pmc[p])
=============================================================================
